----------------------------- MODULE TableFiles -----------------------------
(***************************************************************************)
(* Tables as CSV files (table_io.cpp, crypto_utils.cpp, aes_crypto.c).  A  *)
(* file has a line of column names, a column "nonce" among them if its     *)
(* lines are encrypted, and lines of numbers; a table without rows is      *)
(* saved as a file without any line.  Nonces are left out: the key stream  *)
(* is the word of all ones, with which x XOR-ed is -1 - x.                 *)
(***************************************************************************)
EXTENDS BatchRows

XorKey(x) == -1 - x

EmptyFile == [columns |-> <<>>, nonce |-> FALSE, lines |-> <<>>]

(* Numbers beyond int32_t become its ends. *)
parse_value(x) ==
    IF x > 2^(IntBits - 1) - 1 THEN 2^(IntBits - 1) - 1
    ELSE IF x < -2^(IntBits - 1) THEN -2^(IntBits - 1) ELSE x

MapLines(f(_), lines) == [i \in DOMAIN lines |-> [j \in DOMAIN lines[i] |-> f(lines[i][j])]]

(* aes_decrypt_entry, on the attributes of the lines that were encrypted.  *)
Revealed(file) == IF file.nonce THEN MapLines(XorKey, file.lines) ELSE file.lines

IsReadable(file) == file.columns # <<>>

load_csv(file) ==
    LET values == Revealed([file EXCEPT !.lines = MapLines(parse_value, @)])
    IN  [schema |-> file.columns,
         rows   |-> [i \in DOMAIN values |-> to_entry(values[i], file.nonce)]]

(* What the host holds of a row, which it writes to the file as it is. *)
StoredLine(e) ==
    [j \in DOMAIN e.attributes |->
        IF e.is_encrypted THEN XorKey(e.attributes[j]) ELSE e.attributes[j]]

(* The encryption that the first row stands for; none in an empty table.   *)
AssertConsistentEncryption(table) == table.rows # <<>> /\ table.rows[1].is_encrypted

encrypt_entry(e) == [e EXCEPT !.is_encrypted = TRUE]

(* Saving fails: at a row that is encrypted behind a first that is not, or *)
(* that a lost enclave cannot encrypt; in the check before the file is     *)
(* written, at a row in the clear behind a first that is encrypted.        *)
SaveThrows(table, lost) ==
    \E i \in DOMAIN table.rows :
        IF AssertConsistentEncryption(table) THEN ~table.rows[i].is_encrypted
        ELSE table.rows[i].is_encrypted \/ lost

save_encrypted_csv_again(table) ==   \* mutant: the encryption it finds is not asked for
    IF table.rows = <<>> THEN EmptyFile
    ELSE [columns |-> table.schema, nonce |-> TRUE,
          lines |-> MapLines(XorKey, [i \in DOMAIN table.rows |-> StoredLine(table.rows[i])])]

save_encrypted_csv(table) ==
    LET entries == IF AssertConsistentEncryption(table) THEN table.rows
                   ELSE [i \in DOMAIN table.rows |-> encrypt_entry(table.rows[i])]
    IN  IF table.rows = <<>> THEN EmptyFile
        ELSE [columns |-> table.schema, nonce |-> TRUE,
              lines |-> [i \in DOMAIN entries |-> StoredLine(entries[i])]]

=============================================================================
