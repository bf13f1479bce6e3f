---------------------------- MODULE ResultStream ----------------------------
(***************************************************************************)
(* How the join result leaves the enclave and is read back: stream_result_ *)
(* rows stages the projected rows in a chunk buffer that it uses over and  *)
(* over, encrypts each in place and hands full chunks to the host, whose   *)
(* writer appends them to a CSV file; decrypt_result later sends the lines *)
(* of the file back through the enclave, a batch at a time.                *)
(*                                                                         *)
(* A cell is a value under a set of key-stream words, each named by the    *)
(* nonce and the position in the entry that it was made for.  AES-CTR      *)
(* exclusive-ors: applying a word twice removes it, and only a cell under  *)
(* no word shows its value.  Encryption may fail at any row, as may        *)
(* decryption and the allocation of the chunk.                             *)
(***************************************************************************)
EXTENDS Integers, Sequences

CONSTANTS
    Results,        \* the join results: sequences of rows, rows of one width
    OutCols(_),     \* the projections the host may ask of a result
    STREAM_CHUNK,   \* rows per call to the host
    BATCH           \* rows per call of the decryptor

ASSUME ChunkAssumption == STREAM_CHUNK \in Nat \ {0} /\ BATCH \in Nat \ {0}

ASSUME SizesAssumption ==
    \A res \in Results :
        Len(res) \in Nat /\ \A cols \in OutCols(res) : Len(cols) \in Nat

VARIABLES
    result,         \* the join result, fixed
    out_cols,       \* the projection, fixed: attr_idx per output column
    pc,             \* where the enclave, or later the decryptor, is
    chunk,          \* the staging buffer: entries 1..STREAM_CHUNK
    i,              \* rows staged in the current chunk
    sent,           \* rows handed to the host
    g_nonce_counter,
    ecall_ret,      \* what ecall_run_join returns
    g_width,        \* the writer's row width, from the marker
    file,           \* the lines of the encrypted CSV
    pos,            \* lines the decryptor has read
    batch,          \* the decryptor's pending entries
    out,            \* the lines of the plaintext CSV
    rc,             \* the decryptor's exit code
    faults          \* history: failures of the crypto library or of malloc

enclave == <<chunk, i, sent, g_nonce_counter, ecall_ret>>
host == <<g_width, file>>
tool == <<pos, batch, out, rc>>
vars == <<result, out_cols, pc, enclave, host, tool, faults>>

out_width == Len(out_cols)
Columns == 1..out_width

-----------------------------------------------------------------------------
(* Cells and entries.  Position 0 of an entry is its field_type, which is  *)
(* encrypted with the columns; is_encrypted and nonce stay in the clear.   *)

Plain(v) == [val |-> v, words |-> {}]

(* The symmetric difference: a word that is there already goes. *)
Xor(cell, word) ==
    [val |-> cell.val, words |-> (cell.words \ {word}) \cup ({word} \ cell.words)]

(* What both directions of AES-CTR do to the two regions of an entry. *)
Keystream(cells, nonce) == [c \in DOMAIN cells |-> Xor(cells[c], <<nonce, c>>)]

ZeroEntry == [is_encrypted |-> FALSE, nonce |-> 0, cells |-> [c \in 0..out_width |-> Plain(0)]]

CRYPTO_SUCCESS == "success"

(* aes_encrypt_entry and aes_decrypt_entry when the library call succeeds: *)
(* a status and the entry as it is left.                                   *)
aes_encrypt_entry(e, nonce) ==
    IF e.is_encrypted THEN [status |-> "already encrypted", entry |-> e]
    ELSE [status |-> CRYPTO_SUCCESS,
          entry  |-> [is_encrypted |-> TRUE, nonce |-> nonce, cells |-> Keystream(e.cells, nonce)]]

aes_decrypt_entry(e) ==
    IF ~e.is_encrypted THEN [status |-> "not encrypted", entry |-> e]
    ELSE [status |-> CRYPTO_SUCCESS,
          entry  |-> [is_encrypted |-> FALSE, nonce |-> e.nonce,
                      cells |-> Keystream(e.cells, e.nonce)]]

-----------------------------------------------------------------------------
Init ==
    /\ result \in Results
    /\ out_cols \in OutCols(result)
    /\ pc = "marker"
    /\ chunk = <<>> /\ i = 0 /\ sent = 0 /\ g_nonce_counter = 1 /\ ecall_ret = "running"
    /\ g_width = 0 /\ file = <<>>
    /\ pos = 0 /\ batch = <<>> /\ out = <<>> /\ rc = "none"
    /\ faults = 0

(* The marker entry: not encrypted, so the writer takes the width from it. *)
SendMarker ==
    /\ pc = "marker"
    /\ g_width' = out_width
    /\ pc' = "alloc"
    /\ UNCHANGED <<result, out_cols, enclave, file, tool, faults>>

AllocChunk ==
    /\ pc = "alloc"
    /\ chunk' = [n \in 1..STREAM_CHUNK |-> ZeroEntry]
    /\ pc' = "stage"
    /\ UNCHANGED <<result, out_cols, i, sent, g_nonce_counter, ecall_ret, host, tool, faults>>

(* The call returns, and the host closes the file it has. *)
Return(status) ==
    /\ ecall_ret' = status
    /\ chunk' = <<>>
    /\ pc' = "closed"

ChunkOutOfMemory ==
    /\ pc = "alloc"
    /\ Return("SGX_ERROR_OUT_OF_MEMORY")
    /\ faults' = faults + 1
    /\ UNCHANGED <<result, out_cols, i, sent, g_nonce_counter, host, tool>>

(* The entry that row number r is staged in: the buffer's, which may hold  *)
(* an encrypted row of the previous chunk.                                 *)
StagedCells(e, r) ==
    [c \in DOMAIN e.cells |->
        IF c \in Columns THEN Plain(result[r][out_cols[c]]) ELSE e.cells[c]]

Staged_noreset(e, r) ==     \* mutant: is_encrypted of the previous chunk stays
    [is_encrypted |-> e.is_encrypted, nonce |-> 0, cells |-> StagedCells(e, r)]

Staged(e, r) == [is_encrypted |-> FALSE, nonce |-> 0, cells |-> StagedCells(e, r)]

CanStage == pc = "stage" /\ i < STREAM_CHUNK /\ sent + i < Len(result)

(* One row into the chunk.  A refusal by aes_encrypt_entry ends the call.  *)
get_next_nonce_reuse == g_nonce_counter + 1 - (g_nonce_counter % 2)   \* mutant: advances every other time

get_next_nonce == g_nonce_counter

Stage ==
    /\ CanStage
    /\ LET enc == aes_encrypt_entry(Staged(chunk[i + 1], sent + i + 1), get_next_nonce)
       IN  \/ /\ enc.status = CRYPTO_SUCCESS
              /\ chunk' = [chunk EXCEPT ![i + 1] = enc.entry]
              /\ i' = i + 1
              /\ g_nonce_counter' = g_nonce_counter + 1
              /\ UNCHANGED <<pc, ecall_ret>>
           \/ /\ enc.status # CRYPTO_SUCCESS
              /\ Return("SGX_ERROR_UNEXPECTED")
              /\ UNCHANGED <<i, g_nonce_counter>>
    /\ UNCHANGED <<result, out_cols, sent, host, tool, faults>>

(* The library call fails, after the nonce was taken. *)
EncryptFault ==
    /\ CanStage
    /\ Return("SGX_ERROR_UNEXPECTED")
    /\ g_nonce_counter' = g_nonce_counter + 1
    /\ faults' = faults + 1
    /\ UNCHANGED <<result, out_cols, i, sent, host, tool>>

(* ocall_stream_result for one chunk: a line per encrypted entry, with the *)
(* nonce as its last field.                                                *)
Line(e) == [cells |-> [c \in 1..g_width |-> e.cells[c]], nonce |-> e.nonce]

SendCount_full == STREAM_CHUNK      \* mutant: the last chunk is sent whole

SendCount == i

SendChunk ==
    /\ pc = "stage" /\ i > 0 /\ ~CanStage
    /\ file' = file \o [n \in 1..SendCount |-> Line(chunk[n])]
    /\ sent' = sent + i
    /\ i' = 0
    /\ UNCHANGED <<result, out_cols, pc, chunk, g_nonce_counter, ecall_ret, g_width, tool, faults>>

(* The timing marker is printed, not written, and the call succeeds. *)
EndStream ==
    /\ pc = "stage" /\ sent = Len(result)
    /\ Return("SGX_SUCCESS")
    /\ UNCHANGED <<result, out_cols, i, sent, g_nonce_counter, host, tool, faults>>

-----------------------------------------------------------------------------
(* decrypt_result, on whatever file the call left. *)

Open ==
    /\ pc = "closed"
    /\ pc' = "read" /\ rc' = "running"
    /\ UNCHANGED <<result, out_cols, enclave, host, pos, batch, out, faults>>

(* The entry made of a line: values at their places in a zeroed entry. *)
Rebuilt(line) ==
    [is_encrypted |-> TRUE, nonce |-> line.nonce,
     cells |-> [c \in 0..out_width |-> IF c \in Columns THEN line.cells[c] ELSE Plain(0)]]

(* ecall_decrypt_rows on the pending entries, all of which decrypt. *)
Decrypted(entries) ==
    [n \in DOMAIN entries |->
        [c \in Columns |-> aes_decrypt_entry(entries[n]).entry.cells[c]]]

(* A line is read; a full batch is flushed at once. *)
FlushKeeps(pending) == pending      \* mutant: flush does not clear the batch

FlushLeaves(pending) == <<>>

FlushFails ==
    /\ rc' = "1" /\ pc' = "done"
    /\ faults' = faults + 1
    /\ UNCHANGED out

Read ==
    /\ pc = "read" /\ pos < Len(file)
    /\ pos' = pos + 1
    /\ LET pending == Append(batch, Rebuilt(file[pos + 1]))
       IN  \/ /\ Len(pending) < BATCH
              /\ batch' = pending
              /\ UNCHANGED <<pc, out, rc, faults>>
           \/ /\ Len(pending) = BATCH
              /\ out' = out \o Decrypted(pending)
              /\ batch' = FlushLeaves(pending)
              /\ UNCHANGED <<pc, rc, faults>>
           \/ /\ Len(pending) = BATCH
              /\ batch' = pending
              /\ FlushFails
    /\ UNCHANGED <<result, out_cols, enclave, host>>

(* End of file: the last, partial batch. *)
Drain ==
    /\ pc = "read" /\ pos = Len(file)
    /\ \/ /\ out' = out \o Decrypted(batch)
          /\ batch' = FlushLeaves(batch)
          /\ rc' = "0" /\ pc' = "done"
          /\ UNCHANGED faults
       \/ /\ batch # <<>>
          /\ FlushFails
          /\ UNCHANGED batch
    /\ UNCHANGED <<result, out_cols, enclave, host, pos>>

Ended == pc = "done" /\ UNCHANGED vars

Next ==
    \/ SendMarker \/ AllocChunk \/ ChunkOutOfMemory \/ Stage \/ EncryptFault
    \/ SendChunk \/ EndStream \/ Open \/ Read \/ Drain \/ Ended

Spec == Init /\ [][Next]_vars

-----------------------------------------------------------------------------
(* Properties *)

(* Row number r of the result as the query asked for it. *)
Projected(r) == [c \in Columns |-> result[r][out_cols[c]]]

(* Type invariant. *)
TypeOK ==
    /\ pc \in {"marker", "alloc", "stage", "closed", "read", "done"}
    /\ i \in 0..STREAM_CHUNK
    /\ sent + i <= Len(result)
    /\ ecall_ret \in {"running", "SGX_SUCCESS", "SGX_ERROR_UNEXPECTED", "SGX_ERROR_OUT_OF_MEMORY"}
    /\ rc \in {"none", "running", "0", "1"}
    /\ pc = "stage" => DOMAIN chunk = 1..STREAM_CHUNK
    /\ Len(batch) < BATCH \/ pc = "done"

(* Enclave.cpp:51-59 and 75-80: every row in the host's hands is under the *)
(* key stream of its own line, in every chunk and not only the first, so   *)
(* that the nonce in the line is all that decrypting it takes.             *)
OnlyCiphertextLeaves ==
    \A n \in DOMAIN file :
        \A c \in DOMAIN file[n].cells : file[n].cells[c].words = {<<file[n].nonce, c>>}

(* No part of the key stream is used for two rows. *)
NoncesAreFresh ==
    \A m, n \in DOMAIN file : m # n => file[m].nonce # file[n].nonce

(* What the host holds is the beginning of the result, in order, cut at a  *)
(* chunk's end; and all of it once the call has returned success.          *)
FileIsResultPrefix ==
    /\ Len(file) = sent
    /\ sent % STREAM_CHUNK = 0 \/ sent = Len(result)
    /\ \A n \in DOMAIN file : [c \in DOMAIN file[n].cells |-> file[n].cells[c].val] = Projected(n)
    /\ ecall_ret = "SGX_SUCCESS" => sent = Len(result)

(* The call fails only when the crypto library or malloc does: no row is   *)
(* ever refused because of what the buffer held before.                    *)
FailsOnlyOnFault ==
    ecall_ret \in {"SGX_ERROR_UNEXPECTED", "SGX_ERROR_OUT_OF_MEMORY"} => faults > 0

(* The decryptor writes plaintext, the first rows of the file in order,    *)
(* and with exit code 0 all of them: what the correctness comparison reads *)
(* is the file's content, or the tool says that it is not.                 *)
DecryptorRestoresFile ==
    /\ Len(out) <= Len(file)
    /\ \A n \in DOMAIN out :
          out[n] = [c \in Columns |-> Plain(Projected(n)[c])]
    /\ rc = "0" => Len(out) = Len(file)

=============================================================================
