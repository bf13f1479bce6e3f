------------------------- MODULE ResultStreamProofs -------------------------
(***************************************************************************)
(* What the host receives of a join result, and what the decryptor makes   *)
(* of it, for every result, projection, chunk size and batch size: proofs  *)
(* of the properties of ResultStream.                                      *)
(*                                                                         *)
(* The argument.  While the call streams, the nonce counter is the number  *)
(* of the next row, so row r gets the nonce r and no other row does.  The  *)
(* first i entries of the chunk are the rows after those sent, each under  *)
(* the words of its own nonce (Staging); an entry that is staged again has *)
(* had its flag and its columns reset, so that encrypting it is never      *)
(* refused and leaves exactly one word on each column, whatever the entry  *)
(* was before.  So the file is the first rows' lines (Sent), and what the  *)
(* decryptor has read is its output followed by its pending batch          *)
(* (Restored).                                                             *)
(***************************************************************************)
EXTENDS ResultStream, SequenceTheorems, TLAPS

(* Column c of row r, in the clear and under the words of the row's nonce. *)
Value(r, c) == result[r][out_cols[c]]
Enciphered(r, c) == [val |-> Value(r, c), words |-> {<<r, c>>}]

(* Row r's line, and its line of the plaintext file. *)
LineOf(r) == [cells |-> [c \in Columns |-> Enciphered(r, c)], nonce |-> r]
PlainLine(r) == [c \in Columns |-> Plain(Value(r, c))]

IsEntry(e) ==
    /\ e = [is_encrypted |-> e.is_encrypted, nonce |-> e.nonce, cells |-> e.cells]
    /\ e.cells = [c \in 0..out_width |-> e.cells[c]]

(* An entry of the chunk that holds row r, encrypted. *)
HoldsRow(e, r) ==
    /\ e.is_encrypted = TRUE /\ e.nonce = r
    /\ \A c \in Columns : e.cells[c] = Enciphered(r, c)

Fixed == result \in Results /\ out_cols \in OutCols(result)

Counters ==
    /\ i \in 0..STREAM_CHUNK /\ sent \in Nat /\ sent + i <= Len(result)
    /\ pc \in {"marker", "alloc", "stage"} =>
          g_nonce_counter = sent + i + 1 /\ ecall_ret = "running"
    /\ pc \in {"marker", "alloc"} => sent = 0 /\ i = 0
    /\ pc # "marker" => g_width = out_width
    /\ sent = Len(result) \/ \E m \in 0..Len(result) : sent = m * STREAM_CHUNK
    /\ ecall_ret = "SGX_SUCCESS" => sent = Len(result)
    /\ ecall_ret \in {"running", "SGX_SUCCESS", "SGX_ERROR_UNEXPECTED", "SGX_ERROR_OUT_OF_MEMORY"}

Faults ==
    /\ faults \in Nat
    /\ FailsOnlyOnFault

Staging ==
    pc = "stage" =>
        /\ chunk = [n \in 1..STREAM_CHUNK |-> chunk[n]]
        /\ \A n \in 1..STREAM_CHUNK : IsEntry(chunk[n])
        /\ \A n \in 1..i : HoldsRow(chunk[n], sent + n)

Sent == file = [n \in 1..sent |-> LineOf(n)]

Restored ==
    /\ pc \in {"marker", "alloc", "stage", "closed", "read", "done"}
    /\ pc \notin {"read", "done"} => pos = 0 /\ batch = <<>> /\ out = <<>> /\ rc = "none"
    /\ pc = "read" => rc = "running"
    /\ pc = "done" => rc \in {"0", "1"}
    /\ Len(out) \in Nat /\ Len(batch) \in Nat /\ pos \in 0..sent
    /\ Len(out) + Len(batch) = pos
    /\ out = [n \in 1..Len(out) |-> PlainLine(n)]
    /\ batch = [n \in 1..Len(batch) |-> Rebuilt(LineOf(Len(out) + n))]
    /\ pc # "done" => Len(batch) < BATCH
    /\ rc = "0" => batch = <<>> /\ pos = sent

IInv == Fixed /\ Counters /\ Faults /\ Staging /\ Sent /\ Restored

-----------------------------------------------------------------------------
(* The two directions of AES-CTR. *)

(* Encrypting an entry whose columns are in the clear, and which is not    *)
(* marked as encrypted, succeeds and puts one word on each column.         *)
LEMMA EncryptColumns ==
    ASSUME NEW e, IsEntry(e), e.is_encrypted = FALSE, NEW r, out_width \in Nat,
           \A c \in Columns : e.cells[c] = Plain(Value(r, c))
    PROVE  /\ aes_encrypt_entry(e, r).status = CRYPTO_SUCCESS
           /\ IsEntry(aes_encrypt_entry(e, r).entry)
           /\ HoldsRow(aes_encrypt_entry(e, r).entry, r)
<1> DEFINE cells == Keystream(e.cells, r)
           new == [is_encrypted |-> TRUE, nonce |-> r, cells |-> cells]
<1>1. cells = [c \in 0..out_width |-> Xor(e.cells[c], <<r, c>>)]
    BY DEF IsEntry, Keystream
<1>2. aes_encrypt_entry(e, r) = [status |-> CRYPTO_SUCCESS, entry |-> new]
    BY DEF aes_encrypt_entry
<1>3. ASSUME NEW c \in Columns PROVE cells[c] = Enciphered(r, c)
    <2>1. e.cells[c].val = Value(r, c) /\ e.cells[c].words = {}
        <3>1. e.cells[c] = [val |-> Value(r, c), words |-> {}]
            BY DEF Plain
        <3> QED
            BY <3>1
    <2>2. ({} \ {<<r, c>>}) \cup ({<<r, c>>} \ {}) = {<<r, c>>}
        OBVIOUS
    <2>3. cells[c] = Xor(e.cells[c], <<r, c>>)
        BY <1>1 DEF Columns
    <2> QED
        BY <2>1, <2>2, <2>3 DEF Xor, Enciphered
<1>4. cells = [c \in 0..out_width |-> cells[c]]
    BY <1>1
<1> HIDE DEF cells
<1>5. IsEntry(new)
    BY <1>4 DEF IsEntry
<1>6. HoldsRow(new, r)
    BY <1>3 DEF HoldsRow
<1> QED
    BY <1>2, <1>5, <1>6

(* Decrypting the entry made of row r's line removes that word again. *)
LEMMA DecryptColumns ==
    ASSUME NEW r, out_width \in Nat
    PROVE  [c \in Columns |-> aes_decrypt_entry(Rebuilt(LineOf(r))).entry.cells[c]] = PlainLine(r)
<1> DEFINE cells == [c \in 0..out_width |-> IF c \in Columns THEN Enciphered(r, c) ELSE Plain(0)]
<1>1. Rebuilt(LineOf(r)) = [is_encrypted |-> TRUE, nonce |-> r, cells |-> cells]
    BY DEF Rebuilt, LineOf
<1>2. aes_decrypt_entry(Rebuilt(LineOf(r))).entry.cells = Keystream(cells, r)
    BY <1>1 DEF aes_decrypt_entry
<1>3. ASSUME NEW c \in Columns PROVE Keystream(cells, r)[c] = Plain(Value(r, c))
    <2>1. c \in 0..out_width
        BY DEF Columns
    <2>2. Keystream(cells, r)[c] = Xor(Enciphered(r, c), <<r, c>>)
        BY <2>1 DEF Keystream
    <2> QED
        BY <2>2 DEF Xor, Enciphered, Plain
<1> QED
    BY <1>2, <1>3 DEF PlainLine

(* Staging resets what the previous chunk left in an entry. *)
LEMMA StagedEntry ==
    ASSUME NEW e, IsEntry(e), NEW r, out_width \in Nat
    PROVE  /\ IsEntry(Staged(e, r)) /\ Staged(e, r).is_encrypted = FALSE
           /\ \A c \in Columns : Staged(e, r).cells[c] = Plain(Value(r, c))
<1> DEFINE cells == StagedCells(e, r)
<1>1. cells = [c \in 0..out_width |-> IF c \in Columns THEN Plain(Value(r, c)) ELSE e.cells[c]]
    BY DEF IsEntry, StagedCells, Value
<1>2. \A c \in Columns : cells[c] = Plain(Value(r, c))
    BY <1>1 DEF Columns
<1>3. cells = [c \in 0..out_width |-> cells[c]]
    BY <1>1
<1> DEFINE new == [is_encrypted |-> FALSE, nonce |-> 0, cells |-> cells]
<1>4. Staged(e, r) = new
    BY DEF Staged
<1> HIDE DEF cells
<1>5. IsEntry(new)
    BY <1>3 DEF IsEntry
<1> QED
    BY <1>2, <1>4, <1>5

-----------------------------------------------------------------------------
(* Sequences given entry by entry, and their concatenation. *)

(* A sequence written entry by entry. *)
LEMMA FunctionIsSequence ==
    ASSUME NEW S, NEW m \in Nat, NEW s \in [1..m -> S]
    PROVE  s \in Seq(S) /\ Len(s) = m
<1>1. s \in Seq(S)
    OBVIOUS
<1> QED
    BY <1>1, LenProperties

(* The entries of a concatenation of two of them. *)
LEMMA Concatenation ==
    ASSUME NEW m \in Nat, NEW n \in Nat, NEW f, NEW s, NEW t,
           s = [x \in 1..m |-> f[x]], t = [x \in 1..n |-> f[m + x]]
    PROVE  /\ s \o t = [x \in 1..(m + n) |-> f[x]]
           /\ Len(s) = m /\ Len(t) = n /\ Len(s \o t) = m + n
<1> DEFINE S == {f[x] : x \in 1..(m + n)}
<1>1. s \in Seq(S) /\ t \in Seq(S) /\ Len(s) = m /\ Len(t) = n
    <2>1. s \in [1..m -> S] /\ t \in [1..n -> S]
        OBVIOUS
    <2> HIDE DEF S
    <2> QED
        BY <2>1, FunctionIsSequence
<1>2. /\ s \o t \in Seq(S) /\ Len(s \o t) = m + n
      /\ \A x \in 1..(m + n) : (s \o t)[x] = IF x <= m THEN s[x] ELSE t[x - m]
    BY <1>1, ConcatProperties
<1>3. \A x \in 1..(m + n) : (s \o t)[x] = f[x]
    BY <1>2
<1>4. DOMAIN (s \o t) = 1..(m + n) /\ s \o t = [x \in DOMAIN (s \o t) |-> (s \o t)[x]]
    BY <1>2
<1> QED
    BY <1>1, <1>2, <1>3, <1>4

(* The same for one more entry. *)
LEMMA Extension ==
    ASSUME NEW m \in Nat, NEW f, NEW s, s = [x \in 1..m |-> f[x]], NEW e, e = f[m + 1]
    PROVE  /\ Append(s, e) = [x \in 1..(m + 1) |-> f[x]]
           /\ Len(Append(s, e)) = m + 1
<1> DEFINE S == {f[x] : x \in 1..(m + 1)}
<1>1. s \in Seq(S) /\ Len(s) = m /\ e \in S
    <2>1. s \in [1..m -> S]
        OBVIOUS
    <2> QED
        BY <2>1, FunctionIsSequence
<1>2. /\ Append(s, e) \in Seq(S) /\ Len(Append(s, e)) = m + 1
      /\ \A x \in 1..m : Append(s, e)[x] = s[x]
      /\ Append(s, e)[m + 1] = e
    BY <1>1, AppendProperties
<1>3. \A x \in 1..(m + 1) : Append(s, e)[x] = f[x]
    BY <1>2
<1>4. DOMAIN Append(s, e) = 1..(m + 1)
      /\ Append(s, e) = [x \in DOMAIN Append(s, e) |-> Append(s, e)[x]]
    BY <1>2
<1> QED
    BY <1>2, <1>3, <1>4

-----------------------------------------------------------------------------
(* The invariant. *)

(* The invariant holds before the call. *)
LEMMA InitIInv == Init => IInv
<1> SUFFICES ASSUME Init PROVE IInv
    OBVIOUS
<1> USE DEF Init
<1>1. Fixed /\ Len(result) \in Nat
    BY SizesAssumption DEF Fixed
<1>2. Counters
    <2>1. 0 \in 0..Len(result) /\ sent = 0 * STREAM_CHUNK
        BY <1>1, ChunkAssumption
    <2> QED
        BY <1>1, <2>1, ChunkAssumption DEF Counters
<1>3. Faults /\ Staging
    BY DEF Faults, FailsOnlyOnFault, Staging
<1>4. Sent
    BY DEF Sent
<1>5. Restored
    BY ChunkAssumption DEF Restored
<1> QED
    BY <1>1, <1>2, <1>3, <1>4, <1>5 DEF IInv

(* What the invariant says of the constants of a behaviour. *)
LEMMA Widths ==
    ASSUME IInv
    PROVE  Len(result) \in Nat /\ out_width \in Nat /\ Columns = 1..out_width
BY SizesAssumption DEF IInv, Fixed, out_width, Columns

(* Query and result stay what they are, and so do the lines they make.     *)
LEMMA Unchanging ==
    ASSUME [Next]_vars
    PROVE  /\ UNCHANGED <<result, out_cols>>
           /\ out_width' = out_width /\ Columns' = Columns
           /\ \A r : LineOf(r)' = LineOf(r) /\ PlainLine(r)' = PlainLine(r)
                     /\ Rebuilt(LineOf(r))' = Rebuilt(LineOf(r))
           /\ \A e, r : HoldsRow(e, r)' = HoldsRow(e, r)
           /\ \A e : IsEntry(e)' = IsEntry(e)
<1>1. UNCHANGED <<result, out_cols>>
    BY DEF Next, vars, SendMarker, AllocChunk, ChunkOutOfMemory, Stage, EncryptFault, SendChunk,
        EndStream, Open, Read, Drain, Ended
<1> QED
    BY <1>1 DEF out_width, Columns, LineOf, PlainLine, Rebuilt, HoldsRow, IsEntry, Enciphered, Value

(* What a row that is staged becomes. *)
LEMMA StagedRow ==
    ASSUME IInv, CanStage
    PROVE  LET enc == aes_encrypt_entry(Staged(chunk[i + 1], sent + i + 1), get_next_nonce)
           IN  /\ enc.status = CRYPTO_SUCCESS
               /\ IsEntry(enc.entry)
               /\ HoldsRow(enc.entry, sent + i + 1)
<1>1. /\ i + 1 \in 1..STREAM_CHUNK /\ IsEntry(chunk[i + 1])
      /\ get_next_nonce = sent + i + 1
    BY ChunkAssumption DEF IInv, CanStage, Counters, Staging, get_next_nonce
<1> DEFINE st == Staged(chunk[i + 1], sent + i + 1)
<1>2. /\ IsEntry(st) /\ st.is_encrypted = FALSE /\ out_width \in Nat
      /\ \A c \in Columns : st.cells[c] = Plain(Value(sent + i + 1, c))
    BY <1>1, Widths, StagedEntry
<1> HIDE DEF st
<1>3. /\ aes_encrypt_entry(st, sent + i + 1).status = CRYPTO_SUCCESS
      /\ IsEntry(aes_encrypt_entry(st, sent + i + 1).entry)
      /\ HoldsRow(aes_encrypt_entry(st, sent + i + 1).entry, sent + i + 1)
    BY <1>2, EncryptColumns
<1> QED
    BY <1>1, <1>3 DEF st

(* Encryption is never refused: Stage puts the next row into the chunk. *)
LEMMA StageSucceeds ==
    ASSUME IInv, Stage
    PROVE  /\ CanStage /\ i' = i + 1 /\ g_nonce_counter' = g_nonce_counter + 1
           /\ UNCHANGED <<result, out_cols, pc, sent, ecall_ret, host, tool, faults>>
           /\ \E e : /\ IsEntry(e) /\ HoldsRow(e, sent + i + 1)
                     /\ chunk' = [chunk EXCEPT ![i + 1] = e]
<1> DEFINE enc == aes_encrypt_entry(Staged(chunk[i + 1], sent + i + 1), get_next_nonce)
<1>1. CanStage
    BY DEF Stage
<1>2. enc.status = CRYPTO_SUCCESS /\ IsEntry(enc.entry) /\ HoldsRow(enc.entry, sent + i + 1)
    BY <1>1, StagedRow
<1>3. /\ chunk' = [chunk EXCEPT ![i + 1] = enc.entry]
      /\ i' = i + 1 /\ g_nonce_counter' = g_nonce_counter + 1
      /\ UNCHANGED <<pc, ecall_ret>> /\ UNCHANGED <<result, out_cols, sent, host, tool, faults>>
    BY <1>2 DEF Stage
<1> QED
    BY <1>1, <1>2, <1>3

(* A whole chunk, or the rest of the result, leaves the enclave at once.   *)
LEMMA SendChunkCounts ==
    ASSUME IInv, SendChunk
    PROVE  \/ sent' = Len(result)
           \/ \E m \in 0..Len(result) : sent' = m * STREAM_CHUNK
<1>1. /\ i \in 0..STREAM_CHUNK /\ sent \in Nat /\ sent + i <= Len(result) /\ i > 0
      /\ sent' = sent + i /\ (i = STREAM_CHUNK \/ sent + i = Len(result))
    BY ChunkAssumption DEF IInv, Counters, SendChunk, CanStage
<1>2. CASE sent + i = Len(result)
    BY <1>1, <1>2
<1>3. CASE i = STREAM_CHUNK /\ sent + i # Len(result)
    <2>1. PICK m \in 0..Len(result) : sent = m * STREAM_CHUNK
        BY <1>1, Widths DEF IInv, Counters
    <2>2. sent' = (m + 1) * STREAM_CHUNK
        BY <1>1, <1>3, <2>1, ChunkAssumption
    <2>3. m * STREAM_CHUNK >= m
        BY <2>1, ChunkAssumption
    <2>4. m + 1 \in 0..Len(result)
        BY <1>1, <2>1, <2>3, Widths, ChunkAssumption
    <2> QED
        BY <2>2, <2>4
<1> QED
    BY <1>1, <1>2, <1>3

(* Every step keeps where the chunk, the file and the counters are. *)
LEMMA CountersStep == IInv /\ [Next]_vars => Counters'
<1> SUFFICES ASSUME IInv, [Next]_vars PROVE Counters'
    OBVIOUS
<1> USE Widths, Unchanging, ChunkAssumption DEF Counters
<1>0. Counters /\ Restored
    BY DEF IInv
<1>1. CASE SendMarker
    BY <1>0, <1>1 DEF SendMarker, enclave
<1>2. CASE AllocChunk
    BY <1>0, <1>2 DEF AllocChunk, host
<1>3. CASE ChunkOutOfMemory
    BY <1>0, <1>3 DEF ChunkOutOfMemory, Return, host
<1>4. CASE Stage
    BY <1>0, <1>4, StageSucceeds DEF CanStage, host
<1>5. CASE EncryptFault
    BY <1>0, <1>5 DEF EncryptFault, Return, CanStage, host
<1>6. CASE SendChunk
    BY <1>0, <1>6, SendChunkCounts DEF SendChunk
<1>7. CASE EndStream
    BY <1>0, <1>7 DEF EndStream, Return, host
<1>8. CASE UNCHANGED <<enclave, host>> /\ pc \in {"closed", "read", "done"}
           /\ pc' \in {"closed", "read", "done"}
    BY <1>0, <1>8 DEF enclave, host
<1>9. CASE UNCHANGED vars
    BY <1>0, <1>9 DEF vars, enclave, host
<1> QED
    BY <1>1, <1>2, <1>3, <1>4, <1>5, <1>6, <1>7, <1>8, <1>9
        DEF Next, Open, Read, Drain, FlushFails, Ended

(* Every step keeps the history of faults in line with the call's status. *)
LEMMA FaultsStep == IInv /\ [Next]_vars => Faults'
<1> SUFFICES ASSUME IInv, [Next]_vars PROVE Faults'
    OBVIOUS
<1> USE DEF Faults, FailsOnlyOnFault
<1>0. Faults /\ Counters
    BY DEF IInv
<1>1. CASE ChunkOutOfMemory \/ EncryptFault
    BY <1>0, <1>1 DEF ChunkOutOfMemory, EncryptFault, Return
<1>2. CASE Stage
    BY <1>0, <1>2, StageSucceeds
<1>3. CASE EndStream
    BY <1>0, <1>3 DEF EndStream, Return
<1>4. CASE UNCHANGED ecall_ret /\ (faults' = faults \/ faults' = faults + 1)
    BY <1>0, <1>4
<1> QED
    BY <1>1, <1>2, <1>3, <1>4
        DEF Next, vars, enclave, SendMarker, AllocChunk, SendChunk, Open, Read, Drain, FlushFails, Ended

(* Every step keeps what the chunk holds: rows of the result, each enciphered
   under the counter it was staged at. *)
LEMMA StagingStep == IInv /\ [Next]_vars => Staging'
<1> SUFFICES ASSUME IInv, [Next]_vars, pc' = "stage" PROVE Staging'
    BY DEF Staging
<1> USE Widths, Unchanging, ChunkAssumption
<1>0. Counters /\ Staging
    BY DEF IInv
<1>1. CASE AllocChunk
    <2>1. IsEntry(ZeroEntry)
        BY DEF IsEntry, ZeroEntry
    <2>2. chunk' = [n \in 1..STREAM_CHUNK |-> ZeroEntry] /\ i' = 0
        BY <1>0, <1>1 DEF AllocChunk, Counters
    <2> HIDE DEF ZeroEntry
    <2> QED
        BY <2>1, <2>2 DEF Staging
<1>2. CASE Stage
    <2>1. PICK e : /\ IsEntry(e) /\ HoldsRow(e, sent + i + 1)
                   /\ chunk' = [chunk EXCEPT ![i + 1] = e]
        BY <1>2, StageSucceeds
    <2>2. CanStage /\ i' = i + 1 /\ sent' = sent
        BY <1>2, StageSucceeds
    <2>3. i + 1 \in 1..STREAM_CHUNK /\ sent \in Nat /\ i \in Nat
        BY <1>0, <2>2 DEF Counters, CanStage
    <2>4. chunk' = [n \in 1..STREAM_CHUNK |-> IF n = i + 1 THEN e ELSE chunk[n]]
        BY <1>0, <2>1, <2>2, <2>3 DEF Staging, CanStage
    <2>5. \A n \in 1..STREAM_CHUNK : IsEntry(chunk'[n])
        BY <1>0, <2>1, <2>2, <2>4 DEF Staging, CanStage
    <2>6. \A n \in 1..(i + 1) : HoldsRow(chunk'[n], sent + n)
        BY <1>0, <2>1, <2>2, <2>3, <2>4 DEF Staging, CanStage
    <2>7. chunk' = [n \in 1..STREAM_CHUNK |-> chunk'[n]]
        BY <2>4
    <2> HIDE Widths, ChunkAssumption
    <2>8. \A n \in 1..STREAM_CHUNK : IsEntry(chunk[n])'
        BY <2>5 DEF IsEntry, out_width
    <2>9. \A n \in 1..i' : HoldsRow(chunk[n], sent + n)'
        BY <2>2, <2>6 DEF HoldsRow, Enciphered, Value, Columns, out_width
    <2> QED
        BY <2>7, <2>8, <2>9 DEF Staging
<1>3. CASE SendChunk
    <2>1. pc = "stage" /\ chunk' = chunk /\ i' = 0
        BY <1>3 DEF SendChunk
    <2> QED
        BY <1>0, <2>1 DEF Staging
<1>4. CASE UNCHANGED <<pc, enclave>>
    BY <1>0, <1>4 DEF Staging, enclave
<1> QED
    BY <1>1, <1>2, <1>3, <1>4
        DEF Next, vars, SendMarker, ChunkOutOfMemory, EncryptFault, EndStream, Return, Open, Read, Drain,
            FlushFails, Ended

(* Every step keeps what has left: the rows of the result, in order. *)
LEMMA SentStep == IInv /\ [Next]_vars => Sent'
<1> SUFFICES ASSUME IInv, [Next]_vars PROVE Sent'
    OBVIOUS
<1>0. Counters /\ Sent /\ Staging /\ Columns = 1..out_width
    BY Widths DEF IInv
<1>1. CASE SendChunk
    <2>1. /\ pc = "stage" /\ sent \in Nat /\ i \in Nat /\ g_width = out_width /\ sent' = sent + i
          /\ file' = file \o [n \in 1..i |-> Line(chunk[n])]
        BY <1>0, <1>1 DEF SendChunk, SendCount, Counters
    <2>2. ASSUME NEW n \in 1..i PROVE Line(chunk[n]) = LineOf(sent + n)
        <3>1. HoldsRow(chunk[n], sent + n)
            BY <1>0, <2>1 DEF Staging
        <3> QED
            BY <1>0, <2>1, <3>1 DEF Line, LineOf, HoldsRow
    <2> DEFINE f == [r \in Nat |-> LineOf(r)]
               next == [n \in 1..i |-> Line(chunk[n])]
    <2>6. \A r \in Nat : f[r] = LineOf(r)
        OBVIOUS
    <2> HIDE DEF f
    <2>3. file = [r \in 1..sent |-> f[r]] /\ next = [n \in 1..i |-> f[sent + n]]
        BY <1>0, <2>1, <2>2, <2>6 DEF Sent
    <2> HIDE DEF next
    <2>4. file \o next = [r \in 1..(sent + i) |-> f[r]]
        BY <2>1, <2>3, Concatenation
    <2>5. file' = [r \in 1..sent' |-> LineOf(r)]
        <3>1. file' = file \o next /\ sent' = sent + i
            BY <2>1 DEF next
        <3>2. \A r \in 1..(sent + i) : f[r] = LineOf(r)
            BY <2>1, <2>6
        <3>3. [r \in 1..(sent + i) |-> f[r]] = [r \in 1..(sent + i) |-> LineOf(r)]
            BY <3>2
        <3> QED
            BY <2>4, <3>1, <3>3
    <2> QED
        BY <2>5, Unchanging DEF Sent
<1>2. CASE UNCHANGED <<file, sent>>
    BY <1>0, <1>2, Unchanging DEF Sent
<1> QED
    BY <1>1, <1>2 DEF Next, vars, enclave, host, SendMarker, AllocChunk, ChunkOutOfMemory, Stage, Return,
        EncryptFault, EndStream, Open, Read, Drain, Ended

(* What the batch makes of the file when it is flushed. *)
LEMMA FlushedBatch ==
    ASSUME IInv, NEW b, NEW m \in Nat,
           b = [n \in 1..m |-> Rebuilt(LineOf(Len(out) + n))]
    PROVE  LET o == out \o Decrypted(b)
           IN  /\ Len(o) = Len(out) + m
               /\ o = [n \in 1..(Len(out) + m) |-> PlainLine(n)]
<1> DEFINE f == [r \in Nat |-> PlainLine(r)]
           d == Decrypted(b)
<1>1. Len(out) \in Nat /\ out = [n \in 1..Len(out) |-> PlainLine(n)]
    BY DEF IInv, Restored
<1>2. DOMAIN b = 1..m /\ \A n \in 1..m : b[n] = Rebuilt(LineOf(Len(out) + n))
    OBVIOUS
<1>3. d = [n \in 1..m |-> PlainLine(Len(out) + n)]
    BY <1>2, Widths, DecryptColumns DEF Decrypted
<1>6. \A r \in Nat : f[r] = PlainLine(r)
    OBVIOUS
<1> HIDE DEF f, d
<1>4. out = [n \in 1..Len(out) |-> f[n]] /\ d = [n \in 1..m |-> f[Len(out) + n]]
    BY <1>1, <1>3, <1>6
<1>5. out \o d = [n \in 1..(Len(out) + m) |-> f[n]] /\ Len(out \o d) = Len(out) + m
    BY <1>1, <1>4, Concatenation
<1> QED
    <2>1. \A n \in 1..(Len(out) + m) : f[n] = PlainLine(n)
        BY <1>1, <1>6
    <2>2. [n \in 1..(Len(out) + m) |-> f[n]] = [n \in 1..(Len(out) + m) |-> PlainLine(n)]
        BY <2>1
    <2> QED
        BY <1>5, <2>2 DEF d

(* Every step of the decryptor keeps what it has restored and holds. *)
LEMMA RestoredStep == IInv /\ [Next]_vars => Restored'
<1> SUFFICES ASSUME IInv, [Next]_vars PROVE Restored'
    OBVIOUS
<1> USE ChunkAssumption, Unchanging
<1>0. Counters /\ Sent /\ Restored
    BY DEF IInv
<1>1. CASE Read
    <2> DEFINE pending == Append(batch, Rebuilt(file[pos + 1]))
               lo == Len(out)
               m  == Len(batch)
               f  == [n \in Nat |-> Rebuilt(LineOf(Len(out) + n))]
    <2>1. /\ pc = "read" /\ rc = "running" /\ pos \in Nat /\ lo \in Nat /\ m \in Nat /\ m < BATCH
          /\ lo + m = pos /\ pos < sent /\ sent \in Nat /\ pos' = pos + 1 /\ sent' = sent
          /\ Len(file) = sent
        <3>1. Len(file) = sent
            <4>1. file \in [1..sent -> {LineOf(r) : r \in 1..sent}] /\ sent \in Nat
                BY <1>0 DEF Sent, Counters
            <4> QED
                BY <4>1, FunctionIsSequence
        <3> QED
            BY <1>0, <1>1, <3>1 DEF Read, enclave, Counters, Restored
    <2>2. Rebuilt(file[pos + 1]) = Rebuilt(LineOf(lo + (m + 1)))
        <3>1. file[pos + 1] = LineOf(pos + 1) /\ pos + 1 = lo + (m + 1)
            BY <1>0, <2>1 DEF Sent
        <3> QED
            BY <3>1
    <2>10. \A n \in Nat : f[n] = Rebuilt(LineOf(lo + n))
        OBVIOUS
    <2> HIDE DEF f
    <2>3. batch = [n \in 1..m |-> f[n]] /\ Rebuilt(file[pos + 1]) = f[m + 1]
        <3>1. batch = [n \in 1..m |-> Rebuilt(LineOf(lo + n))]
            BY <1>0 DEF Restored
        <3>2. \A n \in 1..(m + 1) : f[n] = Rebuilt(LineOf(lo + n))
            BY <2>1, <2>10
        <3> HIDE DEF m, lo
        <3>3. [n \in 1..m |-> Rebuilt(LineOf(lo + n))] = [n \in 1..m |-> f[n]]
            BY <2>1, <3>2
        <3> QED
            BY <2>1, <2>2, <3>1, <3>2, <3>3
    <2>4. pending = [n \in 1..(m + 1) |-> f[n]] /\ Len(pending) = m + 1
        BY <2>1, <2>3, Extension
    <2>5. pending = [n \in 1..(m + 1) |-> Rebuilt(LineOf(lo + n))]
        <3>1. \A n \in 1..(m + 1) : f[n] = Rebuilt(LineOf(lo + n))
            BY <2>1, <2>10
        <3> HIDE DEF m, lo, pending
        <3>2. [n \in 1..(m + 1) |-> Rebuilt(LineOf(lo + n))] = [n \in 1..(m + 1) |-> f[n]]
            BY <3>1
        <3> QED
            BY <2>4, <3>2
    <2> HIDE DEF pending
    <2>6. /\ Len(out \o Decrypted(pending)) = lo + (m + 1)
          /\ out \o Decrypted(pending) = [n \in 1..(lo + (m + 1)) |-> PlainLine(n)]
        <3>1. m + 1 \in Nat
            BY <2>1
        <3> HIDE DEF m
        <3> QED
            BY <2>5, <3>1, FlushedBatch
    <2>7. CASE /\ Len(pending) < BATCH /\ batch' = pending /\ UNCHANGED <<pc, out, rc, faults>>
        BY <1>0, <2>1, <2>4, <2>5, <2>7 DEF Restored
    <2>8. CASE /\ Len(pending) = BATCH /\ out' = out \o Decrypted(pending) /\ batch' = <<>>
               /\ UNCHANGED <<pc, rc, faults>>
        <3> HIDE DEF lo, m
        <3>1. /\ Len(out') = pos + 1 /\ out' = [n \in 1..Len(out') |-> PlainLine(n)]
              /\ batch' = <<>> /\ Len(batch') = 0 /\ pc' = "read" /\ rc' = "running"
              /\ pos + 1 \in 0..sent
            BY <2>1, <2>6, <2>8
        <3>2. batch' = [n \in 1..Len(batch') |-> Rebuilt(LineOf(Len(out') + n))]
            BY <3>1
        <3> QED
            BY <2>1, <3>1, <3>2 DEF Restored
    <2>9. CASE Len(pending) = BATCH /\ batch' = pending /\ FlushFails
        BY <1>0, <2>1, <2>4, <2>5, <2>9 DEF Restored, FlushFails
    <2> QED
        BY <1>1, <2>7, <2>8, <2>9 DEF Read, pending, FlushLeaves
<1>2. CASE Drain
    <2> DEFINE m == Len(batch)
    <2>1. /\ pc = "read" /\ rc = "running" /\ pos \in Nat /\ Len(out) \in Nat /\ m \in Nat
          /\ Len(out) + m = pos /\ sent \in Nat /\ pos' = pos /\ sent' = sent /\ pos = Len(file)
          /\ pos \in 0..sent
        BY <1>0, <1>2 DEF Drain, enclave, Counters, Restored
    <2>2. batch = [n \in 1..m |-> Rebuilt(LineOf(Len(out) + n))]
        BY <1>0 DEF Restored
    <2>3. pos = sent
        <3>1. file \in [1..sent -> {LineOf(r) : r \in 1..sent}]
            BY <1>0 DEF Sent
        <3> QED
            BY <2>1, <3>1, FunctionIsSequence
    <2>4. CASE out' = out \o Decrypted(batch) /\ batch' = <<>> /\ rc' = "0" /\ pc' = "done"
        <3>1. /\ Len(out') = pos
              /\ out' = [n \in 1..Len(out') |-> PlainLine(n)]
            BY <2>1, <2>2, <2>4, FlushedBatch
        <3>2. Len(batch') = 0 /\ batch' = [n \in 1..Len(batch') |-> Rebuilt(LineOf(Len(out') + n))]
            BY <2>4
        <3> QED
            BY <2>1, <2>3, <2>4, <3>1, <3>2 DEF Restored
    <2>5. CASE FlushFails /\ UNCHANGED batch
        BY <1>0, <2>1, <2>2, <2>5 DEF Restored, FlushFails
    <2> QED
        BY <1>2, <2>4, <2>5 DEF Drain, FlushLeaves
<1>3. CASE UNCHANGED <<tool, sent>> /\ pc \notin {"read", "done"} /\ pc' \in {"alloc", "stage", "closed"}
    BY <1>0, <1>3 DEF Restored, tool
<1>4. CASE SendChunk
    BY <1>0, <1>4 DEF Restored, SendChunk, tool, Counters
<1>5. CASE Open
    BY <1>0, <1>5 DEF Restored, Open, enclave
<1>6. CASE UNCHANGED vars
    BY <1>0, <1>6 DEF Restored, vars, tool, enclave
<1> QED
    BY <1>1, <1>2, <1>3, <1>4, <1>5, <1>6, StageSucceeds
        DEF Next, enclave, SendMarker, AllocChunk, ChunkOutOfMemory, Return, EncryptFault, EndStream, CanStage,
            Ended

(* The invariant holds in every reachable state. *)
LEMMA Invariance == Spec => []IInv
<1>1. IInv /\ [Next]_vars => IInv'
    <2> SUFFICES ASSUME IInv, [Next]_vars PROVE IInv'
        OBVIOUS
    <2>1. Fixed'
        BY Unchanging DEF IInv, Fixed
    <2> QED
        BY <2>1, CountersStep, FaultsStep, StagingStep, SentStep, RestoredStep DEF IInv
<1> QED
    BY InitIInv, <1>1, PTL DEF Spec

-----------------------------------------------------------------------------
(* The properties. *)

(* The lines of the file, as the properties look at them. *)
LEMMA FileLines ==
    ASSUME IInv
    PROVE  /\ sent \in Nat /\ Len(file) = sent /\ DOMAIN file = 1..sent
           /\ \A n \in 1..sent :
                 /\ file[n].nonce = n /\ DOMAIN file[n].cells = Columns
                 /\ \A c \in Columns : file[n].cells[c].val = Value(n, c)
                                      /\ file[n].cells[c].words = {<<n, c>>}
<1>1. sent \in Nat /\ file = [n \in 1..sent |-> LineOf(n)]
    BY DEF IInv, Counters, Sent
<1>2. file \in [1..sent -> {LineOf(n) : n \in 1..sent}]
    BY <1>1
<1>3. Len(file) = sent
    BY <1>1, <1>2, FunctionIsSequence
<1>4. \A r, c : Enciphered(r, c).val = Value(r, c) /\ Enciphered(r, c).words = {<<r, c>>}
    BY DEF Enciphered
<1>5. ASSUME NEW n \in 1..sent
      PROVE  /\ file[n].nonce = n /\ DOMAIN file[n].cells = Columns
             /\ \A c \in Columns : file[n].cells[c] = Enciphered(n, c)
    BY <1>1 DEF LineOf
<1> QED
    BY <1>1, <1>3, <1>4, <1>5

(* A multiple leaves no remainder. *)
LEMMA MultipleModulo == ASSUME NEW m \in Nat, NEW d \in Nat \ {0} PROVE (m * d) % d = 0
OBVIOUS

(* The variables have their types in every reachable state.                *)
THEOREM TypeCorrect == Spec => []TypeOK
<1>1. IInv => TypeOK
    BY DEF IInv, Counters, Staging, Restored, TypeOK
<1> QED
    BY Invariance, <1>1, PTL

(* Every row in the host's hands is under the key stream of its own line.  *)
THEOREM Ciphertext == Spec => []OnlyCiphertextLeaves
<1>1. IInv => OnlyCiphertextLeaves
    BY FileLines DEF OnlyCiphertextLeaves
<1> QED
    BY Invariance, <1>1, PTL

(* No part of the key stream is used for two rows.                         *)
THEOREM FreshNonces == Spec => []NoncesAreFresh
<1>1. IInv => NoncesAreFresh
    BY FileLines DEF NoncesAreFresh
<1> QED
    BY Invariance, <1>1, PTL

(* The host holds the beginning of the result, in order, cut at the end of *)
(* a chunk, and all of it when the call has returned success.              *)
THEOREM PrefixInOrder == Spec => []FileIsResultPrefix
<1>1. ASSUME IInv PROVE FileIsResultPrefix
    <2>1. sent % STREAM_CHUNK = 0 \/ sent = Len(result)
        <3>1. CASE sent # Len(result)
            <4>1. PICK m \in 0..Len(result) : sent = m * STREAM_CHUNK
                BY <1>1, <3>1 DEF IInv, Counters
            <4> QED
                BY <1>1, <4>1, Widths, MultipleModulo, ChunkAssumption
        <3> QED
            BY <3>1
    <2>2. ASSUME NEW n \in DOMAIN file
          PROVE  [c \in DOMAIN file[n].cells |-> file[n].cells[c].val] = Projected(n)
        <3>1. /\ DOMAIN file[n].cells = Columns
              /\ \A c \in Columns : file[n].cells[c].val = Value(n, c)
            BY <1>1, FileLines
        <3> QED
            BY <3>1 DEF Projected, Value
    <2> QED
        BY <1>1, <2>1, <2>2, FileLines DEF FileIsResultPrefix, IInv, Counters
<1> QED
    BY Invariance, <1>1, PTL

(* The call fails only when the crypto library or malloc does.             *)
THEOREM NoRefusal == Spec => []FailsOnlyOnFault
<1>1. IInv => FailsOnlyOnFault
    BY DEF IInv, Faults
<1> QED
    BY Invariance, <1>1, PTL

(* The decryptor writes the first rows of the file in the clear and in     *)
(* order, and all of them if its exit code is 0.                           *)
THEOREM Restoration == Spec => []DecryptorRestoresFile
<1>1. ASSUME IInv PROVE DecryptorRestoresFile
    <2>1. Restored
        BY <1>1 DEF IInv
    <2>2. DOMAIN out = 1..Len(out)
        BY <2>1 DEF Restored
    <2>3. ASSUME NEW n \in DOMAIN out PROVE out[n] = [c \in Columns |-> Plain(Projected(n)[c])]
        <3>1. out[n] = PlainLine(n)
            BY <2>1, <2>2 DEF Restored
        <3>2. \A c \in Columns : Projected(n)[c] = Value(n, c)
            BY DEF Projected, Value
        <3> QED
            BY <3>1, <3>2 DEF PlainLine
    <2>4. rc = "0" => Len(batch) = 0
        BY <2>1 DEF Restored
    <2> QED
        BY <1>1, <2>1, <2>3, <2>4, FileLines DEF Restored, DecryptorRestoresFile
<1> QED
    BY Invariance, <1>1, PTL

=============================================================================
