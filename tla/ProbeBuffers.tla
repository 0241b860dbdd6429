---------------------------- MODULE ProbeBuffers ----------------------------
(***************************************************************************)
(* How the bytes that a call moved are cut into records (socket.bpf.c,     *)
(* submit_buffer and the end of process_data) and how a TLS hello is       *)
(* captured from them (protocol.bpf.c, buffers.bpf.h).                     *)
(*                                                                         *)
(* A call has one buffer, or a vector of pieces.  A byte is named by its   *)
(* piece and its place in it; the memory after the end of a piece is not   *)
(* the call's.  One action is one turn of a loop.                          *)
(***************************************************************************)
EXTENDS Naturals, Sequences, Functions, Bitwise

CONSTANTS
    MAX_MSG_SIZE,
    CHUNK_LIMIT,     \* records per piece
    LOOP_LIMIT,      \* pieces per call
    Inputs           \* [lens: the pieces, one: a plain buffer, bytes: the result of the
                     \*  call, hello: the size of a TLS hello at its start, or 0]

MINIMUM_TLS_HANDSHAKE_SIZE == 52

\* The bytes of a call are the first ones of its pieces in order.
Total(lens) == FoldFunction(+, 0, lens)

Cut(a, b) == IF a < b THEN a ELSE b

ASSUME BuffersAssumption ==
    /\ MAX_MSG_SIZE \in Nat \ {0} /\ CHUNK_LIMIT \in Nat \ {0} /\ LOOP_LIMIT \in Nat \ {0}
    /\ \A call \in Inputs :
         /\ call.one => Len(call.lens) = 1
         /\ call.bytes \in 1 .. Total(call.lens)
         /\ call.hello \in 0 .. 65540
         /\ call.hello # 0 /\ ~call.one => call.lens[1] >= 6    \* the hello's header is in one piece

VARIABLES
    in,         \* the call
    phase,      \* "hello", "iovec", "chunk" or "done"
    captured,   \* of the hello that was captured: its size, and the bytes that are the call's
    i,          \* the piece
    bytes_sent, \* of all pieces
    iov_size,   \* of this piece
    chunk,      \* the turn of submit_buffer
    sent,       \* bytes_sent of submit_buffer
    out         \* the records: [piece, from, size]

bufVars == <<in, phase, captured, i, bytes_sent, iov_size, chunk, sent, out>>

Nothing == [size |-> 0, own |-> 0]

BufInit ==
    /\ in \in Inputs
    /\ phase = "hello"
    /\ captured = Nothing
    /\ i = 0
    /\ bytes_sent = 0
    /\ iov_size = 0
    /\ chunk = 0
    /\ sent = 0
    /\ out = <<>>

\* Mutant: the mask is the size itself.
CaptureSizeMask(hello, bytes) ==
    IF hello = 0 \/ bytes < MINIMUM_TLS_HANDSHAKE_SIZE \/ hello > bytes \/ hello > MAX_MSG_SIZE
      THEN 0 ELSE hello & MAX_MSG_SIZE

\* capture_tls_client_hello, capture_tls_server_hello: the size that is read, 0
\* when nothing is captured.
CaptureSize(hello, bytes) ==
    IF hello = 0 \/ bytes < MINIMUM_TLS_HANDSHAKE_SIZE \/ hello > bytes \/ hello > MAX_MSG_SIZE
      THEN 0 ELSE hello & (MAX_MSG_SIZE - 1)

\* buf_read at offset 0 reads everything from the first piece on, whatever its length;
\* what lies after its end may not be readable, and then nothing is read.
buf_read(size) ==
    {[size |-> size, own |-> Cut(size, in.lens[1])]}
      \cup (IF size > in.lens[1] THEN {Nothing} ELSE {})

CaptureHello ==
    /\ phase = "hello"
    /\ captured' \in buf_read(CaptureSize(in.hello, in.bytes))
    /\ phase' = "iovec"
    /\ UNCHANGED <<in, i, bytes_sent, iov_size, chunk, sent, out>>

\* The loop over the pieces in process_data; a plain buffer is one piece of all
\* the bytes.
NextPiece ==
    /\ phase = "iovec"
    /\ IF (in.one /\ i = 0) \/ (~in.one /\ i < LOOP_LIMIT /\ i < Len(in.lens) /\ bytes_sent < in.bytes)
         THEN /\ iov_size' = IF in.one THEN in.bytes ELSE Cut(in.lens[i + 1], in.bytes - bytes_sent)
              /\ phase' = "chunk"
         ELSE phase' = "done" /\ UNCHANGED iov_size
    /\ chunk' = 0
    /\ sent' = 0
    /\ UNCHANGED <<in, captured, i, bytes_sent, out>>

\* Mutant: the last turn takes what remains one turn too early.
CurrentSizeEarly(remaining, turn) ==
    IF remaining > MAX_MSG_SIZE /\ turn + 1 < CHUNK_LIMIT - 1 THEN MAX_MSG_SIZE ELSE remaining

CurrentSize(remaining, turn) ==
    IF remaining > MAX_MSG_SIZE /\ turn # CHUNK_LIMIT - 1 THEN MAX_MSG_SIZE ELSE remaining

\* submit_buffer_chunk
AmountCopied(size) == IF size < MAX_MSG_SIZE THEN size ELSE MAX_MSG_SIZE

Advance(size) == sent + size

\* A turn of submit_buffer's loop.
SubmitChunk ==
    LET current == CurrentSize(iov_size - sent, chunk)
        copied == AmountCopied(current)
    IN  /\ phase = "chunk"
        /\ out' = IF copied > 0 THEN Append(out, [piece |-> i, from |-> sent, size |-> copied])
                                ELSE out
        /\ sent' = Advance(current)
        /\ chunk' = chunk + 1
        /\ IF sent' = iov_size \/ chunk' = CHUNK_LIMIT
             THEN /\ phase' = "iovec"
                  /\ i' = i + 1
                  /\ bytes_sent' = bytes_sent + iov_size
             ELSE UNCHANGED <<phase, i, bytes_sent>>
        /\ UNCHANGED <<in, captured, iov_size>>

BufNext == CaptureHello \/ NextPiece \/ SubmitChunk

BufSpec == BufInit /\ [][BufNext]_bufVars

-----------------------------------------------------------------------------
\* The bytes of piece p that the call moved.
Moved(p) ==
    LET before == Total([q \in 1 .. p |-> in.lens[q]])
    IN  IF in.one THEN in.bytes
        ELSE IF in.bytes <= before THEN 0 ELSE Cut(in.lens[p + 1], in.bytes - before)

\* The records of a piece follow each other from its start without a gap or an
\* overlap, hold only bytes that the call moved, and the pieces are in order.
\* Nothing is lost below the limits: "effectively makes the maximum message size
\* to be CHUNK_LIMIT*MAX_MSG_SIZE".
RecordsCover ==
    /\ \A k \in DOMAIN out :
         /\ out[k].from + out[k].size <= Moved(out[k].piece)
         /\ IF k > 1 /\ out[k - 1].piece = out[k].piece
              THEN out[k].from = out[k - 1].from + out[k - 1].size
              ELSE out[k].from = 0 /\ (k > 1 => out[k - 1].piece < out[k].piece)
    /\ /\ phase = "done"
       /\ Len(in.lens) <= LOOP_LIMIT
       /\ \A p \in 0 .. Len(in.lens) - 1 : Moved(p) <= CHUNK_LIMIT * MAX_MSG_SIZE
       => Total([k \in DOMAIN out |-> out[k].size]) = in.bytes

\* A TLS hello that the call holds whole, in its first piece, is captured whole ("Read
\* the entire handshake into our buffer") if it is shorter than 2048 bytes; what the mask
\* leaves of a longer one is never more than the call moved, and bytes that are not the
\* call's come only with a hello that the first piece does not hold.
HelloWhole ==
    phase # "hello" =>
      /\ captured.size <= in.bytes
      /\ captured.own < captured.size => ~in.one /\ in.lens[1] < in.hello
      /\ /\ in.hello < 2048 /\ in.hello <= Cut(in.bytes, in.lens[1])
         /\ in.bytes >= MINIMUM_TLS_HANDSHAKE_SIZE
         => captured = [size |-> in.hello, own |-> in.hello]
=============================================================================
