---------------------------- MODULE LinkedBuffer ----------------------------
(***************************************************************************)
(* synq.LinkedBuffer: a body as a list of slices and a length, to which a  *)
(* Write appends and from whose front it drains what goes beyond the size  *)
(* of the buffer (pkg/synq/linked_buffer.go).                              *)
(***************************************************************************)
LOCAL INSTANCE Integers
LOCAL INSTANCE Sequences

CONSTANT bufferSize
ASSUME BufferAssumption == bufferSize \in Nat

NewLinkedBuffer == [slices |-> <<>>, length |-> 0]

AppendSlice(b, data) ==
    IF data = <<>> THEN b
    ELSE [slices |-> Append(b.slices, data), length |-> b.length + Len(data)]

\* A loop over the slices: op takes one slice after the other into what it has.
OverSlices(op(_, _), base, slices) ==
    LET upTo[i \in 0 .. Len(slices)] ==
          IF i = 0 THEN base ELSE op(upTo[i - 1], slices[i])
    IN  upTo[Len(slices)]

\* One slice of the loop of Drain: dropped, cut, or kept once nothing is left to drain.
DrainSlice(acc, data) ==
    IF acc.n <= 0 THEN [acc EXCEPT !.slices = Append(@, data)]
    ELSE IF acc.n >= Len(data)
      THEN [acc EXCEPT !.n = @ - Len(data), !.length = @ - Len(data)]
      ELSE [slices |-> Append(acc.slices, SubSeq(data, acc.n + 1, Len(data))),
            length |-> acc.length - acc.n, n |-> 0]

Drain(b, n) ==
    LET left == OverSlices(DrainSlice, [slices |-> <<>>, length |-> b.length, n |-> n], b.slices)
    IN  [slices |-> left.slices, length |-> left.length]

\* What is larger than the buffer is refused.
Fits(data) == Len(data) <= bufferSize

WriteBuffer(b, data) ==
    IF data = <<>> \/ ~Fits(data) THEN b
    ELSE AppendSlice(Drain(b, b.length + Len(data) - bufferSize), data)

\* Replace(nil) leaves an empty slice.
ReplaceNil(b) == [slices |-> <<<<>>>>, length |-> 0]

\* One slice of the two loops of ReadAt: to the slice with the offset, and from there.
ReadSlice(acc, data) ==
    IF acc.remaining >= Len(data)
      THEN [acc EXCEPT !.remaining = @ - Len(data)]
      ELSE LET left == Len(data) - acc.remaining
               toCopy == IF acc.count < left THEN acc.count ELSE left
           IN  [copied |-> acc.copied \o SubSeq(data, acc.remaining + 1, acc.remaining + toCopy),
                remaining |-> 0, count |-> acc.count - toCopy]

ReadAt(b, off, count) ==
    IF off >= b.length THEN <<>>
    ELSE OverSlices(ReadSlice, [copied |-> <<>>, remaining |-> off, count |-> count], b.slices).copied

\* Copy: the bytes of the slices one after the other.
Flat(slices) == OverSlices(\o, <<>>, slices)
=============================================================================
