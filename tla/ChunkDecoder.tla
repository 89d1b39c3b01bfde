---------------------------- MODULE ChunkDecoder -----------------------------
(***************************************************************************)
(* The decoder of textutil/utf8.go, which is given UTF-8 text in chunks    *)
(* that may end inside a rune, and the loops of textutil/rune.go around    *)
(* it.  A byte is "c", which continues a rune, or the first byte of a rune *)
(* of one, two, three or four bytes.                                       *)
(***************************************************************************)
EXTENDS Naturals, SequencesExt

CONSTANT MaxBytes   \* bound on the text

VARIABLES bytes,    \* the text
          rest,     \* what has not been written yet
          chunk,    \* what is left of the chunk in WriteRuneChunk
          partial,  \* d.partial, up to d.partialLen
          runes,    \* the runes passed on, the invalid ones as RuneError
          phase     \* "write", "flush" or "done"

vars == <<bytes, rest, chunk, partial, runes, phase>>

UTFMax == 4
Width == [b \in {"1", "2", "3", "4"} |-> IF b = "1" THEN 1 ELSE IF b = "2" THEN 2 ELSE IF b = "3" THEN 3 ELSE 4]
Bytes == DOMAIN Width \cup {"c"}
RuneError == <<"error">>

\* unicode/utf8 on bytes that are not empty: the first rune is whole, is invalid
\* already (then it is one byte wide), or may become whole.
Whole(s) == /\ Head(s) # "c" /\ Len(s) >= Width[Head(s)]
            /\ \A i \in 2..Width[Head(s)] : s[i] = "c"
FullRune(s) == \/ Head(s) = "c" \/ Whole(s)
               \/ \E i \in 2..Len(s) : s[i] # "c"
DecodeRune(s) == IF Whole(s) THEN SubSeq(s, 1, Width[Head(s)]) ELSE RuneError
Advance(s) == IF Whole(s) THEN Width[Head(s)] ELSE 1

Drop(s, n) == SubSeq(s, n + 1, Len(s))

Init ==
  /\ bytes \in BoundedSeq(Bytes, MaxBytes)
  /\ rest = bytes /\ chunk = <<>> /\ partial = <<>> /\ runes = <<>> /\ phase = "write"

\* The caller writes the next n bytes.
Write(n) ==
  /\ phase = "write" /\ chunk = <<>>
  /\ n \in 1..Len(rest)
  /\ chunk' = SubSeq(rest, 1, n)
  /\ rest' = Drop(rest, n)
  /\ UNCHANGED <<bytes, partial, runes, phase>>

\* DecodeRune without a partial rune.
Decode ==
  /\ chunk # <<>> /\ partial = <<>>
  /\ IF FullRune(chunk)
       THEN /\ runes' = Append(runes, DecodeRune(chunk))
            /\ chunk' = Drop(chunk, Advance(chunk))
            /\ UNCHANGED partial
       ELSE /\ partial' = chunk
            /\ chunk' = <<>>
            /\ UNCHANGED runes
  /\ UNCHANGED <<bytes, rest, phase>>

\* decodeRunePartial: the partial rune is filled from the chunk, without taking the
\* bytes from it before it is known how many the rune needs.
Filled == partial \o SubSeq(chunk, 1, IF Len(chunk) < UTFMax - Len(partial) THEN Len(chunk) ELSE UTFMax - Len(partial))

\* Mutant: all of it is given up.
UnreadNone(size) == <<>>

\* What is left of the partial rune behind an invalid one.
Unread(size) == Drop(partial, size)

decodeRunePartial ==
  /\ chunk # <<>> /\ partial # <<>>
  /\ LET size == Advance(Filled) IN
       CASE ~FullRune(Filled) ->
              /\ partial' = Filled
              /\ chunk' = <<>>
              /\ UNCHANGED runes
         [] FullRune(Filled) /\ size < Len(partial) ->
              /\ runes' = Append(runes, DecodeRune(Filled))
              /\ partial' = Unread(size)
              /\ UNCHANGED chunk
         [] OTHER ->
              /\ runes' = Append(runes, DecodeRune(Filled))
              /\ chunk' = Drop(chunk, size - Len(partial))
              /\ partial' = <<>>
  /\ UNCHANGED <<bytes, rest, phase>>

\* The last Write has returned and Flush drains the partial rune.
StartFlush ==
  /\ phase = "write" /\ rest = <<>> /\ chunk = <<>>
  /\ phase' = "flush"
  /\ UNCHANGED <<bytes, rest, chunk, partial, runes>>
FlushRune ==
  /\ phase = "flush"
  /\ IF partial = <<>> THEN phase' = "done" /\ UNCHANGED <<partial, runes>>
     ELSE /\ runes' = Append(runes, DecodeRune(partial))
          /\ partial' = Drop(partial, Advance(partial))
          /\ UNCHANGED phase
  /\ UNCHANGED <<bytes, rest, chunk>>

Next == Decode \/ decodeRunePartial \/ StartFlush \/ FlushRune \/ \E n \in 1..MaxBytes : Write(n)
Spec == Init /\ [][Next]_vars /\ WF_vars(Next)
-------------------------------------------------------------------------------
\* The runes of a text decoded in one piece.
InOnePiece(s) ==
  LET from[n \in 1..(Len(s) + 1)] ==
        IF n > Len(s) THEN <<>>
        ELSE LET t == Drop(s, n - 1) IN <<DecodeRune(t)>> \o from[n + Advance(t)]
  IN  from[1]

\* However the text is cut into chunks, the same runes come out, in order, and what
\* is held back is never more than one rune that is not whole; verifyPartial's panic,
\* a partial rune with bytes of the chunk left over, cannot come.
ChunksRight ==
  /\ InOnePiece(bytes) = runes \o InOnePiece(partial \o chunk \o rest)
  /\ phase = "done" => runes = InOnePiece(bytes)
  /\ Len(partial) < UTFMax
  /\ chunk # <<>> /\ ~FullRune(Filled) => Len(Filled) = Len(partial) + Len(chunk)
===============================================================================
