-------------------------------- MODULE Gzip --------------------------------
(***************************************************************************)
(* The gzip container of src/src/Gzip.cpp: Decompress walks the header's   *)
(* optional members to find the deflated payload. The files are members    *)
(* written whole, by Compress or by another tool, and every prefix of one, *)
(* which is what an interrupted write leaves, and one file of another      *)
(* format. Inflating and the checksum belong to miniz and are not modelled. *)
(***************************************************************************)
EXTENDS Integers, Sequences, SequencesExt

CONSTANTS
  Lengths,   \* bound: lengths of the extra field, a name and a comment
  Payloads,  \* bound: lengths of the deflated data
  NoResult,
  Rejected

\* The length of an extra field has two bytes.
TwoBytes == 0..65535

ASSUME GzipAssumption == Lengths \subseteq TwoBytes /\ Payloads \subseteq Nat

VARIABLES
  file,    \* [bytes, start, cut]: start is history, where the payload of the
           \* whole member begins, and cut how much of its end is missing
  pos,     \* the offset reached, counted from 0 as in the code
  stage,   \* the member looked at next
  read,    \* history: the largest offset read so far
  result   \* [from, len] of the payload, or Rejected

vars == <<file, pos, stage, read, result>>

Flags == {"extra", "name", "comment", "hcrc"}

\* FEXTRA, FNAME, FCOMMENT and FHCRC of the FLG byte.
Bit == [extra |-> 4, name |-> 8, comment |-> 16, hcrc |-> 2]

FlagByte(flags) ==
  LET bit(flag) == IF flag \in flags THEN Bit[flag] ELSE 0
  IN  bit("extra") + bit("name") + bit("comment") + bit("hcrc")

kHeaderSize == 10
kTrailerSize == 8
Magic == <<31, 139, 8>>

Fill(n) == [i \in 1..n |-> 9]
Text(n) == Fill(n) \o <<0>>

Optional(flag, flags, bytes) == IF flag \in flags THEN bytes ELSE <<>>

\* RFC 1952: the members in the order in which they must come.
Preamble(flags, n) ==
  Magic \o <<FlagByte(flags)>> \o Fill(6) \o Optional("extra", flags, <<n % 256, n \div 256>> \o Fill(n))
    \o Optional("name", flags, Text(n)) \o Optional("comment", flags, Text(n))
    \o Optional("hcrc", flags, Fill(2))

WholeFile(flags, n, payload) ==
  [bytes |-> Preamble(flags, n) \o Fill(payload + kTrailerSize),
   start |-> Len(Preamble(flags, n)), cut |-> 0]

\* What Compress writes announces no optional member.
Compressed(payload) == WholeFile({}, 0, payload)

Cut(f, n) ==
  [bytes |-> SubSeq(f.bytes, 1, Len(f.bytes) - n), start |-> f.start, cut |-> n]

Files ==
  LET whole == {Compressed(p) : p \in Payloads} \cup
               {WholeFile(flags, n, p) : flags \in SUBSET Flags, n \in Lengths, p \in Payloads}
      foreign == [bytes |-> Fill(20), start |-> 0, cut |-> 20]
  IN  {foreign} \cup UNION {{Cut(f, n) : n \in 0..Len(f.bytes)} : f \in whole}

Size == Len(file.bytes)
Byte(i) == file.bytes[i + 1]

\* What raw[3] says of the members to come.
Announced(flag) == (Byte(3) \div Bit[flag]) % 2 = 1

----------------------------------------------------------------------------

Init ==
  /\ file \in Files
  /\ pos = 0
  /\ stage = "magic"
  /\ read = -1
  /\ result = NoResult

TooShort == Size < kHeaderSize + kTrailerSize

Reject == result' = Rejected /\ stage' = "done"

ReadMagic ==
  /\ stage = "magic"
  /\ IF TooShort \/ SubSeq(file.bytes, 1, 3) # Magic
     THEN Reject /\ UNCHANGED <<pos, read>>
     ELSE /\ pos' = kHeaderSize
          /\ read' = 3
          /\ stage' = "extra"
          /\ UNCHANGED result
  /\ UNCHANGED file

ExtraLengthFits == pos + 2 <= Size

ReadExtra ==
  /\ stage = "extra"
  /\ IF ~Announced("extra") THEN stage' = "name" /\ UNCHANGED <<pos, read, result>>
     ELSE IF ~ExtraLengthFits THEN Reject /\ UNCHANGED <<pos, read>>
     ELSE /\ read' = pos + 1
          /\ pos' = pos + 2 + Byte(pos) + 256 * Byte(pos + 1)
          /\ stage' = "name"
          /\ UNCHANGED result
  /\ UNCHANGED file

\* The offset of the first zero byte from i on, or the end of the file.
FirstZero(i) ==
  LET zeros == {j \in i..(Size - 1) : Byte(j) = 0}
  IN  IF zeros # {} THEN Min(zeros) ELSE IF i < Size THEN Size ELSE i

\* Mistake: the terminator is not skipped.
PastText(i) == FirstZero(i)

SkipText(i) == FirstZero(i) + 1

ReadText(flag, next) ==
  /\ stage = flag
  /\ stage' = next
  /\ IF Announced(flag)
     THEN pos' = SkipText(pos) /\ read' = Max({read, Min({FirstZero(pos), Size - 1})})
     ELSE UNCHANGED <<pos, read>>
  /\ UNCHANGED <<file, result>>

\* Mistake: the trailer is taken for granted.
NothingLeft(p) == p > Size

NoRoom(p) == p + kTrailerSize > Size

FindPayload ==
  LET p == pos + (IF Announced("hcrc") THEN 2 ELSE 0)
  IN  /\ stage = "payload"
      /\ pos' = p
      /\ IF NoRoom(p) THEN Reject /\ UNCHANGED read
         ELSE /\ result' = [from |-> p, len |-> Size - p - kTrailerSize]
              /\ read' = Size - 1
              /\ stage' = "done"
      /\ UNCHANGED file

\* The same file may be read again: Decompress keeps nothing between calls.
NextFile ==
  /\ stage = "done"
  /\ pos' = 0
  /\ stage' = "magic"
  /\ read' = -1
  /\ result' = NoResult
  /\ UNCHANGED file

Next ==
  \/ ReadMagic
  \/ ReadExtra
  \/ ReadText("name", "comment")
  \/ ReadText("comment", "payload")
  \/ FindPayload
  \/ NextFile

Spec == Init /\ [][Next]_vars

----------------------------------------------------------------------------
(* Properties *)

\* "Be tolerant of files recompressed by other tools" (Gzip.cpp:66-67): of a
\* whole file exactly the payload is inflated, whatever members precede it.
PayloadFound ==
  stage = "done" /\ file.cut = 0 =>
    result = [from |-> file.start, len |-> Size - file.start - kTrailerSize]

\* No byte past the end of a file is read, and the payload's length, an
\* unsigned difference, does not wrap, wherever the file was cut off
\* (Gzip.cpp:61-91).
ReadsInside ==
  /\ read < Size
  /\ result \notin {NoResult, Rejected} => result.len >= 0 /\ result.from + result.len <= Size
============================================================================
