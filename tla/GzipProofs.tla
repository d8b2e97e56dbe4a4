----------------------------- MODULE GzipProofs -----------------------------
(***************************************************************************)
(* The theorems of Gzip: for files of any length, whatever members they    *)
(* announce and wherever they were cut off.                                *)
(***************************************************************************)
EXTENDS Gzip, ListProofs, SequenceTheorems

----------------------------------------------------------------------------
(* Files *)

\* One sequence and then another.
Cat(s, t) == s \o t

LEMMA Joined ==
  ASSUME NEW s \in Seq(Nat), NEW t \in Seq(Nat)
  PROVE  /\ Cat(s, t) \in Seq(Nat) /\ Len(Cat(s, t)) = Len(s) + Len(t)
         /\ Len(s) \in Nat /\ Len(t) \in Nat
         /\ \A i \in 1..Len(s) : Cat(s, t)[i] = s[i]
         /\ \A i \in 1..Len(t) : Cat(s, t)[Len(s) + i] = t[i]
BY DEF Cat

LEMMA CatFacts ==
  ASSUME NEW s \in Seq(Nat), NEW t \in Seq(Nat)
  PROVE  /\ Cat(s, t) \in Seq(Nat) /\ Len(Cat(s, t)) = Len(s) + Len(t)
         /\ Len(s) \in Nat /\ Len(t) \in Nat
BY Joined

\* t stands in b, from the offset at on.
Holds(b, at, t) ==
  /\ b \in Seq(Nat) /\ t \in Seq(Nat) /\ at \in Nat
  /\ at + Len(t) <= Len(b)
  /\ \A i \in 1..Len(t) : b[at + i] = t[i]

LEMMA HoldsFirst ==
  ASSUME NEW s \in Seq(Nat)
  PROVE  Holds(s, 0, s)
BY DEF Holds

LEMMA HoldsNew ==
  ASSUME NEW s \in Seq(Nat), NEW t \in Seq(Nat)
  PROVE  Holds(Cat(s, t), Len(s), t)
<1>1. /\ Cat(s, t) \in Seq(Nat) /\ Len(Cat(s, t)) = Len(s) + Len(t)
      /\ Len(s) \in Nat /\ Len(t) \in Nat
      /\ \A i \in 1..Len(t) : Cat(s, t)[Len(s) + i] = t[i]
  BY Joined
<1>2. Len(s) + Len(t) <= Len(Cat(s, t))
  BY <1>1
<1> QED BY <1>1, <1>2 DEF Holds

LEMMA HoldsStill ==
  ASSUME NEW s \in Seq(Nat), NEW at, NEW x, Holds(s, at, x), NEW t \in Seq(Nat)
  PROVE  Holds(Cat(s, t), at, x)
<1>1. /\ x \in Seq(Nat) /\ at \in Nat /\ at + Len(x) <= Len(s)
      /\ \A i \in 1..Len(x) : s[at + i] = x[i]
  BY DEF Holds
<1>2. Len(x) \in Nat
  BY <1>1
<1>3. /\ Cat(s, t) \in Seq(Nat) /\ Len(Cat(s, t)) = Len(s) + Len(t)
      /\ Len(s) \in Nat /\ Len(t) \in Nat
      /\ \A i \in 1..Len(s) : Cat(s, t)[i] = s[i]
  BY Joined
<1>4. ASSUME NEW i \in 1..Len(x) PROVE Cat(s, t)[at + i] = x[i]
  <2>1. at + i \in 1..Len(s)
    BY <1>1, <1>2, <1>3
  <2> QED BY <1>1, <1>3, <2>1
<1>5. at + Len(x) <= Len(Cat(s, t))
  BY <1>1, <1>2, <1>3
<1> QED BY <1>1, <1>3, <1>4, <1>5 DEF Holds

LEMMA FillFacts ==
  ASSUME NEW n \in Nat
  PROVE  /\ Fill(n) \in Seq(Nat) /\ Len(Fill(n)) = n
         /\ \A i \in 1..n : Fill(n)[i] = 9
<1>1. Fill(n) \in [1..n -> Nat]
  BY DEF Fill
<1> QED BY <1>1 DEF Fill

LEMMA TextFacts ==
  ASSUME NEW n \in Nat
  PROVE  /\ Text(n) \in Seq(Nat) /\ Len(Text(n)) = n + 1
         /\ \A i \in 1..n : Text(n)[i] = 9
         /\ Text(n)[n + 1] = 0
<1>1. /\ Fill(n) \in Seq(Nat) /\ Len(Fill(n)) = n
      /\ \A i \in 1..n : Fill(n)[i] = 9
  BY FillFacts
<1>2. <<0>> \in Seq(Nat) /\ Len(<<0>>) = 1 /\ <<0>>[1] = 0
  OBVIOUS
<1>3. 1 \in 1..Len(<<0>>)
  BY <1>2
<1> DEFINE s == Fill(n)
           t == <<0>>
<1>4. s \in Seq(Nat) /\ t \in Seq(Nat)
  BY <1>1, <1>2
<1> HIDE DEF s, t
<1>5. /\ Cat(s, t) \in Seq(Nat) /\ Len(Cat(s, t)) = Len(s) + Len(t)
      /\ \A i \in 1..Len(s) : Cat(s, t)[i] = s[i]
      /\ \A i \in 1..Len(t) : Cat(s, t)[Len(s) + i] = t[i]
  BY <1>4, Joined
<1>6. Text(n) = Cat(s, t)
  BY DEF Text, Cat, s, t
<1> QED BY <1>1, <1>2, <1>3, <1>5, <1>6 DEF s, t

\* An extra field announces its length in its first two bytes.
Extra(n) == <<n % 256, n \div 256>> \o Fill(n)

LEMMA ExtraFacts ==
  ASSUME NEW n \in Nat
  PROVE  /\ Extra(n) \in Seq(Nat) /\ Len(Extra(n)) = n + 2
         /\ Extra(n)[1] + 256 * Extra(n)[2] = n
<1> DEFINE s == <<n % 256, n \div 256>>
           t == Fill(n)
<1>1. n % 256 \in Nat /\ n \div 256 \in Nat /\ (n % 256) + 256 * (n \div 256) = n
  OBVIOUS
<1>2. s \in Seq(Nat) /\ Len(s) = 2 /\ s[1] = n % 256 /\ s[2] = n \div 256
  BY <1>1
<1>3. t \in Seq(Nat) /\ Len(t) = n
  BY FillFacts
<1> HIDE DEF s, t
<1>4. /\ Cat(s, t) \in Seq(Nat) /\ Len(Cat(s, t)) = Len(s) + Len(t)
      /\ \A i \in 1..Len(s) : Cat(s, t)[i] = s[i]
  BY <1>2, <1>3, Joined, ZenonT(40)
<1>5. Cat(s, t)[1] = s[1] /\ Cat(s, t)[2] = s[2]
  BY <1>2, <1>4
<1>6. Extra(n) = Cat(s, t)
  BY DEF Extra, Cat, s, t
<1> QED BY <1>1, <1>2, <1>3, <1>4, <1>5, <1>6

\* How long the members are.
SizeIf(flag, flags, n) == IF flag \in flags THEN n ELSE 0

LEMMA OptionalFacts ==
  ASSUME NEW flag, NEW flags, NEW bytes \in Seq(Nat)
  PROVE  /\ Optional(flag, flags, bytes) \in Seq(Nat)
         /\ Len(Optional(flag, flags, bytes)) = SizeIf(flag, flags, Len(bytes))
         /\ flag \in flags => Optional(flag, flags, bytes) = bytes
BY DEF Optional, SizeIf

\* Where each member begins.
NameAt(flags, n) == kHeaderSize + SizeIf("extra", flags, n + 2)
CommentAt(flags, n) == NameAt(flags, n) + SizeIf("name", flags, n + 1)
SumAt(flags, n) == CommentAt(flags, n) + SizeIf("comment", flags, n + 1)
PayloadAt(flags, n) == SumAt(flags, n) + SizeIf("hcrc", flags, 2)

LEMMA PlaceFacts ==
  ASSUME NEW flags, NEW n \in Nat
  PROVE  /\ NameAt(flags, n) \in Nat /\ CommentAt(flags, n) \in Nat
         /\ SumAt(flags, n) \in Nat /\ PayloadAt(flags, n) \in Nat
         /\ kHeaderSize <= NameAt(flags, n) /\ NameAt(flags, n) <= CommentAt(flags, n)
         /\ CommentAt(flags, n) <= SumAt(flags, n) /\ SumAt(flags, n) <= PayloadAt(flags, n)
BY DEF NameAt, CommentAt, SumAt, PayloadAt, SizeIf, kHeaderSize

\* Five members, and what follows them, one after the other.
Five(s1, t2, t3, t4, t5) == Cat(Cat(Cat(Cat(s1, t2), t3), t4), t5)

LEMMA FiveMembers ==
  ASSUME NEW flags, NEW n \in Nat, NEW s1 \in Seq(Nat), Len(s1) = kHeaderSize,
         NEW t2 \in Seq(Nat), Len(t2) = SizeIf("extra", flags, n + 2),
         NEW t3 \in Seq(Nat), Len(t3) = SizeIf("name", flags, n + 1),
         NEW t4 \in Seq(Nat), Len(t4) = SizeIf("comment", flags, n + 1),
         NEW t5 \in Seq(Nat), Len(t5) = SizeIf("hcrc", flags, 2),
         NEW t6 \in Seq(Nat), NEW b, b = Cat(Five(s1, t2, t3, t4, t5), t6)
  PROVE  /\ b \in Seq(Nat) /\ Len(Five(s1, t2, t3, t4, t5)) = PayloadAt(flags, n)
         /\ Len(b) = PayloadAt(flags, n) + Len(t6)
         /\ Holds(b, 0, s1) /\ Holds(b, kHeaderSize, t2)
         /\ Holds(b, NameAt(flags, n), t3) /\ Holds(b, CommentAt(flags, n), t4)
<1> DEFINE s2 == Cat(s1, t2)
           s3 == Cat(s2, t3)
           s4 == Cat(s3, t4)
           s5 == Cat(s4, t5)
<1>0. b = Cat(s5, t6) /\ s5 = Five(s1, t2, t3, t4, t5)
  BY DEF Five
<1>a. s2 = Cat(s1, t2) /\ s3 = Cat(s2, t3) /\ s4 = Cat(s3, t4) /\ s5 = Cat(s4, t5)
  OBVIOUS
<1> HIDE DEF s2, s3, s4, s5
<1>1. s2 \in Seq(Nat) /\ Len(s2) = Len(s1) + Len(t2)
  BY <1>a, CatFacts, Zenon
<1>2. s3 \in Seq(Nat) /\ Len(s3) = Len(s2) + Len(t3)
  BY <1>a, <1>1, CatFacts, Zenon
<1>3. s4 \in Seq(Nat) /\ Len(s4) = Len(s3) + Len(t4)
  BY <1>a, <1>2, CatFacts, Zenon
<1>4. s5 \in Seq(Nat) /\ Len(s5) = Len(s4) + Len(t5)
  BY <1>a, <1>3, CatFacts, Zenon
<1>5. b \in Seq(Nat) /\ Len(b) = Len(s5) + Len(t6)
  BY <1>0, <1>4, CatFacts, Zenon
<1>6. ASSUME NEW at, NEW x, Holds(s4, at, x) PROVE Holds(b, at, x)
  <2>1. Holds(s5, at, x)
    BY <1>3, <1>6, <1>a, HoldsStill, Zenon
  <2> QED BY <1>0, <1>4, <2>1, HoldsStill, Zenon
<1>7. ASSUME NEW at, NEW x, Holds(s3, at, x) PROVE Holds(b, at, x)
  <2>1. Holds(s4, at, x)
    BY <1>2, <1>7, <1>a, HoldsStill, Zenon
  <2> QED BY <1>6, <2>1, Zenon
<1>8. ASSUME NEW at, NEW x, Holds(s2, at, x) PROVE Holds(b, at, x)
  <2>1. Holds(s3, at, x)
    BY <1>1, <1>8, <1>a, HoldsStill, Zenon
  <2> QED BY <1>7, <2>1, Zenon
<1>9. Holds(b, 0, s1)
  <2>1. Holds(s2, 0, s1)
    BY <1>a, HoldsFirst, HoldsStill, Zenon
  <2> QED BY <1>8, <2>1, Zenon
<1>10. Holds(b, Len(s1), t2)
  <2>1. Holds(s2, Len(s1), t2)
    BY <1>a, HoldsNew, Zenon
  <2> QED BY <1>8, <2>1, Zenon
<1>11. Holds(b, Len(s2), t3)
  <2>1. Holds(s3, Len(s2), t3)
    BY <1>1, <1>a, HoldsNew, Zenon
  <2> QED BY <1>7, <2>1, Zenon
<1>12. Holds(b, Len(s3), t4)
  <2>1. Holds(s4, Len(s3), t4)
    BY <1>2, <1>a, HoldsNew, Zenon
  <2> QED BY <1>6, <2>1, Zenon
<1>13. Len(s2) = NameAt(flags, n)
  BY <1>1, Zenon DEF NameAt
<1>14. Len(s3) = CommentAt(flags, n)
  BY <1>2, <1>13, Zenon DEF CommentAt
<1>15. Len(s4) = SumAt(flags, n)
  BY <1>3, <1>14, Zenon DEF SumAt
<1>16. Len(s5) = PayloadAt(flags, n)
  BY <1>4, <1>15, Zenon DEF PayloadAt
<1> QED BY <1>0, <1>5, <1>9, <1>10, <1>11, <1>12, <1>13, <1>14, <1>16, Zenon

\* The members of a file.
Header(flags) == Magic \o <<FlagByte(flags)>> \o Fill(6)
Deflated(payload) == Fill(payload + kTrailerSize)

\* Whether a byte has a flag's bit.
HasBit(byte, flag) == (byte \div Bit[flag]) % 2 = 1

\* The FLG byte has the bits of the flags it was made of, and no other.
LEMMA BitsAre ==
  ASSUME NEW flags
  PROVE  /\ FlagByte(flags) \in Nat
         /\ \A flag \in Flags : HasBit(FlagByte(flags), flag) <=> flag \in flags
<1> DEFINE e == IF "extra" \in flags THEN 1 ELSE 0
           n == IF "name" \in flags THEN 1 ELSE 0
           c == IF "comment" \in flags THEN 1 ELSE 0
           h == IF "hcrc" \in flags THEN 1 ELSE 0
<1>1. Bit["extra"] = 4 /\ Bit["name"] = 8 /\ Bit["comment"] = 16 /\ Bit["hcrc"] = 2
  BY DEF Bit
<1>2. FlagByte(flags) = 4 * e + 8 * n + 16 * c + 2 * h
  BY <1>1 DEF FlagByte
<1>3. e \in {0, 1} /\ n \in {0, 1} /\ c \in {0, 1} /\ h \in {0, 1}
  OBVIOUS
<1>4. /\ e = 1 <=> "extra" \in flags
      /\ n = 1 <=> "name" \in flags
      /\ c = 1 <=> "comment" \in flags
      /\ h = 1 <=> "hcrc" \in flags
  OBVIOUS
<1> HIDE DEF e, n, c, h
<1>5. /\ (FlagByte(flags) \div 4) % 2 = e /\ (FlagByte(flags) \div 8) % 2 = n
      /\ (FlagByte(flags) \div 16) % 2 = c /\ (FlagByte(flags) \div 2) % 2 = h
      /\ FlagByte(flags) \in Nat
  BY <1>2, <1>3
<1>6. ASSUME NEW flag \in Flags PROVE HasBit(FlagByte(flags), flag) <=> flag \in flags
  <2>1. CASE flag = "extra"
    BY <1>1, <1>4, <1>5, <2>1 DEF HasBit
  <2>2. CASE flag = "name"
    BY <1>1, <1>4, <1>5, <2>2 DEF HasBit
  <2>3. CASE flag = "comment"
    BY <1>1, <1>4, <1>5, <2>3 DEF HasBit
  <2>4. CASE flag = "hcrc"
    BY <1>1, <1>4, <1>5, <2>4 DEF HasBit
  <2> QED BY <2>1, <2>2, <2>3, <2>4 DEF Flags
<1> QED BY <1>5, <1>6

LEMMA HeaderFacts ==
  ASSUME NEW flags
  PROVE  /\ Header(flags) \in Seq(Nat) /\ Len(Header(flags)) = kHeaderSize
         /\ Holds(Header(flags), 0, Magic) /\ Holds(Header(flags), 3, <<FlagByte(flags)>>)
<1> DEFINE t == <<FlagByte(flags)>>
<1>1. Magic \in Seq(Nat) /\ Len(Magic) = 3
  BY DEF Magic
<1>2. Fill(6) \in Seq(Nat) /\ Len(Fill(6)) = 6
  BY FillFacts
<1>3. t \in Seq(Nat) /\ Len(t) = 1
  BY BitsAre
<1>4. Header(flags) = Cat(Cat(Magic, t), Fill(6))
  BY DEF Header, Cat
<1> HIDE DEF t
<1>5. Cat(Magic, t) \in Seq(Nat) /\ Len(Cat(Magic, t)) = 3 + 1
  <2>1. Cat(Magic, t) \in Seq(Nat) /\ Len(Cat(Magic, t)) = Len(Magic) + Len(t)
    BY <1>1, <1>3, CatFacts, Zenon
  <2> QED BY <1>1, <1>3, <2>1, Zenon
<1>6. Holds(Header(flags), 0, Magic)
  <2>1. Holds(Cat(Magic, t), 0, Magic)
    BY <1>1, <1>3, HoldsFirst, HoldsStill, Zenon
  <2> QED BY <1>2, <1>4, <1>5, <2>1, HoldsStill, Zenon
<1>7. Holds(Header(flags), 3, t)
  <2>1. Holds(Cat(Magic, t), 3, t)
    BY <1>1, <1>3, HoldsNew, Zenon
  <2> QED BY <1>2, <1>4, <1>5, <2>1, HoldsStill, Zenon
<1>8. Header(flags) \in Seq(Nat) /\ Len(Header(flags)) = Len(Cat(Magic, t)) + Len(Fill(6))
  BY <1>2, <1>4, <1>5, CatFacts, Zenon
<1>9. Len(Header(flags)) = kHeaderSize
  <2>1. Len(Header(flags)) = (3 + 1) + 6
    BY <1>2, <1>5, <1>8, Zenon
  <2> QED BY <2>1 DEF kHeaderSize
<1> QED BY <1>6, <1>7, <1>8, <1>9, Zenon DEF t

LEMMA PreambleIs ==
  ASSUME NEW flags, NEW n, NEW payload
  PROVE  LET five == Five(Header(flags), Optional("extra", flags, Extra(n)), Optional("name", flags, Text(n)),
                          Optional("comment", flags, Text(n)), Optional("hcrc", flags, Fill(2)))
         IN  /\ WholeFile(flags, n, payload).bytes = Cat(five, Deflated(payload))
             /\ WholeFile(flags, n, payload).start = Len(five)
             /\ WholeFile(flags, n, payload).cut = 0
BY DEF WholeFile, Preamble, Header, Extra, Deflated, Cat, Five

\* A text of n characters and its terminator, from the offset at on.
HasText(b, at, n) == (\A i \in 1..n : b[at + i] = 9) /\ b[at + n + 1] = 0

\* A text among the members is found where it begins, ended by its zero.
LEMMA TextAt ==
  ASSUME NEW b, NEW n \in Nat, NEW at, Holds(b, at, Text(n))
  PROVE  HasText(b, at, n)
<1>1. Len(Text(n)) = n + 1 /\ (\A i \in 1..n : Text(n)[i] = 9) /\ Text(n)[n + 1] = 0
  BY TextFacts
<1>2. at \in Nat /\ \A i \in 1..(n + 1) : b[at + i] = Text(n)[i]
  BY <1>1 DEF Holds
<1>3. n + 1 \in 1..(n + 1) /\ at + (n + 1) = at + n + 1
  BY <1>2
<1>4. b[at + n + 1] = 0
  BY <1>1, <1>2, <1>3
<1>5. ASSUME NEW i \in 1..n PROVE b[at + i] = 9
  <2>1. i \in 1..(n + 1)
    OBVIOUS
  <2> QED BY <1>1, <1>2, <2>1
<1> QED BY <1>4, <1>5 DEF HasText

LEMMA MemberFacts ==
  ASSUME NEW flags, NEW n \in Nat, NEW payload \in Nat
  PROVE  /\ Extra(n) \in Seq(Nat) /\ Len(Extra(n)) = n + 2
         /\ Optional("extra", flags, Extra(n)) \in Seq(Nat)
         /\ Len(Optional("extra", flags, Extra(n))) = SizeIf("extra", flags, n + 2)
         /\ Optional("name", flags, Text(n)) \in Seq(Nat)
         /\ Len(Optional("name", flags, Text(n))) = SizeIf("name", flags, n + 1)
         /\ Optional("comment", flags, Text(n)) \in Seq(Nat)
         /\ Len(Optional("comment", flags, Text(n))) = SizeIf("comment", flags, n + 1)
         /\ Optional("hcrc", flags, Fill(2)) \in Seq(Nat)
         /\ Len(Optional("hcrc", flags, Fill(2))) = SizeIf("hcrc", flags, 2)
         /\ Deflated(payload) \in Seq(Nat) /\ Len(Deflated(payload)) = payload + kTrailerSize
<1>1. Extra(n) \in Seq(Nat) /\ Len(Extra(n)) = n + 2
  BY ExtraFacts
<1>2. Text(n) \in Seq(Nat) /\ Len(Text(n)) = n + 1
  BY TextFacts
<1>3. Fill(2) \in Seq(Nat) /\ Len(Fill(2)) = 2
  BY FillFacts
<1>4. payload + kTrailerSize \in Nat
  BY DEF kTrailerSize
<1>5. Deflated(payload) \in Seq(Nat) /\ Len(Deflated(payload)) = payload + kTrailerSize
  BY <1>4, FillFacts DEF Deflated
<1>6. /\ Optional("extra", flags, Extra(n)) \in Seq(Nat)
      /\ Len(Optional("extra", flags, Extra(n))) = SizeIf("extra", flags, n + 2)
  <2>1. /\ Optional("extra", flags, Extra(n)) \in Seq(Nat)
        /\ Len(Optional("extra", flags, Extra(n))) = SizeIf("extra", flags, Len(Extra(n)))
    BY <1>1, OptionalFacts
  <2> QED BY <1>1, <2>1
<1>7. /\ Optional("name", flags, Text(n)) \in Seq(Nat)
      /\ Len(Optional("name", flags, Text(n))) = SizeIf("name", flags, n + 1)
  <2>1. /\ Optional("name", flags, Text(n)) \in Seq(Nat)
        /\ Len(Optional("name", flags, Text(n))) = SizeIf("name", flags, Len(Text(n)))
    BY <1>2, OptionalFacts
  <2> QED BY <1>2, <2>1
<1>8. /\ Optional("comment", flags, Text(n)) \in Seq(Nat)
      /\ Len(Optional("comment", flags, Text(n))) = SizeIf("comment", flags, n + 1)
  <2>1. /\ Optional("comment", flags, Text(n)) \in Seq(Nat)
        /\ Len(Optional("comment", flags, Text(n))) = SizeIf("comment", flags, Len(Text(n)))
    BY <1>2, OptionalFacts
  <2> QED BY <1>2, <2>1
<1>9. /\ Optional("hcrc", flags, Fill(2)) \in Seq(Nat)
      /\ Len(Optional("hcrc", flags, Fill(2))) = SizeIf("hcrc", flags, 2)
  <2>1. /\ Optional("hcrc", flags, Fill(2)) \in Seq(Nat)
        /\ Len(Optional("hcrc", flags, Fill(2))) = SizeIf("hcrc", flags, Len(Fill(2)))
    BY <1>3, OptionalFacts
  <2> QED BY <1>3, <2>1
<1> QED BY <1>1, <1>5, <1>6, <1>7, <1>8, <1>9, Zenon

\* How the bytes of a whole member are laid out.
LaidOut(b, flags, n, payload) ==
  /\ b \in Seq(Nat)
  /\ Len(b) = PayloadAt(flags, n) + payload + kTrailerSize
  /\ b[1] = 31 /\ b[2] = 139 /\ b[3] = 8 /\ b[4] = FlagByte(flags)
  /\ "extra" \in flags => b[11] + 256 * b[12] = n
  /\ "name" \in flags => HasText(b, NameAt(flags, n), n)
  /\ "comment" \in flags => HasText(b, CommentAt(flags, n), n)

LEMMA WholeFacts ==
  ASSUME NEW flags, NEW n \in Nat, NEW payload \in Nat,
         NEW b, b = WholeFile(flags, n, payload).bytes
  PROVE  /\ LaidOut(b, flags, n, payload)
         /\ WholeFile(flags, n, payload).start = PayloadAt(flags, n)
<1> DEFINE t2 == Optional("extra", flags, Extra(n))
           t3 == Optional("name", flags, Text(n))
           t4 == Optional("comment", flags, Text(n))
<1>1. /\ b \in Seq(Nat) /\ WholeFile(flags, n, payload).start = PayloadAt(flags, n)
      /\ Len(b) = PayloadAt(flags, n) + Len(Deflated(payload))
      /\ Holds(b, 0, Header(flags)) /\ Holds(b, kHeaderSize, t2)
      /\ Holds(b, NameAt(flags, n), t3) /\ Holds(b, CommentAt(flags, n), t4)
  <2> DEFINE t5 == Optional("hcrc", flags, Fill(2))
             t6 == Deflated(payload)
  <2>1. /\ b = Cat(Five(Header(flags), t2, t3, t4, t5), t6)
        /\ WholeFile(flags, n, payload).start = Len(Five(Header(flags), t2, t3, t4, t5))
    BY PreambleIs
  <2>2. Header(flags) \in Seq(Nat) /\ Len(Header(flags)) = kHeaderSize
    BY HeaderFacts
  <2>3. /\ t2 \in Seq(Nat) /\ Len(t2) = SizeIf("extra", flags, n + 2)
        /\ t3 \in Seq(Nat) /\ Len(t3) = SizeIf("name", flags, n + 1)
        /\ t4 \in Seq(Nat) /\ Len(t4) = SizeIf("comment", flags, n + 1)
        /\ t5 \in Seq(Nat) /\ Len(t5) = SizeIf("hcrc", flags, 2)
        /\ t6 \in Seq(Nat)
    BY MemberFacts, Zenon
  <2> HIDE DEF t2, t3, t4, t5, t6
  <2>4. /\ b \in Seq(Nat) /\ Len(Five(Header(flags), t2, t3, t4, t5)) = PayloadAt(flags, n)
        /\ Len(b) = PayloadAt(flags, n) + Len(t6)
        /\ Holds(b, 0, Header(flags)) /\ Holds(b, kHeaderSize, t2)
        /\ Holds(b, NameAt(flags, n), t3) /\ Holds(b, CommentAt(flags, n), t4)
    BY <2>1, <2>2, <2>3, FiveMembers, SMTT(30)
  <2> QED BY <2>1, <2>4 DEF t6
<1> HIDE DEF t2, t3, t4
<1>2. PayloadAt(flags, n) \in Nat
  BY PlaceFacts
<1>3. Len(b) = PayloadAt(flags, n) + payload + kTrailerSize
  <2>1. Len(Deflated(payload)) = payload + kTrailerSize
    BY MemberFacts
  <2> QED BY <1>1, <1>2, <2>1 DEF kTrailerSize
<1>4. b[1] = 31 /\ b[2] = 139 /\ b[3] = 8 /\ b[4] = FlagByte(flags)
  <2>1. Len(Header(flags)) = 10 /\ Len(Magic) = 3 /\ Magic \in Seq(Nat)
    <3>1. Len(Header(flags)) = 10
      BY HeaderFacts DEF kHeaderSize
    <3>2. Len(Magic) = 3 /\ Magic \in Seq(Nat)
      BY DEF Magic
    <3> QED BY <3>1, <3>2
  <2>2. \A i \in 1..10 : b[0 + i] = Header(flags)[i]
    BY <1>1, <2>1 DEF Holds
  <2>3. \A i \in 1..3 : Header(flags)[0 + i] = Magic[i]
    BY <2>1, HeaderFacts DEF Holds
  <2>4. Header(flags)[3 + 1] = FlagByte(flags)
    <3> DEFINE t == <<FlagByte(flags)>>
    <3>1. Len(t) = 1 /\ t[1] = FlagByte(flags)
      OBVIOUS
    <3>2. Holds(Header(flags), 3, t)
      BY HeaderFacts
    <3> HIDE DEF t
    <3> QED BY <3>1, <3>2 DEF Holds
  <2>5. b[1] = Magic[1] /\ b[2] = Magic[2] /\ b[3] = Magic[3]
    BY <2>2, <2>3
  <2> QED BY <2>2, <2>4, <2>5 DEF Magic
<1>5. ASSUME "extra" \in flags PROVE b[11] + 256 * b[12] = n
  <2>1. t2 = Extra(n)
    BY <1>5 DEF t2, Optional
  <2>2. Len(Extra(n)) = n + 2 /\ Extra(n)[1] + 256 * Extra(n)[2] = n
    BY ExtraFacts
  <2>3. \A i \in 1..(n + 2) : b[10 + i] = Extra(n)[i]
    BY <1>1, <2>1, <2>2 DEF kHeaderSize, Holds
  <2>4. b[10 + 1] = Extra(n)[1] /\ b[10 + 2] = Extra(n)[2]
    BY <2>3
  <2> QED BY <2>2, <2>4
<1>6. ASSUME "name" \in flags
      PROVE  HasText(b, NameAt(flags, n), n)
  <2>1. t3 = Text(n)
    BY <1>6 DEF t3, Optional
  <2>2. Holds(b, NameAt(flags, n), Text(n))
    BY <1>1, <2>1
  <2> QED BY <2>2, TextAt
<1>7. ASSUME "comment" \in flags
      PROVE  HasText(b, CommentAt(flags, n), n)
  <2>1. t4 = Text(n)
    BY <1>7 DEF t4, Optional
  <2>2. Holds(b, CommentAt(flags, n), Text(n))
    BY <1>1, <2>1
  <2> QED BY <2>2, TextAt
<1> QED BY <1>1, <1>3, <1>4, <1>5, <1>6, <1>7, Zenon DEF LaidOut

----------------------------------------------------------------------------
(* Zero bytes *)

LEMMA ZeroFacts ==
  ASSUME file.bytes \in Seq(Nat), NEW i \in Nat
  PROVE  /\ FirstZero(i) \in Nat
         /\ \A j \in i..(Size - 1) :
              Byte(j) = 0 /\ (\A k \in i..(j - 1) : Byte(k) # 0) => FirstZero(i) = j
<1> DEFINE zeros == {j \in i..(Size - 1) : Byte(j) = 0}
<1>1. Size \in Nat /\ zeros \in SUBSET Nat
  BY DEF Size
<1>2. FirstZero(i) = IF zeros # {} THEN Min(zeros) ELSE IF i < Size THEN Size ELSE i
  BY DEF FirstZero
<1>3. ASSUME zeros # {} PROVE Min(zeros) \in zeros /\ \A k \in zeros : Min(zeros) <= k
  BY <1>1, <1>3, LeastNat
<1>4. FirstZero(i) \in Nat
  <2> HIDE DEF zeros
  <2> QED BY <1>1, <1>2, <1>3
<1>5. ASSUME NEW j \in i..(Size - 1), Byte(j) = 0, \A k \in i..(j - 1) : Byte(k) # 0
      PROVE  FirstZero(i) = j
  <2>1. j \in zeros
    BY <1>5
  <2>2. Min(zeros) \in zeros /\ Min(zeros) <= j
    BY <1>3, <2>1
  <2>3. Min(zeros) \in i..(Size - 1) /\ Byte(Min(zeros)) = 0
    BY <2>2
  <2> HIDE DEF zeros
  <2>4. ~(Min(zeros) < j)
    BY <1>1, <1>5, <2>3
  <2> QED BY <1>1, <1>2, <2>1, <2>2, <2>3, <2>4
<1> QED BY <1>4, <1>5

----------------------------------------------------------------------------
(* The files *)

LEMMA Natural ==
  Lengths \cup {0} \subseteq Nat /\ Payloads \subseteq Nat
<1>1. TwoBytes \subseteq Nat
  BY SMT DEF TwoBytes
<1> QED BY <1>1, GzipAssumption

LEMMA CutFacts ==
  ASSUME NEW bytes \in Seq(Nat), NEW start, NEW f, NEW n \in 0..Len(bytes),
         f = [bytes |-> bytes, start |-> start, cut |-> 0]
  PROVE  Cut(f, n).bytes \in Seq(Nat) /\ (Cut(f, n).cut = 0 => Cut(f, n) = f)
<1>1. PICK x : x = SubSeq(bytes, 1, Len(bytes) - n)
  OBVIOUS
<1>2. x \in Seq(Nat)
  BY <1>1
<1>3. n = 0 => x = bytes
  BY <1>1
<1>4. Cut(f, n) = [bytes |-> x, start |-> start, cut |-> n]
  <2>1. f.bytes = bytes /\ f.start = start
    OBVIOUS
  <2> QED BY ONLY <1>1, <2>1 DEF Cut
<1> QED BY <1>2, <1>3, <1>4

\* A file of which nothing is missing is a member written whole.
LEMMA FileFacts ==
  ASSUME NEW f \in Files
  PROVE  /\ f.bytes \in Seq(Nat)
         /\ f.cut = 0 => \E flags \in SUBSET Flags, n \in Lengths \cup {0}, payload \in Payloads :
                            f = WholeFile(flags, n, payload)
<1> DEFINE whole == {Compressed(p) : p \in Payloads} \cup
                    {WholeFile(flags, n, p) : flags \in SUBSET Flags, n \in Lengths, p \in Payloads}
           foreign == [bytes |-> Fill(20), start |-> 0, cut |-> 20]
<1>1. f = foreign \/ \E g \in whole : \E n \in 0..Len(g.bytes) : f = Cut(g, n)
  BY DEF Files
<1>2. ASSUME NEW g \in whole
      PROVE  \E flags \in SUBSET Flags, n \in Lengths \cup {0}, payload \in Payloads :
               g = WholeFile(flags, n, payload)
  <2>1. {} \in SUBSET Flags
    OBVIOUS
  <2> QED BY <1>2, <2>1 DEF Compressed
<1> HIDE DEF whole
<1>3. CASE f = foreign
  <2>1. Fill(20) \in Seq(Nat)
    BY FillFacts
  <2> QED BY <1>3, <2>1
<1>4. CASE \E g \in whole : \E n \in 0..Len(g.bytes) : f = Cut(g, n)
  <2>1. PICK g \in whole : \E n \in 0..Len(g.bytes) : f = Cut(g, n)
    BY <1>4
  <2>2. PICK m \in 0..Len(g.bytes) : f = Cut(g, m)
    BY <2>1
  <2>3. PICK flags \in SUBSET Flags, n \in Lengths \cup {0}, payload \in Payloads :
               g = WholeFile(flags, n, payload)
    BY <1>2
  <2>4. g.bytes \in Seq(Nat)
    <3>1. n \in Nat /\ payload \in Nat
      BY Natural
    <3>2. LaidOut(g.bytes, flags, n, payload)
      BY <2>3, <3>1, WholeFacts
    <3> QED BY <3>2 DEF LaidOut
  <2>5. g = [bytes |-> g.bytes, start |-> g.start, cut |-> 0]
    BY <2>3 DEF WholeFile
  <2>6. f.bytes \in Seq(Nat) /\ (f.cut = 0 => f = g)
    BY <2>2, <2>4, <2>5, CutFacts
  <2> QED BY <2>3, <2>6
<1> QED BY <1>1, <1>3, <1>4

----------------------------------------------------------------------------
(* The invariant *)

\* Where Decompress is: no byte past the end was read, and what it found has
\* room for the trailer.
InsideInv ==
  /\ pos \in Nat
  /\ stage \in {"magic", "extra", "name", "comment", "payload", "done"}
  /\ read \in Int /\ read < Size
  /\ stage # "done" => result = NoResult
  /\ stage = "extra" => pos = kHeaderSize
  /\ stage = "done" => \/ result = Rejected
                       \/ result.len >= 0 /\ result.from + result.len <= Size

\* In a member written whole every stage starts where its part of the header
\* does.
PlacedInv ==
  \A flags \in SUBSET Flags, n \in Lengths \cup {0}, payload \in Payloads :
    file = WholeFile(flags, n, payload) =>
      /\ stage = "name" => pos = NameAt(flags, n)
      /\ stage = "comment" => pos = CommentAt(flags, n)
      /\ stage = "payload" => pos = SumAt(flags, n)
      /\ stage = "done" => result = [from |-> PayloadAt(flags, n), len |-> payload]

GzipInv ==
  /\ file \in Files
  /\ InsideInv
  /\ PlacedInv

LEMMA InitGzip ==
  Init => GzipInv
<1> SUFFICES ASSUME Init
             PROVE  GzipInv
  OBVIOUS
<1>1. file \in Files /\ pos = 0 /\ stage = "magic" /\ read = -1 /\ result = NoResult
  BY DEF Init
<1>2. file.bytes \in Seq(Nat)
  BY <1>1, FileFacts
<1>3. Size \in Nat
  BY <1>2 DEF Size
<1>4. InsideInv
  BY <1>1, <1>3 DEF InsideInv
<1>5. PlacedInv
  BY <1>1 DEF PlacedInv
<1> QED BY <1>1, <1>4, <1>5 DEF GzipInv

LEMMA StutterGzip ==
  ASSUME GzipInv, UNCHANGED vars
  PROVE  GzipInv'
BY DEF GzipInv, InsideInv, PlacedInv, vars, Size

----------------------------------------------------------------------------
(* The steps *)

\* What a file of the invariant is.
LEMMA TheFile ==
  ASSUME GzipInv
  PROVE  /\ file.bytes \in Seq(Nat) /\ Size \in Nat
         /\ \A i \in 0..(Size - 1) : Byte(i) \in Nat
         /\ pos \in Nat /\ read \in Int /\ read < Size
<1>1. file.bytes \in Seq(Nat)
  BY FileFacts DEF GzipInv
<1> QED BY <1>1 DEF Size, Byte, GzipInv, InsideInv

\* And what a member written whole is.
LEMMA TheWhole ==
  ASSUME GzipInv, NEW flags \in SUBSET Flags, NEW n \in Lengths \cup {0}, NEW payload \in Payloads,
         file = WholeFile(flags, n, payload)
  PROVE  /\ n \in Nat /\ payload \in Nat
         /\ \A flag \in Flags : Announced(flag) <=> flag \in flags
         /\ file.start = PayloadAt(flags, n) /\ PayloadAt(flags, n) \in Nat
         /\ Size = PayloadAt(flags, n) + payload + kTrailerSize /\ Size >= 18
         /\ LaidOut(file.bytes, flags, n, payload)
<1>1. n \in Nat /\ payload \in Nat
  BY Natural
<1>3. LaidOut(file.bytes, flags, n, payload) /\ file.start = PayloadAt(flags, n)
  BY <1>1, WholeFacts
<1>4. Size = PayloadAt(flags, n) + payload + kTrailerSize
  BY <1>3 DEF LaidOut, Size
<1>5. PayloadAt(flags, n) \in Nat /\ kHeaderSize <= PayloadAt(flags, n)
  <2>1. /\ NameAt(flags, n) \in Nat /\ CommentAt(flags, n) \in Nat
        /\ SumAt(flags, n) \in Nat /\ PayloadAt(flags, n) \in Nat
        /\ kHeaderSize <= NameAt(flags, n) /\ NameAt(flags, n) <= CommentAt(flags, n)
        /\ CommentAt(flags, n) <= SumAt(flags, n) /\ SumAt(flags, n) <= PayloadAt(flags, n)
    BY <1>1, PlaceFacts
  <2> QED BY <2>1 DEF kHeaderSize
<1>6. Size >= 18
  BY <1>1, <1>4, <1>5 DEF kHeaderSize, kTrailerSize
<1>2. \A flag \in Flags : Announced(flag) <=> flag \in flags
  <2>1. Byte(3) = FlagByte(flags)
    <3>1. 3 + 1 = 4
      OBVIOUS
    <3> QED BY <1>3, <3>1 DEF LaidOut, Byte
  <2> QED BY <2>1, BitsAre DEF Announced, HasBit
<1> QED BY <1>1, <1>2, <1>3, <1>4, <1>5, <1>6, Zenon

LEMMA StartsWithMagic ==
  ASSUME NEW b \in Seq(Nat), Len(b) >= 18, b[1] = 31, b[2] = 139, b[3] = 8
  PROVE  SubSeq(b, 1, 3) = <<31, 139, 8>>
<1>1. PICK s : s = SubSeq(b, 1, 3)
  OBVIOUS
<1>2. PICK t : t = <<31, 139, 8>>
  OBVIOUS
<1>3. s \in Seq(Nat) /\ Len(s) = 3 /\ s[1] = 31 /\ s[2] = 139 /\ s[3] = 8
  BY <1>1, SMTT(30)
<1>4. t \in Seq(Nat) /\ Len(t) = 3 /\ t[1] = 31 /\ t[2] = 139 /\ t[3] = 8
  BY <1>2
<1>5. \A i \in 1..3 : s[i] = t[i]
  BY ONLY <1>3, <1>4
<1>6. s = t
  <2>1. Len(s) = Len(t) /\ \A i \in 1..Len(s) : s[i] = t[i]
    BY ONLY <1>3, <1>4, <1>5
  <2> QED BY <1>3, <1>4, <2>1, SeqEqual, Zenon
<1> QED BY <1>1, <1>2, <1>6

LEMMA MagicGzip ==
  ASSUME GzipInv, ReadMagic
  PROVE  GzipInv'
<1>1. file.bytes \in Seq(Nat) /\ Size \in Nat /\ pos \in Nat /\ read \in Int /\ read < Size
  BY TheFile
<1>2. stage = "magic" /\ file' = file /\ Size' = Size /\ result = NoResult
  BY DEF ReadMagic, Size, GzipInv, InsideInv
<1>3. InsideInv'
  <2>1. CASE TooShort \/ SubSeq(file.bytes, 1, 3) # Magic
    BY <1>1, <1>2, <2>1 DEF ReadMagic, Reject, InsideInv
  <2>2. CASE ~(TooShort \/ SubSeq(file.bytes, 1, 3) # Magic)
    <3>1. pos' = 10 /\ read' = 3 /\ stage' = "extra" /\ result' = NoResult /\ Size >= 18
      BY <1>1, <1>2, <2>2 DEF ReadMagic, TooShort, kHeaderSize, kTrailerSize
    <3> QED BY <1>1, <1>2, <3>1 DEF InsideInv, kHeaderSize
  <2> QED BY <2>1, <2>2
<1>4. ASSUME NEW flags \in SUBSET Flags, NEW n \in Lengths \cup {0}, NEW payload \in Payloads,
             file = WholeFile(flags, n, payload)
      PROVE  stage' = "extra"
  <2>1. Size >= 18 /\ LaidOut(file.bytes, flags, n, payload)
    BY <1>4, TheWhole
  <2>2. file.bytes[1] = 31 /\ file.bytes[2] = 139 /\ file.bytes[3] = 8
    BY <2>1 DEF LaidOut
  <2>3. SubSeq(file.bytes, 1, 3) = Magic
    BY <1>1, <2>1, <2>2, StartsWithMagic DEF Size, Magic
  <2>4. ~TooShort
    BY <1>1, <2>1 DEF TooShort, kHeaderSize, kTrailerSize
  <2> QED BY <2>3, <2>4 DEF ReadMagic
<1>5. PlacedInv'
  BY <1>2, <1>4 DEF PlacedInv
<1> QED BY <1>2, <1>3, <1>5 DEF GzipInv

LEMMA ExtraGzip ==
  ASSUME GzipInv, ReadExtra
  PROVE  GzipInv'
<1>1. /\ file.bytes \in Seq(Nat) /\ Size \in Nat /\ read \in Int /\ read < Size
      /\ \A i \in 0..(Size - 1) : Byte(i) \in Nat
  BY TheFile
<1>2. stage = "extra" /\ file' = file /\ Size' = Size /\ result = NoResult /\ pos = 10
  BY DEF ReadExtra, Size, GzipInv, InsideInv, kHeaderSize
<1>3. CASE ~Announced("extra")
  <2>1. stage' = "name" /\ pos' = 10 /\ read' = read /\ result' = NoResult
    BY <1>2, <1>3 DEF ReadExtra
  <2>2. InsideInv'
    BY <1>1, <1>2, <2>1 DEF InsideInv
  <2>3. ASSUME NEW flags \in SUBSET Flags, NEW n \in Lengths \cup {0}, NEW payload \in Payloads,
               file = WholeFile(flags, n, payload)
        PROVE  pos' = NameAt(flags, n)
    <3>1. "extra" \notin flags
      BY <1>3, <2>3, TheWhole DEF Flags
    <3> QED BY <2>1, <3>1 DEF NameAt, SizeIf, kHeaderSize
  <2>4. PlacedInv'
    BY <1>2, <2>1, <2>3 DEF PlacedInv
  <2> QED BY <1>2, <2>2, <2>4 DEF GzipInv
<1>4. CASE Announced("extra") /\ ~ExtraLengthFits
  <2>1. stage' = "done" /\ result' = Rejected /\ pos' = 10 /\ read' = read
    BY <1>2, <1>4 DEF ReadExtra, Reject
  <2>2. InsideInv'
    BY <1>1, <1>2, <2>1 DEF InsideInv
  <2>3. ASSUME NEW flags \in SUBSET Flags, NEW n \in Lengths \cup {0}, NEW payload \in Payloads,
               file = WholeFile(flags, n, payload)
        PROVE  FALSE
    <3>1. Size >= 18
      BY <2>3, TheWhole
    <3> QED BY <1>1, <1>2, <1>4, <3>1 DEF ExtraLengthFits
  <2>4. PlacedInv'
    BY <1>2, <2>3 DEF PlacedInv
  <2> QED BY <1>2, <2>2, <2>4 DEF GzipInv
<1>5. CASE Announced("extra") /\ ExtraLengthFits
  <2>1. /\ stage' = "name" /\ result' = NoResult /\ read' = 11
        /\ pos' = 12 + Byte(10) + 256 * Byte(11)
    <3>1. 10 + 1 = 11 /\ 10 + 2 = 12
      OBVIOUS
    <3> QED BY <1>2, <1>5, <3>1 DEF ReadExtra
  <2>2. 12 <= Size /\ Byte(10) \in Nat /\ Byte(11) \in Nat
    BY <1>1, <1>2, <1>5 DEF ExtraLengthFits
  <2>3. InsideInv'
    BY <1>1, <1>2, <2>1, <2>2 DEF InsideInv
  <2>4. ASSUME NEW flags \in SUBSET Flags, NEW n \in Lengths \cup {0}, NEW payload \in Payloads,
               file = WholeFile(flags, n, payload)
        PROVE  pos' = NameAt(flags, n)
    <3>0. "extra" \in flags /\ n \in Nat /\ LaidOut(file.bytes, flags, n, payload)
      BY <1>5, <2>4, TheWhole DEF Flags
    <3>1. "extra" \in flags /\ n \in Nat /\ Byte(10) + 256 * Byte(11) = n
      <4>1. 10 + 1 = 11 /\ 11 + 1 = 12
        OBVIOUS
      <4> QED BY <3>0, <4>1 DEF LaidOut, Byte
    <3>2. NameAt(flags, n) = 10 + (n + 2)
      BY <3>1 DEF NameAt, SizeIf, kHeaderSize
    <3> QED BY <1>5, <2>1, <2>2, <3>1, <3>2
  <2>5. PlacedInv'
    BY <1>2, <2>1, <2>4 DEF PlacedInv
  <2> QED BY <1>2, <2>3, <2>5 DEF GzipInv
<1> QED BY <1>3, <1>4, <1>5

\* A text that stands where the walk has come is skipped to its end.
LEMMA TextSkipped ==
  ASSUME file.bytes \in Seq(Nat), NEW at \in Nat, NEW n \in Nat, at + n < Size,
         HasText(file.bytes, at, n)
  PROVE  SkipText(at) = at + (n + 1)
<1>1. Size \in Nat
  BY DEF Size
<1>2. at + n \in at..(Size - 1) /\ Byte(at + n) = 0
  BY <1>1 DEF Byte, HasText
<1>3. \A k \in at..(at + n - 1) : Byte(k) # 0
  <2> SUFFICES ASSUME NEW k \in at..(at + n - 1)
               PROVE  Byte(k) # 0
    OBVIOUS
  <2>1. k - at + 1 \in 1..n /\ at + (k - at + 1) = k + 1
    OBVIOUS
  <2>2. file.bytes[k + 1] = 9
    BY <2>1 DEF HasText
  <2> QED BY <2>2 DEF Byte
<1>4. FirstZero(at) = at + n
  BY <1>2, <1>3, ZeroFacts
<1> QED BY <1>4 DEF SkipText

\* A text skipped, or not there to skip, leaves the walk inside the file.
LEMMA TextInside ==
  ASSUME GzipInv, NEW flag \in {"name", "comment"}, NEW next \in {"comment", "payload"},
         ReadText(flag, next)
  PROVE  /\ file' = file /\ Size' = Size /\ stage = flag /\ stage' = next /\ result' = NoResult
         /\ pos' = IF Announced(flag) THEN SkipText(pos) ELSE pos
         /\ InsideInv'
<1>1. file.bytes \in Seq(Nat) /\ Size \in Nat /\ pos \in Nat /\ read \in Int /\ read < Size
  BY TheFile
<1>2. /\ file' = file /\ Size' = Size /\ stage = flag /\ stage' = next /\ result' = NoResult
      /\ pos' = IF Announced(flag) THEN SkipText(pos) ELSE pos
  BY DEF ReadText, Size, GzipInv, InsideInv
<1>3. FirstZero(pos) \in Nat
  BY <1>1, ZeroFacts
<1>4. pos' \in Nat
  BY <1>1, <1>2, <1>3 DEF SkipText
<1>5. read' \in Int /\ read' < Size
  <2>1. CASE Announced(flag)
    <3> DEFINE m == Min({FirstZero(pos), Size - 1})
    <3>1. m \in Int /\ m < Size
      <4>1. FirstZero(pos) \in Int /\ Size - 1 \in Int
        BY <1>1, <1>3
      <4>2. m \in {FirstZero(pos), Size - 1} /\ m <= Size - 1
        BY <4>1, MinOfTwo
      <4> HIDE DEF m
      <4> QED BY <1>1, <4>1, <4>2
    <3>2. read' = Max({read, m})
      BY <2>1 DEF ReadText
    <3> HIDE DEF m
    <3>3. Max({read, m}) \in {read, m}
      BY <1>1, <3>1, MaxOfTwo
    <3> QED BY <1>1, <3>1, <3>2, <3>3
  <2>2. CASE ~Announced(flag)
    BY <1>1, <2>2 DEF ReadText
  <2> QED BY <2>1, <2>2
<1>6. InsideInv'
  BY <1>2, <1>4, <1>5 DEF InsideInv
<1> QED BY <1>2, <1>6

LEMMA NameGzip ==
  ASSUME GzipInv, ReadText("name", "comment")
  PROVE  GzipInv'
<1>1. /\ file' = file /\ stage = "name" /\ stage' = "comment"
      /\ pos' = IF Announced("name") THEN SkipText(pos) ELSE pos
      /\ InsideInv'
  BY TextInside
<1>2. ASSUME NEW flags \in SUBSET Flags, NEW n \in Lengths \cup {0}, NEW payload \in Payloads,
             file = WholeFile(flags, n, payload)
      PROVE  pos' = CommentAt(flags, n)
  <2>1. /\ n \in Nat /\ payload \in Nat /\ (Announced("name") <=> "name" \in flags)
        /\ Size = PayloadAt(flags, n) + payload + kTrailerSize
        /\ LaidOut(file.bytes, flags, n, payload)
    BY <1>2, TheWhole DEF Flags
  <2>2. pos = NameAt(flags, n) /\ NameAt(flags, n) \in Nat /\ CommentAt(flags, n) \in Nat
    BY <1>1, <1>2, <2>1, PlaceFacts DEF GzipInv, PlacedInv
  <2>3. CASE "name" \notin flags
    BY <1>1, <2>1, <2>2, <2>3 DEF CommentAt, SizeIf
  <2>4. CASE "name" \in flags
    <3>1. CommentAt(flags, n) = NameAt(flags, n) + (n + 1)
      BY <2>4 DEF CommentAt, SizeIf
    <3>2. NameAt(flags, n) + n < Size
      BY <2>1, <2>2, <3>1, PlaceFacts DEF kTrailerSize
    <3>3. SkipText(NameAt(flags, n)) = NameAt(flags, n) + (n + 1)
      BY <2>1, <2>2, <2>4, <3>2, TheFile, TextSkipped DEF LaidOut
    <3> QED BY <1>1, <2>1, <2>2, <2>4, <3>1, <3>3
  <2> QED BY <2>3, <2>4
<1>3. PlacedInv'
  BY <1>1, <1>2 DEF PlacedInv
<1> QED BY <1>1, <1>3 DEF GzipInv

LEMMA CommentGzip ==
  ASSUME GzipInv, ReadText("comment", "payload")
  PROVE  GzipInv'
<1>1. /\ file' = file /\ stage = "comment" /\ stage' = "payload"
      /\ pos' = IF Announced("comment") THEN SkipText(pos) ELSE pos
      /\ InsideInv'
  BY TextInside
<1>2. ASSUME NEW flags \in SUBSET Flags, NEW n \in Lengths \cup {0}, NEW payload \in Payloads,
             file = WholeFile(flags, n, payload)
      PROVE  pos' = SumAt(flags, n)
  <2>1. /\ n \in Nat /\ payload \in Nat /\ (Announced("comment") <=> "comment" \in flags)
        /\ Size = PayloadAt(flags, n) + payload + kTrailerSize
        /\ LaidOut(file.bytes, flags, n, payload)
    BY <1>2, TheWhole DEF Flags
  <2>2. pos = CommentAt(flags, n) /\ CommentAt(flags, n) \in Nat /\ SumAt(flags, n) \in Nat
    BY <1>1, <1>2, <2>1, PlaceFacts DEF GzipInv, PlacedInv
  <2>3. CASE "comment" \notin flags
    BY <1>1, <2>1, <2>2, <2>3 DEF SumAt, SizeIf
  <2>4. CASE "comment" \in flags
    <3>1. SumAt(flags, n) = CommentAt(flags, n) + (n + 1)
      BY <2>4 DEF SumAt, SizeIf
    <3>2. CommentAt(flags, n) + n < Size
      BY <2>1, <2>2, <3>1, PlaceFacts DEF kTrailerSize
    <3>3. SkipText(CommentAt(flags, n)) = CommentAt(flags, n) + (n + 1)
      BY <2>1, <2>2, <2>4, <3>2, TheFile, TextSkipped DEF LaidOut
    <3> QED BY <1>1, <2>1, <2>2, <2>4, <3>1, <3>3
  <2> QED BY <2>3, <2>4
<1>3. PlacedInv'
  BY <1>1, <1>2 DEF PlacedInv
<1> QED BY <1>1, <1>3 DEF GzipInv

LEMMA PayloadGzip ==
  ASSUME GzipInv, FindPayload
  PROVE  GzipInv'
<1>1. file.bytes \in Seq(Nat) /\ Size \in Nat /\ pos \in Nat /\ read \in Int /\ read < Size
  BY TheFile
<1> DEFINE p == pos + (IF Announced("hcrc") THEN 2 ELSE 0)
<1>2. /\ stage = "payload" /\ file' = file /\ Size' = Size /\ pos' = p /\ stage' = "done"
      /\ NoRoom(p) => result' = Rejected /\ read' = read
      /\ ~NoRoom(p) => /\ result' = [from |-> p, len |-> Size - p - kTrailerSize]
                       /\ read' = Size - 1
  BY DEF FindPayload, Reject, Size
<1>3. p \in Nat
  BY <1>1
<1> HIDE DEF p
<1>4. InsideInv'
  <2>1. CASE NoRoom(p)
    BY <1>1, <1>2, <1>3, <2>1 DEF InsideInv
  <2>2. CASE ~NoRoom(p)
    <3>1. p + 8 <= Size
      BY <1>1, <1>3, <2>2 DEF NoRoom, kTrailerSize
    <3>2. result'.from = p /\ result'.len = Size - p - 8
      BY <1>2, <2>2 DEF kTrailerSize
    <3>3. result'.len >= 0 /\ result'.from + result'.len <= Size
      BY <1>1, <1>3, <3>1, <3>2
    <3> QED BY <1>1, <1>2, <1>3, <2>2, <3>3 DEF InsideInv
  <2> QED BY <2>1, <2>2
<1>5. ASSUME NEW flags \in SUBSET Flags, NEW n \in Lengths \cup {0}, NEW payload \in Payloads,
             file = WholeFile(flags, n, payload)
      PROVE  result' = [from |-> PayloadAt(flags, n), len |-> payload]
  <2>1. /\ n \in Nat /\ payload \in Nat /\ (Announced("hcrc") <=> "hcrc" \in flags)
        /\ Size = PayloadAt(flags, n) + payload + kTrailerSize
    BY <1>5, TheWhole DEF Flags
  <2>2. pos = SumAt(flags, n) /\ PayloadAt(flags, n) \in Nat
    BY <1>2, <1>5, <2>1, PlaceFacts DEF GzipInv, PlacedInv
  <2>3. p = PayloadAt(flags, n)
    BY <2>1, <2>2 DEF p, PayloadAt, SizeIf
  <2>4. ~NoRoom(p) /\ Size - p - kTrailerSize = payload
    BY <2>1, <2>2, <2>3 DEF NoRoom, kTrailerSize
  <2> QED BY <1>2, <2>3, <2>4
<1>6. PlacedInv'
  BY <1>2, <1>5 DEF PlacedInv
<1> QED BY <1>2, <1>4, <1>6 DEF GzipInv

LEMMA NextFileGzip ==
  ASSUME GzipInv, NextFile
  PROVE  GzipInv'
<1>1. Size \in Nat
  BY TheFile
<1>2. file' = file /\ Size' = Size /\ pos' = 0 /\ stage' = "magic" /\ read' = -1 /\ result' = NoResult
  BY DEF NextFile, Size
<1>3. InsideInv'
  BY <1>1, <1>2 DEF InsideInv
<1>4. PlacedInv'
  BY <1>2 DEF PlacedInv
<1> QED BY <1>2, <1>3, <1>4 DEF GzipInv

LEMMA AlwaysGzip == Spec => []GzipInv
<1>1. ASSUME GzipInv, [Next]_vars
      PROVE  GzipInv'
  <2>1. CASE ReadMagic
    BY <1>1, <2>1, MagicGzip
  <2>2. CASE ReadExtra
    BY <1>1, <2>2, ExtraGzip
  <2>3. CASE ReadText("name", "comment")
    BY <1>1, <2>3, NameGzip
  <2>4. CASE ReadText("comment", "payload")
    BY <1>1, <2>4, CommentGzip
  <2>5. CASE FindPayload
    BY <1>1, <2>5, PayloadGzip
  <2>6. CASE NextFile
    BY <1>1, <2>6, NextFileGzip
  <2>7. CASE UNCHANGED vars
    BY <1>1, <2>7, StutterGzip
  <2> QED BY <1>1, <2>1, <2>2, <2>3, <2>4, <2>5, <2>6, <2>7 DEF Next
<1> QED BY <1>1, InitGzip, PTL DEF Spec

\* Decompress never reads past the end of a file, and the length it hands to
\* the inflater never wraps, whatever members the file announces and wherever
\* it was cut off (Gzip.cpp:61-91).
THEOREM AlwaysReadsInside == Spec => []ReadsInside
<1>1. GzipInv => ReadsInside
  <2> SUFFICES ASSUME GzipInv
               PROVE  ReadsInside
    OBVIOUS
  <2>1. read < Size
    BY TheFile
  <2>2. result \notin {NoResult, Rejected} => result.len >= 0 /\ result.from + result.len <= Size
    BY DEF GzipInv, InsideInv
  <2> QED BY <2>1, <2>2 DEF ReadsInside
<1> QED BY <1>1, AlwaysGzip, PTL

\* Of a member written whole exactly the payload is inflated, whichever of the
\* optional members precede it and however long they are (Gzip.cpp:66-91).
THEOREM PayloadAlwaysFound == Spec => []PayloadFound
<1>1. GzipInv => PayloadFound
  <2> SUFFICES ASSUME GzipInv, stage = "done", file.cut = 0
               PROVE  result = [from |-> file.start, len |-> Size - file.start - kTrailerSize]
    BY DEF PayloadFound
  <2>1. PICK flags \in SUBSET Flags, n \in Lengths \cup {0}, payload \in Payloads :
               file = WholeFile(flags, n, payload)
    BY FileFacts DEF GzipInv
  <2>2. result = [from |-> PayloadAt(flags, n), len |-> payload]
    BY <2>1 DEF GzipInv, PlacedInv
  <2>3. /\ n \in Nat /\ payload \in Nat /\ file.start = PayloadAt(flags, n)
        /\ Size = PayloadAt(flags, n) + payload + kTrailerSize
    BY <2>1, TheWhole
  <2>4. Size - file.start - kTrailerSize = payload
    BY <2>3, PlaceFacts DEF kTrailerSize
  <2> QED BY <2>2, <2>3, <2>4
<1> QED BY <1>1, AlwaysGzip, PTL

============================================================================
