-------------------------- MODULE FileCommandsProofs --------------------------
(***************************************************************************)
(* The four invariants of FileCommands hold in every world.  What one      *)
(* handler answers is right by itself (HandlerRight), which rests on the   *)
(* round trip of the text formats and on the rekeying of feature sets;     *)
(* that the commands leave it so is four inductive layers: how far the     *)
(* command is (Progress), what each file holds (Whole), what the folders   *)
(* done have left and counted (Totals), and that no fixture of theirs is   *)
(* lost (Lasting).                                                         *)
(***************************************************************************)
EXTENDS FileCommands, DataLemmas, FiniteSetTheorems, TLAPS

(***************************************************************************)
(* decode_hex_compact reads the parts one after the other.                 *)
(***************************************************************************)
Piece(p) == IF p[1] = "hex" THEN p[2] ELSE Zeros(p[2][1])

\* A part of compact text is read as bytes.
LEMMA PieceType == \A p \in Part : Piece(p) \in Seq(Nat)
<1> SUFFICES ASSUME NEW p \in Part PROVE Piece(p) \in Seq(Nat)
  OBVIOUS
<1>1. CASE p \in {"hex"} \X Seq(Nat)
  BY <1>1 DEF Piece
<1>2. CASE p \in {"zeros"} \X [1..1 -> Nat]
  <2>1. p[1] # "hex" /\ p[2][1] \in Nat
    BY <1>2
  <2> DEFINE n == p[2][1]
  <2>2. [i \in 1..n |-> 0] \in [1..n -> Nat]
    OBVIOUS
  <2> QED
    BY <2>1, <2>2 DEF Piece, Zeros
<1> QED
  BY <1>1, <1>2 DEF Part

\* One more part adds the bytes it stands for.
LEMMA DecodeAppend ==
    ASSUME NEW text \in Seq(Part), NEW p \in Part
    PROVE  /\ DecodeHexCompact(text) \in Seq(Nat)
           /\ DecodeHexCompact(Append(text, p)) = DecodeHexCompact(text) \o Piece(p)
<1> DEFINE pieces(t) == [i \in DOMAIN t |-> Piece(t[i])]
<1>1. ASSUME NEW t \in Seq(Part)
      PROVE  pieces(t) \in Seq(Seq(Nat)) /\ DecodeHexCompact(t) = FlattenSeq(pieces(t))
  <2>1. \A i \in 1..Len(t) : Piece(t[i]) \in Seq(Nat)
    BY PieceType
  <2>2. pieces(t) \in [1..Len(t) -> Seq(Nat)] /\ Len(t) \in Nat
    BY <2>1
  <2> QED
    BY <2>2 DEF DecodeHexCompact, Piece
<1>2. Append(text, p) \in Seq(Part)
  OBVIOUS
<1>3. pieces(Append(text, p)) = Append(pieces(text), Piece(p))
  <2> DEFINE n == Len(text)
             more == Append(text, p)
  <2>1. /\ n \in Nat /\ DOMAIN more = 1..(n + 1) /\ DOMAIN text = 1..n
        /\ more[n + 1] = p /\ \A i \in 1..n : more[i] = text[i]
    BY AppendProperties
  <2>2. Len(pieces(text)) = n /\ pieces(text) \in Seq(Seq(Nat))
    BY <1>1
  <2>3. Piece(p) \in Seq(Nat)
    BY PieceType
  <2> DEFINE left == pieces(more)
             right == Append(pieces(text), Piece(p))
  <2>4. DOMAIN left = 1..(n + 1) /\ DOMAIN right = 1..(n + 1)
    BY <2>1, <2>2, <2>3
  <2>5. \A i \in 1..(n + 1) : left[i] = right[i]
    <3> SUFFICES ASSUME NEW i \in 1..(n + 1) PROVE left[i] = right[i]
      OBVIOUS
    <3>1. CASE i = n + 1
      <4>1. right[n + 1] = Piece(p)
        BY <2>2, <2>3, AppendProperties
      <4> QED
        BY <2>1, <3>1, <4>1
    <3>2. CASE i # n + 1
      <4>1. i \in 1..n
        BY <2>1, <3>2
      <4>2. right[i] = pieces(text)[i]
        BY <2>2, <2>3, <4>1, AppendProperties
      <4>3. pieces(text)[i] = Piece(text[i])
        BY <2>1, <4>1
      <4>4. left[i] = Piece(more[i])
        BY <2>1
      <4> QED
        BY <2>1, <4>1, <4>2, <4>3, <4>4
    <3> QED
      BY <3>1, <3>2
  <2>6. left = [i \in 1..(n + 1) |-> left[i]] /\ right \in Seq(Seq(Nat))
    BY <2>1, <2>2, <2>3
  <2>7. right = [i \in 1..(n + 1) |-> right[i]]
    BY <2>4, <2>6
  <2> HIDE DEF left, right
  <2>8. left = right
    BY <2>5, <2>6, <2>7
  <2> QED
    BY <2>8 DEF left, right
<1> HIDE DEF pieces
<1>4. FlattenSeq(pieces(text)) \in Seq(Nat)
  BY <1>1, FlattenRange
<1>5. FlattenSeq(Append(pieces(text), Piece(p))) = FlattenSeq(pieces(text)) \o Piece(p)
  BY <1>1, PieceType, FlattenAppend
<1> QED
  BY <1>1, <1>2, <1>3, <1>4, <1>5

\* Two runs of zeros in a row are one.
LEMMA ConcatenatedZeros ==
    ASSUME NEW m \in Nat, NEW n \in Nat
    PROVE  Zeros(m) \in Seq(Nat) /\ Len(Zeros(m)) = m /\ Zeros(m) \o Zeros(n) = Zeros(m + n)
<1>1. \A k \in Nat : Zeros(k) \in Seq(Nat) /\ Len(Zeros(k)) = k /\ \A i \in 1..k : Zeros(k)[i] = 0
  <2> SUFFICES ASSUME NEW k \in Nat
               PROVE  Zeros(k) \in Seq(Nat) /\ Len(Zeros(k)) = k /\ \A i \in 1..k : Zeros(k)[i] = 0
    OBVIOUS
  <2>1. Zeros(k) \in [1..k -> Nat] /\ \A i \in 1..k : Zeros(k)[i] = 0
    BY DEF Zeros
  <2> QED
    BY <2>1
<1> DEFINE both == Zeros(m) \o Zeros(n)
<1>2. /\ both \in Seq(Nat) /\ Len(both) = m + n
      /\ \A i \in 1..(m + n) : both[i] = 0
  <2>1. Zeros(m) \in Seq(Nat) /\ Zeros(n) \in Seq(Nat) /\ Len(Zeros(m)) = m /\ Len(Zeros(n)) = n
    BY <1>1
  <2>2. both \in Seq(Nat) /\ Len(both) = m + n
    BY <2>1, ConcatProperties
  <2>3. ASSUME NEW i \in 1..(m + n) PROVE both[i] = 0
    <3>0. \A j \in 1..(Len(Zeros(m)) + Len(Zeros(n))) :
             both[j] = IF j <= Len(Zeros(m)) THEN Zeros(m)[j] ELSE Zeros(n)[j - Len(Zeros(m))]
      BY <2>1, ConcatProperties
    <3> HIDE DEF both
    <3>1. CASE i <= m
      <4>1. both[i] = Zeros(m)[i]
        BY <2>1, <2>3, <3>0, <3>1
      <4> QED
        BY <1>1, <3>1, <4>1
    <3>2. CASE ~(i <= m)
      <4>1. both[i] = Zeros(n)[i - m]
        BY <2>1, <2>3, <3>0, <3>2
      <4>2. i - m \in 1..n
        BY <3>2
      <4> QED
        BY <1>1, <4>1, <4>2
    <3> QED
      BY <3>1, <3>2
  <2> QED
    BY <2>2, <2>3
<1> HIDE DEF both
<1>3. both = [i \in 1..(m + n) |-> 0]
  BY <1>2
<1> QED
  BY <1>1, <1>3 DEF both, Zeros

(***************************************************************************)
(* A run of zeros that is written is read back, and so is none.            *)
(***************************************************************************)
LEMMA DecodeSkipped ==
    ASSUME NEW text \in Seq(Part), NEW n \in Nat
    PROVE  /\ text \o Skipped(n) \in Seq(Part)
           /\ DecodeHexCompact(text \o Skipped(n)) = DecodeHexCompact(text) \o Zeros(n)
<1>0. DecodeHexCompact(text) \in Seq(Nat)
  <2>1. <<"hex", << >> >> \in Part
    <3>1. << >> \in Seq(Nat)
      BY EmptySeq
    <3> QED
      BY <3>1 DEF Part
  <2> QED
    BY <2>1, DecodeAppend
<1>1. CASE n = 0
  <2>1. Zeros(n) = << >> /\ Skipped(n) = << >>
    <3>1. Len(Zeros(n)) = 0 /\ Zeros(n) \in Seq(Nat)
      BY <1>1, ConcatenatedZeros
    <3>2. Zeros(n) = << >>
      BY <3>1, EmptySeq
    <3> QED
      BY <1>1, <3>2 DEF Skipped
  <2>2. text \o << >> = text /\ DecodeHexCompact(text) \o << >> = DecodeHexCompact(text)
    BY <1>0, ConcatEmptySeq
  <2> QED
    BY <2>1, <2>2
<1>2. CASE n # 0
  <2> DEFINE p == <<"zeros", <<n>> >>
  <2>1. p \in Part /\ Piece(p) = Zeros(n)
    <3>1. <<n>> \in [1..1 -> Nat] /\ p[1] = "zeros" /\ p[2][1] = n
      OBVIOUS
    <3> QED
      BY <3>1 DEF Part, Piece
  <2>2. Skipped(n) = <<p>>
    BY <1>2 DEF Skipped
  <2> HIDE DEF p
  <2>3. text \o <<p>> = Append(text, p) /\ Append(text, p) \in Seq(Part)
    BY <2>1
  <2> QED
    BY <2>1, <2>2, <2>3, DecodeAppend
<1> QED
  BY <1>1, <1>2

(***************************************************************************)
(* The rows of buf: row i ends at RowEnd(buf, i), where row i + 1 begins.  *)
(***************************************************************************)
RowEnd(buf, i) == IF i * Gap < Len(buf) THEN i * Gap ELSE Len(buf)

\* The rows encode_hex_compact cuts the bytes into cover all of them.
LEMMA RowsCover ==
    ASSUME NEW buf \in Seq(Nat)
    PROVE  /\ Len(Rows(buf)) \in Nat /\ DOMAIN Rows(buf) = 1..Len(Rows(buf))
           /\ RowEnd(buf, 0) = 0
           /\ RowEnd(buf, Len(Rows(buf))) = Len(buf)
           /\ \A i \in 1..Len(Rows(buf)) :
                 /\ RowEnd(buf, i - 1) \in 0..Len(buf) /\ RowEnd(buf, i) \in 0..Len(buf)
                 /\ RowEnd(buf, i - 1) <= RowEnd(buf, i)
                 /\ Rows(buf)[i] = SubSeq(buf, RowEnd(buf, i - 1) + 1, RowEnd(buf, i))
<1> DEFINE len == Len(buf)
           n == (len + Gap - 1) \div Gap
<1>1. len \in Nat /\ Gap \in Nat /\ Gap # 0
  BY CodecsAssumption
<1> HIDE DEF len
<1>2. n \in Nat /\ n * Gap <= len + Gap - 1 /\ len + Gap - 1 < n * Gap + Gap
  <2>1. len + Gap - 1 \in Nat
    BY <1>1
  <2> QED
    BY <1>1, <2>1 DEF n
<1> HIDE DEF n
<1>3. Rows(buf) = [i \in 1..n |-> SubSeq(buf, (i - 1) * Gap + 1, RowEnd(buf, i))]
  BY DEF Rows, RowEnd, n, len
<1>4. Len(Rows(buf)) = n /\ DOMAIN Rows(buf) = 1..n
  BY <1>2, <1>3
<1>5. RowEnd(buf, 0) = 0 /\ RowEnd(buf, n) = len
  <2>1. 0 * Gap = 0
    BY <1>1
  <2>2. n * Gap \in Nat
    BY <1>1, <1>2
  <2> QED
    BY <1>1, <1>2, <2>1, <2>2 DEF RowEnd, len
<1>6. ASSUME NEW i \in 1..n
      PROVE  /\ RowEnd(buf, i - 1) = (i - 1) * Gap
             /\ RowEnd(buf, i - 1) \in 0..len /\ RowEnd(buf, i) \in 0..len
             /\ RowEnd(buf, i - 1) <= RowEnd(buf, i)
  <2> DEFINE a == (i - 1) * Gap
             b == i * Gap
             c == n * Gap
  <2>1. a \in Nat /\ b \in Nat /\ b = a + Gap
    <3>1. i \in Nat /\ i - 1 \in Nat
      BY <1>2
    <3>2. b = a + Gap
      BY <1>1, <3>1
    <3> QED
      BY <1>1, <3>1, <3>2
  <2>2. b <= c
    BY <1>1, <1>2
  <2>3. c <= len + Gap - 1 /\ c \in Nat
    BY <1>1, <1>2
  <2> HIDE DEF a, b, c
  <2>4. a < len
    BY <1>1, <2>1, <2>2, <2>3
  <2>5. RowEnd(buf, i - 1) = a /\ RowEnd(buf, i) = IF b < len THEN b ELSE len
    BY <2>4 DEF RowEnd, a, b, len
  <2> QED
    BY <1>1, <2>1, <2>4, <2>5 DEF a
<1>7. ASSUME NEW i \in 1..n
      PROVE  Rows(buf)[i] = SubSeq(buf, RowEnd(buf, i - 1) + 1, RowEnd(buf, i))
  BY <1>3, <1>6
<1> QED
  BY <1>2, <1>4, <1>5, <1>6, <1>7 DEF len

(***************************************************************************)
(* Concatenating bytes in another order.                                   *)
(***************************************************************************)
LEMMA Regrouped ==
    \A a, b, c \in Seq(Nat) : (a \o b) \o c = a \o (b \o c)
<1> SUFFICES ASSUME NEW a \in Seq(Nat), NEW b \in Seq(Nat), NEW c \in Seq(Nat)
             PROVE  (a \o b) \o c = a \o (b \o c)
  OBVIOUS
<1> DEFINE n == Len(a) + Len(b) + Len(c)
           left == (a \o b) \o c
           right == a \o (b \o c)
<1>1. \A i \in 1..n : left[i] = right[i]
  OBVIOUS
<1>2. left \in Seq(Nat) /\ right \in Seq(Nat) /\ Len(left) = n /\ Len(right) = n
  OBVIOUS
<1> HIDE DEF left, right
<1>3. left = right
  BY <1>1, <1>2, SeqEqual
<1> QED
  BY <1>3 DEF left, right

(***************************************************************************)
(* What Row makes of the text so far: it reads one row further.            *)
(***************************************************************************)
Encoding == [text : Seq(Part), skipped : Nat]

Reads(done) == DecodeHexCompact(done.text) \o Zeros(done.skipped)

\* A row is written as parts that are read back as its bytes.
LEMMA RowReads ==
    ASSUME NEW done \in Encoding, NEW row \in Seq(Nat)
    PROVE  Row(done, row) \in Encoding /\ Reads(Row(done, row)) = Reads(done) \o row
<1> DEFINE text == done.text
           skipped == done.skipped
<1>1. text \in Seq(Part) /\ skipped \in Nat /\ Len(row) \in Nat
  BY DEF Encoding
<1> HIDE DEF text, skipped
<1>2. text \o Skipped(skipped) \in Seq(Part)
      /\ DecodeHexCompact(text \o Skipped(skipped)) = DecodeHexCompact(text) \o Zeros(skipped)
  BY <1>1, DecodeSkipped
<1>3. <<"hex", row>> \in Part /\ Piece(<<"hex", row>>) = row
  BY DEF Part, Piece
<1>4. DecodeHexCompact(text) \in Seq(Nat)
  BY <1>1, <1>3, DecodeAppend
<1>5. CASE row = Zeros(Len(row))
  <2> DEFINE next == [text |-> text, skipped |-> skipped + Len(row)]
  <2>1. Row(done, row) = next
    BY <1>5 DEF Row, text, skipped
  <2>2. next \in Encoding
    BY <1>1 DEF Encoding
  <2>3. Zeros(skipped) \o Zeros(Len(row)) = Zeros(skipped + Len(row)) /\ Zeros(skipped) \in Seq(Nat)
    BY <1>1, ConcatenatedZeros
  <2>4. Reads(next) = DecodeHexCompact(text) \o (Zeros(skipped) \o row)
    <3>1. next.text = text /\ next.skipped = skipped + Len(row)
      OBVIOUS
    <3> HIDE DEF next
    <3>2. Reads(next) = DecodeHexCompact(text) \o Zeros(skipped + Len(row))
      BY <3>1 DEF Reads
    <3> QED
      BY <1>5, <2>3, <3>2
  <2>5. (DecodeHexCompact(text) \o Zeros(skipped)) \o row = DecodeHexCompact(text) \o (Zeros(skipped) \o row)
    <3>1. Zeros(skipped) \in Seq(Nat)
      BY <2>3
    <3> QED
      BY ONLY <1>4, <3>1, Regrouped, row \in Seq(Nat)
  <2>6. Reads(done) = DecodeHexCompact(text) \o Zeros(skipped)
    BY DEF Reads, text, skipped
  <2> HIDE DEF next
  <2> QED
    BY <2>1, <2>2, <2>4, <2>5, <2>6
<1>6. CASE row # Zeros(Len(row))
  <2> DEFINE new == text \o Skipped(skipped)
             part == <<"hex", row>>
             next == [text |-> new \o <<part>>, skipped |-> 0]
  <2>1. Row(done, row) = next
    BY <1>6 DEF Row, text, skipped
  <2> HIDE DEF new, part
  <2>2. new \in Seq(Part) /\ part \in Part /\ Piece(part) = row
    BY <1>2, <1>3 DEF new, part
  <2>3. new \o <<part>> = Append(new, part) /\ Append(new, part) \in Seq(Part)
    BY <2>2
  <2>4. DecodeHexCompact(Append(new, part)) = DecodeHexCompact(new) \o row
    BY <2>2, DecodeAppend
  <2>5. DecodeHexCompact(Append(new, part)) \in Seq(Nat)
    BY <2>2, <2>3, DecodeAppend
  <2>6. Zeros(0) = << >>
    <3>1. Len(Zeros(0)) = 0 /\ Zeros(0) \in Seq(Nat)
      BY ConcatenatedZeros
    <3> QED
      BY <3>1, EmptySeq
  <2>7. next \in Encoding
    BY <2>3 DEF Encoding
  <2>8. Reads(next) = DecodeHexCompact(Append(new, part)) \o << >>
    BY <2>3, <2>6 DEF Reads
  <2>9. Reads(next) = DecodeHexCompact(new) \o row
    BY <2>4, <2>5, <2>8, ConcatEmptySeq
  <2>10. DecodeHexCompact(new) = Reads(done)
    BY <1>2 DEF Reads, new, text, skipped
  <2> HIDE DEF next
  <2> QED
    BY <2>1, <2>7, <2>9, <2>10
<1> QED
  BY <1>5, <1>6

(***************************************************************************)
(* Two adjoining pieces of a sequence make one.                            *)
(***************************************************************************)
LEMMA SubSeqJoins ==
    ASSUME NEW S, NEW s \in Seq(S), NEW m \in 0..Len(s), NEW n \in m..Len(s)
    PROVE  SubSeq(s, 1, m) \o SubSeq(s, m + 1, n) = SubSeq(s, 1, n)
<1> DEFINE a == SubSeq(s, 1, m)
           b == SubSeq(s, m + 1, n)
           c == SubSeq(s, 1, n)
<1>1. /\ a \in Seq(S) /\ Len(a) = m
      /\ \A i \in 1..m : a[i] = s[i]
  OBVIOUS
<1>2. /\ c \in Seq(S) /\ Len(c) = n
      /\ \A i \in 1..n : c[i] = s[i]
  OBVIOUS
<1>3. /\ b \in Seq(S) /\ Len(b) = n - m
      /\ \A i \in 1..(n - m) : b[i] = s[m + i]
  OBVIOUS
<1> HIDE DEF a, b, c
<1>4. /\ a \o b \in Seq(S) /\ Len(a \o b) = n
      /\ \A i \in 1..n : (a \o b)[i] = s[i]
  <2>1. /\ a \o b \in Seq(S) /\ Len(a \o b) = Len(a) + Len(b)
        /\ \A i \in 1..(Len(a) + Len(b)) : (a \o b)[i] = IF i <= Len(a) THEN a[i] ELSE b[i - Len(a)]
    BY <1>1, <1>3, ConcatProperties
  <2>2. Len(a) + Len(b) = n
    BY <1>1, <1>3
  <2>3. ASSUME NEW i \in 1..n PROVE (a \o b)[i] = s[i]
    <3>1. CASE i <= m
      BY <1>1, <2>1, <2>2, <3>1
    <3>2. CASE ~(i <= m)
      <4>1. i - m \in 1..(n - m) /\ m + (i - m) = i
        BY <3>2
      <4>2. (a \o b)[i] = b[i - m]
        BY <1>1, <2>1, <2>2, <3>2
      <4> QED
        BY <1>3, <4>1, <4>2
    <3> QED
      BY <3>1, <3>2
  <2> QED
    BY <2>1, <2>2, <2>3
<1>5. a \o b = c
  <2>1. Len(a \o b) = Len(c) /\ \A i \in 1..Len(c) : (a \o b)[i] = c[i]
    BY <1>2, <1>4
  <2> QED
    BY <1>2, <1>4, <2>1, SeqEqual
<1> QED
  BY <1>5 DEF a, b, c

(***************************************************************************)
(* Decoding what was encoded gives the data again, whatever they are.      *)
(***************************************************************************)
THEOREM HexReadsBack ==
    ASSUME NEW buf \in Seq(Nat)
    PROVE  /\ EncodeHexCompact(buf) \in Seq(Part)
           /\ DecodeHexCompact(EncodeHexCompact(buf)) = buf
<1> DEFINE rows == Rows(buf)
           n == Len(rows)
           base == [text |-> << >>, skipped |-> 0]
           Encodes(f) == f = [i \in 0..n |-> IF i = 0 THEN base ELSE Row(f[i - 1], rows[i])]
           done == CHOOSE f : Encodes(f)
<1>1. EncodeHexCompact(buf) = done[n].text \o Skipped(done[n].skipped)
  BY DEF EncodeHexCompact
<1>2. /\ n \in Nat
      /\ RowEnd(buf, 0) = 0 /\ RowEnd(buf, n) = Len(buf)
      /\ \A i \in 1..n :
            /\ RowEnd(buf, i - 1) \in 0..Len(buf) /\ RowEnd(buf, i) \in 0..Len(buf)
            /\ RowEnd(buf, i - 1) <= RowEnd(buf, i)
            /\ rows[i] = SubSeq(buf, RowEnd(buf, i - 1) + 1, RowEnd(buf, i))
  BY RowsCover
<1> HIDE DEF rows, n
<1>3. \A i \in 1..n : rows[i] \in Seq(Nat)
  <2> SUFFICES ASSUME NEW i \in 1..n PROVE rows[i] \in Seq(Nat)
    OBVIOUS
  <2> DEFINE l == RowEnd(buf, i - 1)
             r == RowEnd(buf, i)
  <2>1. l \in 0..Len(buf) /\ r \in 0..Len(buf) /\ rows[i] = SubSeq(buf, l + 1, r)
    BY <1>2
  <2> HIDE DEF l, r
  <2>2. \A k \in (l + 1)..r : buf[k] \in Nat
    BY <2>1
  <2> QED
    BY <2>1, <2>2, SubSeqProperties
<1>4. base \in Encoding /\ Reads(base) = SubSeq(buf, 1, 0)
  <2>1. << >> \in Seq(Part) /\ << >> \in Seq(Nat)
    BY EmptySeq
  <2>2. Zeros(0) = << >>
    <3>1. Len(Zeros(0)) = 0 /\ Zeros(0) \in Seq(Nat)
      BY ConcatenatedZeros
    <3> QED
      BY <3>1, EmptySeq
  <2>3. DecodeHexCompact(<< >>) = << >>
    BY DEF DecodeHexCompact, FlattenSeq
  <2>4. SubSeq(buf, 1, 0) = << >>
    OBVIOUS
  <2>5. << >> \o << >> = << >>
    BY <2>1, ConcatEmptySeq
  <2> QED
    BY <2>1, <2>2, <2>3, <2>4, <2>5 DEF Encoding, Reads
<1> HIDE DEF base
<1>5. Encodes(done)
  <2> DEFINE step == [z \in Encoding \X (1..n) |-> Row(z[1], rows[z[2]])]
  <2>1. step \in [Encoding \X (1..n) -> Encoding]
    BY <1>3, RowReads
  <2> HIDE DEF step
  <2>2. PICK f \in [0..n -> Encoding] : RecursesTo(f, base, step, n)
    BY <1>2, <1>4, <2>1, RecursionExists
  <2>3. Encodes(f)
    <3>1. ASSUME NEW i \in 0..n, i # 0 PROVE step[<<f[i - 1], i>>] = Row(f[i - 1], rows[i])
      <4> DEFINE z == <<f[i - 1], i>>
      <4>1. z \in Encoding \X (1..n) /\ z[1] = f[i - 1] /\ z[2] = i
        <5>1. i - 1 \in 0..n /\ i \in 1..n
          BY <1>2, <3>1
        <5> QED
          BY <2>2, <5>1
      <4> HIDE DEF z
      <4>2. step[z] = Row(z[1], rows[z[2]])
        BY <4>1 DEF step
      <4> QED
        BY <4>1, <4>2 DEF z
    <3>2. f = [i \in 0..n |-> IF i = 0 THEN base ELSE step[<<f[i - 1], i>>]]
      BY <2>2 DEF RecursesTo
    <3> QED
      BY <3>1, <3>2
  <2> HIDE DEF Encodes
  <2> QED
    BY <2>3
<1> HIDE DEF done
<1>6. \A i \in 0..n : done[i] = IF i = 0 THEN base ELSE Row(done[i - 1], rows[i])
  BY <1>5
<1> HIDE DEF Encodes
<1> DEFINE Good(i) == done[i] \in Encoding /\ Reads(done[i]) = SubSeq(buf, 1, RowEnd(buf, i))
           P == {i \in 0..n : Good(i)}
<1>7. 0 \in P
  <2>1. 0 \in 0..n
    BY <1>2
  <2>2. done[0] = base
    BY <1>6, <2>1
  <2>3. Good(0)
    BY <1>2, <1>4, <2>2
  <2> QED
    BY <2>1, <2>3
<1>8. ASSUME NEW i \in 1..n, i - 1 \in P PROVE i \in P
  <2> DEFINE l == RowEnd(buf, i - 1)
             r == RowEnd(buf, i)
  <2>1. done[i - 1] \in Encoding /\ Reads(done[i - 1]) = SubSeq(buf, 1, l)
    BY <1>8
  <2>2. done[i] = Row(done[i - 1], rows[i])
    BY <1>2, <1>6
  <2>3. done[i] \in Encoding /\ Reads(done[i]) = Reads(done[i - 1]) \o rows[i]
    BY <1>3, <2>1, <2>2, RowReads
  <2>4. l \in 0..Len(buf) /\ r \in l..Len(buf) /\ rows[i] = SubSeq(buf, l + 1, r)
    <3>1. l \in 0..Len(buf) /\ r \in 0..Len(buf) /\ l <= r /\ rows[i] = SubSeq(buf, l + 1, r)
      BY <1>2
    <3> HIDE DEF l, r
    <3> QED
      BY <3>1
  <2> HIDE DEF l, r
  <2>5. SubSeq(buf, 1, l) \o SubSeq(buf, l + 1, r) = SubSeq(buf, 1, r)
    BY <2>4, SubSeqJoins
  <2>6. Reads(done[i]) = SubSeq(buf, 1, r)
    BY <2>1, <2>3, <2>4, <2>5
  <2> QED
    BY <1>2, <2>3, <2>6 DEF r
<1> HIDE DEF P
<1>9. n \in P
  <2>1. \A i \in 0..n : i \in P
    BY <1>2, <1>7, <1>8, UpTo
  <2> QED
    BY <1>2, <2>1
<1>10. done[n] \in Encoding /\ Reads(done[n]) = SubSeq(buf, 1, Len(buf))
  BY <1>2, <1>9 DEF P
<1>11. SubSeq(buf, 1, Len(buf)) = buf
  OBVIOUS
<1> DEFINE text == done[n].text
           skipped == done[n].skipped
<1>12. text \in Seq(Part) /\ skipped \in Nat
  BY <1>10 DEF Encoding
<1>13. Reads(done[n]) = DecodeHexCompact(text) \o Zeros(skipped)
  BY DEF Reads
<1> HIDE DEF text, skipped
<1>14. text \o Skipped(skipped) \in Seq(Part)
       /\ DecodeHexCompact(text \o Skipped(skipped)) = DecodeHexCompact(text) \o Zeros(skipped)
  BY <1>12, DecodeSkipped
<1> QED
  BY <1>1, <1>10, <1>11, <1>13, <1>14 DEF text, skipped

\* What decode_hex_compact returns is a sequence of bytes.
LEMMA DecodeType == \A text \in Seq(Part) : DecodeHexCompact(text) \in Seq(Nat)
<1> SUFFICES ASSUME NEW text \in Seq(Part) PROVE DecodeHexCompact(text) \in Seq(Nat)
  OBVIOUS
<1>1. << >> \in Seq(Nat)
  BY EmptySeq
<1>2. <<"hex", << >> >> \in Part
  BY <1>1 DEF Part
<1> QED
  BY <1>2, DecodeAppend

(***************************************************************************)
(* A field as a context has it, given the rule it is converted by.         *)
(***************************************************************************)
Optional == {"key?", "hex?", "variant?"}
Conversions == {"key", "key or zeros", "hex"} \cup Optional

IsField(how, v) ==
    \/ how \notin Conversions
    \/ how \in Optional /\ v.of = << >>
    \/ v = Bytes(v.of) /\ (how \in {"hex", "hex?"} => v.of \in Seq(Nat))

\* A field that is converted, and converted back, is that field again.
LEMMA FieldReadsBack ==
    ASSUME NEW how, NEW v, IsField(how, v), EncodeField(how, v) # Malformed
    PROVE  DecodeField(how, EncodeField(how, v)) =
              IF how = "key or zeros" /\ v.of = << >> THEN Bytes(Zeros(KeyLength)) ELSE v
<1>1. CASE how \notin Conversions
  <2>1. EncodeField(how, v) = v /\ DecodeField(how, v) = v
    BY <1>1 DEF EncodeField, DecodeField, Conversions, Optional
  <2> QED
    BY <1>1, <2>1 DEF Conversions
<1>2. CASE how \in Optional /\ v.of = << >>
  <2>1. EncodeField(how, v) = v /\ DecodeField(how, v) = v
    BY <1>2 DEF EncodeField, DecodeField, Optional
  <2> QED
    BY <1>2, <2>1 DEF Optional
<1>3. CASE /\ how \in Conversions /\ ~(how \in Optional /\ v.of = << >>)
           /\ v = Bytes(v.of) /\ (how \in {"hex", "hex?"} => v.of \in Seq(Nat))
  <2> DEFINE b == v.of
             e == EncodeField(how, v)
  <2>1. CASE how \in {"key", "key?"}
    <3>1. e = Enc32(b)
      BY <1>3, <2>1 DEF EncodeField, Optional
    <3>2. Len(b) = KeyLength /\ e = [as |-> "base58", of |-> b]
      BY <3>1 DEF Enc32
    <3>3. DecodeField(how, e) = Bytes(b)
      <4>1. e.as = "base58" /\ e.of = b
        BY <3>2
      <4> HIDE DEF b, e
      <4> QED
        BY <1>3, <2>1, <4>1 DEF DecodeField, Optional, b
    <3> QED
      BY <1>3, <2>1, <3>3
  <2>2. CASE how = "key or zeros"
    <3> DEFINE key == IF b = << >> THEN Zeros(KeyLength) ELSE b
    <3>1. e = Enc32(key)
      BY <2>2 DEF EncodeField
    <3> HIDE DEF key
    <3>2. e = [as |-> "base58", of |-> key]
      BY <3>1 DEF Enc32
    <3>3. DecodeField(how, e) = Bytes(key)
      <4>1. e.as = "base58" /\ e.of = key
        BY <3>2
      <4> HIDE DEF b, e
      <4> QED
        BY <2>2, <4>1 DEF DecodeField
    <3> QED
      BY <1>3, <2>2, <3>3 DEF key
  <2>3. CASE how \in {"hex", "hex?"}
    <3>1. b \in Seq(Nat)
      BY <1>3, <2>3
    <3> DEFINE text == EncodeHexCompact(b)
    <3>2. text \in Seq(Part) /\ DecodeHexCompact(text) = b
      BY <3>1, HexReadsBack
    <3>3. e = [as |-> "hex", of |-> text]
      BY <1>3, <2>3 DEF EncodeField, Optional
    <3> HIDE DEF text
    <3>4. text = << >> => b = << >>
      BY <3>2 DEF DecodeHexCompact, FlattenSeq
    <3>5. DecodeField(how, e) = Bytes(DecodeHexCompact(text))
      <4>1. e.as = "hex" /\ e.of = text
        BY <3>3
      <4> HIDE DEF e
      <4> QED
        BY <1>3, <2>3, <3>4, <4>1 DEF DecodeField, Optional
    <3> QED
      BY <1>3, <2>3, <3>2, <3>5
  <2>4. CASE how = "variant?"
    <3>1. e = [as |-> "variant", of |-> b]
      BY <1>3, <2>4 DEF EncodeField, Optional
    <3>2. e.of = b
      BY <3>1
    <3> HIDE DEF e
    <3>3. DecodeField(how, e) = Bytes(b)
      BY <1>3, <2>4, <3>2 DEF DecodeField, Optional
    <3> QED
      BY <1>3, <2>4, <3>3 DEF e
  <2> QED
    BY <1>3, <2>1, <2>2, <2>3, <2>4 DEF Conversions, Optional
<1> QED
  BY <1>1, <1>2, <1>3 DEF IsField

(***************************************************************************)
(* What a readable field is decoded to is a field again.                   *)
(***************************************************************************)
LEMMA DecodedIsField ==
    ASSUME NEW how, NEW v, v.as = "hex" => v.of \in Seq(Part),
           DecodeField(how, v) # Malformed
    PROVE  IsField(how, DecodeField(how, v))
<1>0. \A b : Bytes(b).of = b
  BY DEF Bytes
<1>1. CASE how \notin Conversions
  BY <1>1 DEF IsField
<1>2. CASE how \in Optional /\ v.of = << >>
  BY <1>2 DEF IsField, DecodeField, Optional
<1>3. CASE how \in Conversions /\ ~(how \in Optional /\ v.of = << >>)
  <2>1. CASE how \in {"hex", "hex?"}
    <3>1. v.as = "hex" /\ DecodeField(how, v) = Bytes(DecodeHexCompact(v.of))
      BY <1>3, <2>1 DEF DecodeField, Optional
    <3>2. DecodeHexCompact(v.of) \in Seq(Nat)
      BY <3>1, DecodeType
    <3> QED
      BY <1>0, <3>1, <3>2 DEF IsField
  <2>2. CASE how \notin {"hex", "hex?"}
    <3>1. DecodeField(how, v) = Bytes(v.of)
      BY <1>3, <2>2 DEF DecodeField, Conversions, Optional
    <3> QED
      BY <1>0, <2>2, <3>1 DEF IsField
  <2> QED
    BY <2>1, <2>2
<1> QED
  BY <1>1, <1>2, <1>3

(***************************************************************************)
(* Each harness decodes its fields by the rules it encodes them by.        *)
(***************************************************************************)
LEMMA SameRules == \A harness : EncodeInput(harness) = DecodeInput(harness)
<1>1. EncodeInstr = DecodeInstr
  BY DEF EncodeInstr, DecodeInstr
<1>2. EncodeSanitizedTx = DecodeSanitizedTx
  BY DEF EncodeSanitizedTx, DecodeSanitizedTx
<1>3. EncodeTxn = DecodeTxn
  BY <1>2 DEF EncodeTxn, DecodeTxn
<1>4. EncodeBlock = DecodeBlock
  BY <1>2 DEF EncodeBlock, DecodeBlock
<1>5. EncodeSyscall = DecodeSyscall
  BY <1>1 DEF EncodeSyscall, DecodeSyscall
<1>6. EncodeGossip = DecodeGossip
  BY DEF EncodeGossip, DecodeGossip
<1> QED
  BY <1>1, <1>3, <1>4, <1>5, <1>6 DEF EncodeInput, DecodeInput

(***************************************************************************)
(* The readable form of a context is decoded to that context again, but    *)
(* for an empty hash, of which zeros are made.                             *)
(***************************************************************************)
AreFields(harness, context) ==
    \A x \in DOMAIN context : IsField(Rule(EncodeInput(harness), x), context[x])

ReadBack(harness, context) ==
    [x \in DOMAIN context |->
        IF Rule(EncodeInput(harness), x) = "key or zeros" /\ context[x].of = << >>
        THEN Bytes(Zeros(KeyLength)) ELSE context[x]]

\* HumanDecode undoes HumanEncode, unless a field cannot be converted.
LEMMA ContextReadsBack ==
    ASSUME NEW harness, NEW context, AreFields(harness, context),
           ~Raises(HumanEncode(harness, context))
    PROVE  HumanDecode(harness, HumanEncode(harness, context)) = ReadBack(harness, context)
<1> DEFINE how(x) == Rule(EncodeInput(harness), x)
           text == HumanEncode(harness, context)
           read(x) == IF how(x) = "key or zeros" /\ context[x].of = << >>
                      THEN Bytes(Zeros(KeyLength)) ELSE context[x]
<1>1. /\ DOMAIN text = DOMAIN context
      /\ \A x \in DOMAIN context : text[x] = EncodeField(how(x), context[x])
  BY DEF HumanEncode
<1>2. \A x \in DOMAIN context : text[x] # Malformed
  BY <1>1 DEF Raises
<1>3. HumanDecode(harness, text) = [x \in DOMAIN context |-> DecodeField(how(x), text[x])]
  BY <1>1, SameRules DEF HumanDecode
<1>4. ASSUME NEW x \in DOMAIN context PROVE DecodeField(how(x), text[x]) = read(x)
  <2> DEFINE rule == how(x)
             v == context[x]
  <2>1. IsField(rule, v)
    BY DEF AreFields
  <2>2. text[x] = EncodeField(rule, v) /\ EncodeField(rule, v) # Malformed
    BY <1>1, <1>2
  <2> HIDE DEF rule, v, text
  <2>3. DecodeField(rule, EncodeField(rule, v)) =
           IF rule = "key or zeros" /\ v.of = << >> THEN Bytes(Zeros(KeyLength)) ELSE v
    BY <2>1, <2>2, FieldReadsBack
  <2> QED
    BY <2>2, <2>3 DEF rule, v
<1> HIDE DEF text
<1>5. HumanDecode(harness, text) = [x \in DOMAIN context |-> read(x)]
  BY <1>3, <1>4
<1>6. HumanDecode(harness, text) = ReadBack(harness, context)
  BY <1>5 DEF ReadBack
<1> QED
  BY <1>6 DEF text

\* What is read from a text can be written as a text again.
LEMMA DecodedAreFields ==
    ASSUME NEW harness, NEW text, IsText(text), ~Raises(HumanDecode(harness, text))
    PROVE  AreFields(harness, HumanDecode(harness, text))
<1> DEFINE context == HumanDecode(harness, text)
           how(x) == Rule(EncodeInput(harness), x)
<1>1. /\ DOMAIN context = DOMAIN text
      /\ \A x \in DOMAIN text : context[x] = DecodeField(how(x), text[x])
  BY SameRules DEF HumanDecode
<1> SUFFICES ASSUME NEW x \in DOMAIN text PROVE IsField(how(x), context[x])
  BY <1>1 DEF AreFields
<1>2. context[x] # Malformed
  BY <1>1 DEF Raises
<1>3. text[x].as = "hex" => text[x].of \in Seq(Part)
  BY DEF IsText
<1> HIDE DEF context, how
<1> QED
  BY <1>1, <1>2, <1>3, DecodedIsField

-----------------------------------------------------------------------------
\* Features.

FateSteps(f, id, pairs) ==
    f = [k \in 0..Len(pairs) |-> IF k = 0 THEN id ELSE Moved(f[k - 1], pairs[k])]
FateOf(id, pairs) == CHOOSE f : FateSteps(f, id, pairs)

RekeySteps(f, ids, pairs) ==
    f = [k \in 0..Len(pairs) |-> IF k = 0 THEN ids ELSE Rekey(f[k - 1], pairs[k])]
RekeyOf(ids, pairs) == CHOOSE f : RekeySteps(f, ids, pairs)

Ids == STRING
Pairs == Seq(Ids \X Ids)

\* Where an id ends up is found pair by pair.
LEMMA FateRecurs ==
    ASSUME NEW id \in Ids, NEW pairs \in Pairs
    PROVE  /\ FateSteps(FateOf(id, pairs), id, pairs)
           /\ Fate(id, pairs) = FateOf(id, pairs)[Len(pairs)]
<1> DEFINE n == Len(pairs)
           step == [z \in Ids \X (1..n) |-> Moved(z[1], pairs[z[2]])]
<1>1. n \in Nat /\ \A k \in 1..n : pairs[k] \in Ids \X Ids
  BY DEF Pairs
<1> HIDE DEF n
<1>2. step \in [Ids \X (1..n) -> Ids]
  <2> SUFFICES ASSUME NEW z \in Ids \X (1..n) PROVE Moved(z[1], pairs[z[2]]) \in Ids
    OBVIOUS
  <2>1. z[1] \in Ids /\ z[2] \in 1..n
    OBVIOUS
  <2>2. pairs[z[2]] \in Ids \X Ids
    BY <1>1, <2>1
  <2> QED
    BY <2>1, <2>2 DEF Moved
<1> HIDE DEF step
<1>3. PICK f \in [0..n -> Ids] : RecursesTo(f, id, step, n)
  BY <1>1, <1>2, RecursionExists
<1>4. FateSteps(f, id, pairs)
  <2>1. ASSUME NEW k \in 0..n, k # 0 PROVE step[<<f[k - 1], k>>] = Moved(f[k - 1], pairs[k])
    <3> DEFINE z == <<f[k - 1], k>>
    <3>1. z \in Ids \X (1..n) /\ z[1] = f[k - 1] /\ z[2] = k
      <4>1. k - 1 \in 0..n /\ k \in 1..n
        BY <1>1, <2>1
      <4> QED
        BY <1>3, <4>1
    <3> HIDE DEF z
    <3>2. step[z] = Moved(z[1], pairs[z[2]])
      BY <3>1 DEF step
    <3> QED
      BY <3>1, <3>2 DEF z
  <2>2. f = [k \in 0..n |-> IF k = 0 THEN id ELSE step[<<f[k - 1], k>>]]
    BY <1>3 DEF RecursesTo
  <2> QED
    BY <2>1, <2>2 DEF FateSteps, n
<1>5. FateSteps(FateOf(id, pairs), id, pairs)
  BY <1>4 DEF FateOf
<1>6. Fate(id, pairs) = FateOf(id, pairs)[Len(pairs)]
  BY DEF Fate, FateOf, FateSteps
<1> QED
  BY <1>5, <1>6

\* The rekeyed set is found pair by pair.
LEMMA RekeyRecurs ==
    ASSUME NEW ids \in SUBSET Ids, NEW pairs \in Pairs
    PROVE  /\ RekeySteps(RekeyOf(ids, pairs), ids, pairs)
           /\ Rekeyed(ids, pairs) = RekeyOf(ids, pairs)[Len(pairs)]
<1> DEFINE n == Len(pairs)
           S == SUBSET Ids
           step == [z \in S \X (1..n) |-> Rekey(z[1], pairs[z[2]])]
<1>1. n \in Nat /\ \A k \in 1..n : pairs[k] \in Ids \X Ids
  BY DEF Pairs
<1> HIDE DEF n
<1>2. step \in [S \X (1..n) -> S]
  <2> SUFFICES ASSUME NEW z \in S \X (1..n) PROVE Rekey(z[1], pairs[z[2]]) \in S
    OBVIOUS
  <2>1. z[1] \in S /\ z[2] \in 1..n
    OBVIOUS
  <2>2. pairs[z[2]] \in Ids \X Ids
    BY <1>1, <2>1
  <2> QED
    BY <2>1, <2>2 DEF Rekey
<1> HIDE DEF step
<1>3. PICK f \in [0..n -> S] : RecursesTo(f, ids, step, n)
  BY <1>1, <1>2, RecursionExists
<1>4. RekeySteps(f, ids, pairs)
  <2>1. ASSUME NEW k \in 0..n, k # 0 PROVE step[<<f[k - 1], k>>] = Rekey(f[k - 1], pairs[k])
    <3> DEFINE z == <<f[k - 1], k>>
    <3>1. z \in S \X (1..n) /\ z[1] = f[k - 1] /\ z[2] = k
      <4>1. k - 1 \in 0..n /\ k \in 1..n
        BY <1>1, <2>1
      <4> QED
        BY <1>3, <4>1
    <3> HIDE DEF z
    <3>2. step[z] = Rekey(z[1], pairs[z[2]])
      BY <3>1 DEF step
    <3> QED
      BY <3>1, <3>2 DEF z
  <2>2. f = [k \in 0..n |-> IF k = 0 THEN ids ELSE step[<<f[k - 1], k>>]]
    BY <1>3 DEF RecursesTo
  <2> QED
    BY <2>1, <2>2 DEF RekeySteps, n
<1>5. RekeySteps(RekeyOf(ids, pairs), ids, pairs)
  BY <1>4 DEF RekeyOf
<1>6. Rekeyed(ids, pairs) = RekeyOf(ids, pairs)[Len(pairs)]
  BY DEF Rekeyed, RekeyOf, RekeySteps
<1> QED
  BY <1>5, <1>6

(***************************************************************************)
(* Rekeying a set moves each of its elements by itself.                    *)
(***************************************************************************)
LEMMA RekeyMoves ==
    ASSUME NEW ids, NEW pair
    PROVE  Rekey(ids, pair) = {Moved(id, pair) : id \in ids}
BY DEF Rekey, Moved

\* --rekey-feature takes each id of the set to its own end.
THEOREM RekeyedIsFate ==
    ASSUME NEW ids \in SUBSET Ids, NEW pairs \in Pairs
    PROVE  Rekeyed(ids, pairs) = {Fate(id, pairs) : id \in ids}
<1> DEFINE n == Len(pairs)
           f == RekeyOf(ids, pairs)
           g(id) == FateOf(id, pairs)
           P == {k \in 0..n : f[k] = {g(id)[k] : id \in ids}}
<1>1. n \in Nat
  BY DEF Pairs
<1>2. \A k \in 0..n : f[k] = IF k = 0 THEN ids ELSE Rekey(f[k - 1], pairs[k])
  BY RekeyRecurs DEF RekeySteps
<1>3. \A id \in ids : \A k \in 0..n :
         g(id)[k] = IF k = 0 THEN id ELSE Moved(g(id)[k - 1], pairs[k])
  <2> SUFFICES ASSUME NEW id \in ids
               PROVE  \A k \in 0..n : g(id)[k] = IF k = 0 THEN id ELSE Moved(g(id)[k - 1], pairs[k])
    OBVIOUS
  <2>1. FateSteps(FateOf(id, pairs), id, pairs)
    BY FateRecurs
  <2> QED
    BY <2>1 DEF FateSteps
<1> HIDE DEF f, g, n
<1>4. 0 \in P
  <2>1. 0 \in 0..n /\ f[0] = ids /\ \A id \in ids : g(id)[0] = id
    BY <1>1, <1>2, <1>3
  <2>2. {g(id)[0] : id \in ids} = ids
    BY <2>1
  <2> QED
    BY <2>1, <2>2
<1>5. ASSUME NEW k \in 1..n, k - 1 \in P PROVE k \in P
  <2>1. k \in 0..n /\ k # 0
    BY <1>1
  <2>2. f[k] = Rekey(f[k - 1], pairs[k])
    BY <1>2, <2>1
  <2>3. f[k - 1] = {g(id)[k - 1] : id \in ids}
    BY <1>5
  <2>4. f[k] = {Moved(x, pairs[k]) : x \in f[k - 1]}
    BY <2>2, RekeyMoves
  <2>5. \A id \in ids : g(id)[k] = Moved(g(id)[k - 1], pairs[k])
    BY <1>3, <2>1
  <2>6. f[k] = {g(id)[k] : id \in ids}
    BY <2>3, <2>4, <2>5
  <2> QED
    BY <2>1, <2>6
<1> HIDE DEF P
<1>6. n \in P
  <2>1. \A k \in 0..n : k \in P
    BY <1>1, <1>4, <1>5, UpTo
  <2> QED
    BY <1>1, <2>1
<1>7. f[n] = {g(id)[n] : id \in ids}
  BY <1>6 DEF P
<1>8. Rekeyed(ids, pairs) = f[n]
  BY RekeyRecurs DEF f, n
<1>9. \A id \in ids : Fate(id, pairs) = g(id)[n]
  BY FateRecurs DEF g, n
<1> QED
  BY <1>7, <1>8, <1>9

-----------------------------------------------------------------------------
\* What the handlers write.

Paths == Seq(STRING)

\* What the assumptions say of the world the command runs in.
LEMMA WorldTyped ==
    ASSUME world \in Worlds
    PROVE  /\ world.command \in Commands
           /\ world.add \in SUBSET Ids /\ world.rekey \in Pairs
           /\ \A p \in DOMAIN world.before :
                 p.folder \in Paths /\ world.before[p] = Debris("old")
           /\ IsFiniteSet(world.files)
           /\ \A f \in world.files :
                 /\ f.folder \in Paths
                 /\ f.features \in Seq(SUBSET Ids) /\ Len(f.features) <= 1
                 /\ f.body = "text" => DetectFormat(f) # "flatbuffers"
                 /\ IF f.body = "text" THEN IsText(f.context) ELSE IsContext(f.context)
BY FilesAssumption DEF Ids, Pairs, Paths

(***************************************************************************)
(* The new feature set, computed pair by pair, is that of the properties.  *)
(***************************************************************************)
LEMMA NewFeatureSet ==
    ASSUME world \in Worlds, NEW ids \in SUBSET Ids
    PROVE  ComputeNewFeatureSet(ids) =
              {Fate(id, world.rekey) : id \in (ids \cup world.add) \ world.remove}
<1>1. (ids \cup world.add) \ world.remove \in SUBSET Ids /\ world.rekey \in Pairs
  BY WorldTyped
<1> QED
  BY <1>1, RekeyedIsFate DEF ComputeNewFeatureSet

\* The features a regenerated fixture is given are those it should have.
LEMMA FeaturesAreNew ==
    ASSUME world \in Worlds, NEW f \in world.files, world.command \in Regenerations, ~IsNative(f)
    PROVE  NewFeatures(f) = FeaturesOf(f)
<1>1. \A i \in DOMAIN f.features : f.features[i] \in SUBSET Ids
  BY WorldTyped
<1>2. \A i \in DOMAIN f.features : ComputeNewFeatureSet(f.features[i]) =
         {Fate(id, world.rekey) : id \in (f.features[i] \cup world.add) \ world.remove}
  BY <1>1, NewFeatureSet
<1> QED
  BY <1>2 DEF NewFeatures, FeaturesOf

(***************************************************************************)
(* The effects are those of the context and the features beside them; the  *)
(* text reads back.                                                        *)
(***************************************************************************)
EffectsRight(f, does) ==
    LET content == does.content
    IN content.effects # NoEffects =>
          /\ content.effects.under = content.features
          /\ content.what # "readable" => content.effects.of = content.context
          /\ does.to.stem = f.stem
          /\ content.effects.of = ContextOf(world.harness, f)
          /\ content.features = FeaturesOf(f)

TextRight(f, does) ==
    LET content == does.content
    IN content.what \in {"text", "readable"} =>
          /\ does.to.stem = f.stem
          /\ HumanDecode(content.harness, content.context) =
                ReadBack(content.harness, ContextOf(content.harness, f))

AnswerRight(f, does) == EffectsRight(f, does) /\ TextRight(f, does)

\* A handler that writes no fixture and no text has nothing to get wrong.
LEMMA NothingIsRight ==
    ASSUME NEW f, NEW answer, NEW to, NEW what \in {"nothing", "empty"}
    PROVE  AnswerRight(f, [answer |-> answer, to |-> to, content |-> Debris(what)])
BY DEF AnswerRight, EffectsRight, TextRight, Debris, Content

\* Nor has one that only answers.
LEMMA OnlyIsRight == \A f, answer : AnswerRight(f, Only(answer))
BY NothingIsRight DEF Only

(***************************************************************************)
(* create_fixture_from_context: a fixture, its readable form, or neither.  *)
(***************************************************************************)
IsFixtureOf(does, f, harness, context, features) ==
    \/ does = Only("raises") \/ does = Only("skipped")
    \/ /\ does.answer = "written" /\ does.to.stem = f.stem
       /\ \/ does.content = Content("fixture", harness, context, features, Execute(context, features))
          \/ /\ ~Raises(HumanEncode(harness, context))
             /\ does.content = Content("readable", harness, HumanEncode(harness, context),
                                       features, Execute(context, features))

\* A fixture made of a context holds that context and its effects.
LEMMA FixtureFromContext ==
    ASSUME NEW out, NEW f, NEW harness, NEW context, NEW features
    PROVE  IsFixtureOf(CreateFixtureFromContext(out, f, harness, context, features),
                       f, harness, context, features)
<1> DEFINE content == Content("fixture", harness, context, features, Execute(context, features))
           does == WriteFixtureToDisk(out, f, content)
           folder == out \o (IF world.byProgram THEN GetProgramType(f) ELSE << >>)
           text == HumanEncode(harness, context)
           readable == Content("readable", harness, text, features, Execute(context, features))
<1>1. /\ content.harness = harness /\ content.context = context
      /\ Content("readable", content.harness, text, content.features, content.effects) = readable
  BY DEF Content
<1>2. \A stem, ext : PathOf(folder, stem, ext).stem = stem
  BY DEF PathOf
<1> HIDE DEF content, readable, folder
<1>3. \/ does = Only("raises")
      \/ ~Raises(text) /\ does = Written(PathOf(folder, f.stem, "fix.txt"), readable)
      \/ does = Written(PathOf(folder, f.stem, "fix"), content)
  <2> HIDE DEF text
  <2> DEFINE A == \/ (world.readable \/ world.byProgram) /\ content.harness # "InstrHarness"
                  \/ world.byProgram /\ NoProgramType(f, content.context)
                  \/ world.readable /\ Raises(text)
             B == world.readable
             plain == Written(PathOf(folder, f.stem, "fix"), content)
             shown == Written(PathOf(folder, f.stem, "fix.txt"), readable)
  <2>1. does = IF A THEN Only("raises") ELSE IF B THEN shown ELSE plain
    BY <1>1 DEF WriteFixtureToDisk, folder, text
  <2>2. B /\ ~A => ~Raises(text)
    OBVIOUS
  <2> HIDE DEF A, B, plain, shown, does
  <2>3. does = Only("raises") \/ (B /\ ~A /\ does = shown) \/ does = plain
    BY <2>1
  <2> QED
    BY <2>2, <2>3 DEF plain, shown
<1> HIDE DEF does, text
<1>4. IsFixtureOf(does, f, harness, context, features)
  <2>1. CASE ~Raises(text) /\ does = Written(PathOf(folder, f.stem, "fix.txt"), readable)
    <3>1. does.answer = "written" /\ does.to.stem = f.stem /\ does.content = readable
      BY <1>2, <2>1 DEF Written
    <3> QED
      BY <2>1, <3>1 DEF IsFixtureOf, readable, text
  <2>2. CASE does = Written(PathOf(folder, f.stem, "fix"), content)
    <3>1. does.answer = "written" /\ does.to.stem = f.stem /\ does.content = content
      BY <1>2, <2>2 DEF Written
    <3> QED
      BY <3>1 DEF IsFixtureOf, content
  <2> QED
    BY <1>3, <2>1, <2>2 DEF IsFixtureOf
<1> QED
  BY <1>4 DEF CreateFixtureFromContext, IsFixtureOf, does, content

\* Made of the context and the features it should have, it is right.
LEMMA FixtureIsRight ==
    ASSUME NEW f, NEW does, NEW harness, NEW context, NEW features,
           IsFixtureOf(does, f, harness, context, features),
           context = ContextOf(world.harness, f), context = ContextOf(harness, f),
           AreFields(harness, context), features = FeaturesOf(f)
    PROVE  AnswerRight(f, does)
<1> DEFINE effects == Execute(context, features)
           text == HumanEncode(harness, context)
<1>1. effects.of = context /\ effects.under = features
  BY DEF Execute
<1> HIDE DEF effects
<1>2. CASE /\ does.to.stem = f.stem
           /\ does.content = Content("fixture", harness, context, features, effects)
  <2>1. /\ does.content.effects = effects /\ does.content.features = features
        /\ does.content.context = context /\ does.content.what = "fixture"
    BY <1>2 DEF Content
  <2> QED
    BY <1>1, <1>2, <2>1 DEF AnswerRight, EffectsRight, TextRight
<1>3. CASE /\ does.to.stem = f.stem /\ ~Raises(text)
           /\ does.content = Content("readable", harness, text, features, effects)
  <2>1. /\ does.content.effects = effects /\ does.content.features = features
        /\ does.content.context = text /\ does.content.what = "readable"
        /\ does.content.harness = harness
    BY <1>3 DEF Content
  <2>2. HumanDecode(harness, text) = ReadBack(harness, context)
    BY <1>3, ContextReadsBack
  <2> HIDE DEF text
  <2> QED
    BY <1>1, <1>3, <2>1, <2>2 DEF AnswerRight, EffectsRight, TextRight
<1> QED
  BY <1>2, <1>3, OnlyIsRight DEF IsFixtureOf, effects

(***************************************************************************)
(* The context of a file that can be read has fields its harness converts. *)
(***************************************************************************)
LEMMA ContextFields ==
    ASSUME world \in Worlds, NEW f \in world.files, NEW harness,
           f.body = "text" => ~Raises(HumanDecode(harness, f.context))
    PROVE  AreFields(harness, ContextOf(harness, f))
<1>1. CASE f.body = "text"
  <2>1. IsText(f.context)
    BY <1>1, WorldTyped
  <2>2. AreFields(harness, HumanDecode(harness, f.context))
    BY <1>1, <2>1, DecodedAreFields
  <2> QED
    BY <1>1, <2>2 DEF ContextOf
<1>2. CASE f.body # "text"
  <2>1. IsContext(f.context)
    BY <1>2, WorldTyped
  <2>2. AreFields(harness, f.context)
    BY <2>1 DEF IsContext, AreFields, IsField
  <2> QED
    BY <1>2, <2>2 DEF ContextOf
<1> QED
  BY <1>1, <1>2

\* A fixture is no text, and its context is in it.
LEMMA FixtureContext ==
    ASSUME world \in Worlds, NEW f \in world.files, HarnessOf(f) # NoHarness
    PROVE  /\ \A harness : ContextOf(harness, f) = f.context
           /\ AreFields(HarnessOf(f), f.context)
<1>1. f.body = "protobuf"
  BY DEF HarnessOf
<1>2. \A harness : ContextOf(harness, f) = f.context
  BY <1>1 DEF ContextOf
<1>3. AreFields(HarnessOf(f), ContextOf(HarnessOf(f), f))
  BY <1>1, ContextFields
<1> QED
  BY <1>2, <1>3

(***************************************************************************)
(* Each handler in turn.                                                   *)
(***************************************************************************)
LEMMA CreateRight ==
    ASSUME world \in Worlds, NEW f \in world.files, NEW out, world.command \notin Regenerations
    PROVE  AnswerRight(f, CreateFixture(out, f))
<1> DEFINE does == CreateFixture(out, f)
<1>0. f.features = FeaturesOf(f)
  BY DEF FeaturesOf
<1>1. CASE f.suffix = "fix" /\ ReadsFixture(f)
  <2>1. does = CreateFixtureFromContext(out, f, HarnessOf(f), f.context, f.features)
    BY <1>1 DEF CreateFixture
  <2>2. HarnessOf(f) # NoHarness
    BY <1>1 DEF ReadsFixture
  <2>3. IsFixtureOf(does, f, HarnessOf(f), f.context, f.features)
    BY <2>1, FixtureFromContext
  <2> DEFINE context == f.context
  <2>4. /\ context = ContextOf(world.harness, f) /\ context = ContextOf(HarnessOf(f), f)
        /\ AreFields(HarnessOf(f), context)
    BY <2>2, FixtureContext
  <2>5. IsFixtureOf(does, f, HarnessOf(f), context, f.features)
    BY <2>3
  <2> HIDE DEF does, context
  <2>6. AnswerRight(f, does)
    BY <1>0, <2>4, <2>5, FixtureIsRight
  <2> QED
    BY <2>6 DEF does
<1>2. CASE f.suffix # "fix" /\ ReadsContext(world.harness, f)
  <2> DEFINE context == ContextOf(world.harness, f)
  <2>1. does = CreateFixtureFromContext(out, f, world.harness, context, f.features)
    BY <1>2 DEF CreateFixture
  <2>2. IsFixtureOf(does, f, world.harness, context, f.features)
    BY <2>1, FixtureFromContext
  <2>3. AreFields(world.harness, context)
    <3>1. f.body = "text" => ~Raises(HumanDecode(world.harness, f.context))
      BY <1>2 DEF ReadsContext
    <3> QED
      BY <3>1, ContextFields
  <2>4. context = ContextOf(world.harness, f)
    OBVIOUS
  <2> HIDE DEF does, context
  <2>5. AnswerRight(f, does)
    BY <1>0, <2>2, <2>3, <2>4, FixtureIsRight
  <2> QED
    BY <2>5 DEF does
<1>3. CASE does = Only("raises") \/ does = Only("skipped")
  BY <1>3, OnlyIsRight
<1>4. \/ f.suffix = "fix" /\ ReadsFixture(f)
      \/ f.suffix # "fix" /\ ReadsContext(world.harness, f)
      \/ does = Only("raises") \/ does = Only("skipped")
  BY DEF CreateFixture
<1> QED
  BY <1>1, <1>2, <1>3, <1>4

\* extract_context_from_fixture: a context, without effects.
LEMMA ExtractRight ==
    ASSUME NEW f
    PROVE  AnswerRight(f, ExtractContextFromFixture(f))
<1> DEFINE does == ExtractContextFromFixture(f)
           path == PathOf(Root, f.stem, "bin")
           context == Content("context", HarnessOf(f), f.context, f.features, NoEffects)
<1>1. CASE does = Written(path, context)
  <2>1. does.content = context
    BY <1>1 DEF Written
  <2>2. context.what = "context" /\ context.effects = NoEffects
    BY DEF Content
  <2> HIDE DEF does, context
  <2>3. AnswerRight(f, does)
    BY <2>1, <2>2 DEF AnswerRight, EffectsRight, TextRight
  <2> QED
    BY <2>3 DEF does
<1>2. CASE does # Written(path, context)
  <2>1. \/ does = Only("skipped")
        \/ does = [answer |-> "skipped", to |-> path, content |-> Debris("empty")]
    BY <1>2 DEF ExtractContextFromFixture
  <2>2. AnswerRight(f, does)
    <3> HIDE DEF does, path
    <3> QED
      BY <2>1, OnlyIsRight, NothingIsRight
  <2> QED
    BY <2>2 DEF does
<1> QED
  BY <1>1, <1>2

\* decode_single_test_case: the text of the context, which reads back.
LEMMA DecodeRight ==
    ASSUME world \in Worlds, NEW f \in world.files
    PROVE  AnswerRight(f, DecodeSingleTestCase(f))
<1> DEFINE does == DecodeSingleTestCase(f)
           isFixture == f.suffix = "fix"
           harness == IF isFixture THEN HarnessOf(f) ELSE world.harness
           reads == IF isFixture THEN ReadsFixture(f) ELSE ReadsContext(harness, f)
           context == ContextOf(harness, f)
           text == HumanEncode(harness, context)
           what == IF isFixture THEN "readable" ELSE "text"
           content == Content(what, harness, text, f.features, NoEffects)
           path == PathOf(Root, f.stem, "txt")
<1>1. CASE ~reads \/ Raises(text)
  <2>1. does = Only("raises")
    BY <1>1 DEF DecodeSingleTestCase
  <2> QED
    BY <2>1, OnlyIsRight
<1>2. CASE reads /\ ~Raises(text)
  <2>1. does = Written(path, content)
    BY <1>2 DEF DecodeSingleTestCase
  <2>2. does.content = content /\ does.to.stem = f.stem
    BY <2>1 DEF Written, PathOf
  <2>3. f.body = "text" => ~Raises(HumanDecode(harness, f.context))
    BY <1>2 DEF ReadsFixture, HarnessOf, ReadsContext
  <2> HIDE DEF harness
  <2>4. AreFields(harness, context)
    BY <2>3, ContextFields
  <2>5. HumanDecode(harness, text) = ReadBack(harness, context)
    BY <1>2, <2>4, ContextReadsBack
  <2> HIDE DEF text
  <2>6. content.harness = harness /\ content.context = text /\ content.effects = NoEffects
    BY DEF Content
  <2> HIDE DEF does, content
  <2>7. AnswerRight(f, does)
    BY <2>2, <2>5, <2>6 DEF AnswerRight, EffectsRight, TextRight
  <2> QED
    BY <2>7 DEF does
<1> QED
  BY <1>1, <1>2

(***************************************************************************)
(* A FlatBuffers fixture has new features whether or not it had any.       *)
(***************************************************************************)
LEMMA FbFeatures ==
    ASSUME world \in Worlds, NEW f \in world.files,
           world.command \in Regenerations, IsNative(f)
    PROVE  <<ComputeNewFeatureSet(ExtractFbFeatures(f))>> = FeaturesOf(f)
<1> DEFINE New(ids) == {Fate(id, world.rekey) : id \in (ids \cup world.add) \ world.remove}
           ids == ExtractFbFeatures(f)
<1>1. f.features \in Seq(SUBSET Ids) /\ Len(f.features) <= 1
  BY WorldTyped
<1>2. ids \in SUBSET Ids
  <2>1. f.features # << >> => f.features[1] \in SUBSET Ids
    BY <1>1
  <2> QED
    BY <2>1 DEF ExtractFbFeatures
<1>3. ComputeNewFeatureSet(ids) = New(ids)
  BY <1>2, NewFeatureSet
<1>4. CASE f.features = << >>
  <2>1. ids = {} /\ FeaturesOf(f) = <<New({})>>
    BY <1>4 DEF ExtractFbFeatures, FeaturesOf
  <2> QED
    BY <1>3, <2>1
<1>5. CASE f.features # << >>
  <2>1. DOMAIN f.features = {1}
    BY <1>1, <1>5
  <2>2. ids = f.features[1]
    BY <1>5 DEF ExtractFbFeatures
  <2>3. FeaturesOf(f) = [i \in DOMAIN f.features |-> New(f.features[i])]
    BY <1>5 DEF FeaturesOf
  <2> HIDE DEF New
  <2>4. FeaturesOf(f) = [i \in {1} |-> New(f.features[1])]
    BY <2>1, <2>3
  <2>5. [i \in {1} |-> New(f.features[1])] = <<New(f.features[1])>>
    <3> DEFINE v == New(f.features[1])
    <3> HIDE DEF v
    <3>1. [i \in {1} |-> v] = <<v>>
      OBVIOUS
    <3> QED
      BY <3>1 DEF v
  <2>6. ComputeNewFeatureSet(ids) = New(f.features[1])
    BY <1>3, <2>2
  <2> QED
    BY <2>4, <2>5, <2>6
<1> QED
  BY <1>4, <1>5

\* regenerate_fb_fixture: the effects of the new features.
LEMMA FbRight ==
    ASSUME world \in Worlds, NEW f \in world.files, NEW out,
           world.command \in Regenerations, IsNative(f)
    PROVE  AnswerRight(f, RegenerateFbFixture(out, f))
<1> DEFINE ctx == [ExtractFbContext(f) EXCEPT !.features = ComputeNewFeatureSet(@)]
           new == ComputeNewFeatureSet(ExtractFbFeatures(f))
           effects == ProcessTargetRaw(f.entrypoint, ctx)
           does == RegenerateFbFixture(out, f)
           content == BuildFbFixture(ctx, effects[1])
           path == PathOf(out, f.stem, "fix")
<1>1. ctx.elf = f.context /\ ctx.features = new
  BY DEF ExtractFbContext
<1>2. \A harness : ContextOf(harness, f) = f.context
  <2>1. f.body # "text"
    BY WorldTyped DEF IsNative
  <2> QED
    BY <2>1 DEF ContextOf
<1>3. <<new>> = FeaturesOf(f)
  BY FbFeatures
<1> HIDE DEF ctx, new
<1>4. CASE does = Only("dry") \/ does = Only("skipped")
  BY <1>4, OnlyIsRight
<1>5. CASE effects # << >> /\ does = Written(path, content)
  <2>1. effects = <<Execute(f.context, <<new>>)>>
    BY <1>1, <1>5 DEF ProcessTargetRaw
  <2> DEFINE e == effects[1]
  <2>2. e = Execute(f.context, <<new>>)
    BY <2>1
  <2>3. content = BuildFbFixture(ctx, e)
    OBVIOUS
  <2> HIDE DEF effects, content, e
  <2>4. e.of = f.context /\ e.under = <<new>>
    BY <2>2 DEF Execute
  <2>5. /\ content.effects = e /\ content.features = <<new>>
        /\ content.context = f.context /\ content.what = "flatbuffers"
    BY <1>1, <2>3 DEF BuildFbFixture, Content
  <2>6. does.content = content /\ does.to.stem = f.stem
    BY <1>5 DEF Written, PathOf
  <2> HIDE DEF does
  <2>7. AnswerRight(f, does)
    BY <1>2, <1>3, <2>4, <2>5, <2>6 DEF AnswerRight, EffectsRight, TextRight
  <2> QED
    BY <2>7 DEF does
<1>6. \/ does = Only("dry") \/ does = Only("skipped")
      \/ effects # << >> /\ does = Written(path, content)
  BY DEF RegenerateFbFixture, ctx
<1> QED
  BY <1>4, <1>5, <1>6

\* regenerate_fixture, of a message or of a FlatBuffers fixture.
LEMMA RegenerateRight ==
    ASSUME world \in Worlds, NEW f \in world.files, NEW out,
           world.command \in Regenerations
    PROVE  AnswerRight(f, RegenerateFixture(out, f))
<1> DEFINE does == RegenerateFixture(out, f)
<1>1. CASE IsNative(f)
  BY <1>1, FbRight DEF RegenerateFixture
<1>2. CASE ~IsNative(f) /\ ReadsFixture(f)
           /\ does = CreateFixtureFromContext(out, f, HarnessOf(f), f.context, NewFeatures(f))
  <2>1. IsFixtureOf(does, f, HarnessOf(f), f.context, NewFeatures(f))
    BY <1>2, FixtureFromContext
  <2>2. NewFeatures(f) = FeaturesOf(f)
    BY <1>2, FeaturesAreNew
  <2>3. HarnessOf(f) # NoHarness
    BY <1>2 DEF ReadsFixture
  <2> HIDE DEF does
  <2>4. AnswerRight(f, does)
    BY <2>1, <2>2, <2>3, FixtureContext, FixtureIsRight
  <2> QED
    BY <2>4 DEF does
<1>3. CASE \E answer : does = Only(answer)
  <2> HIDE DEF does
  <2>1. AnswerRight(f, does)
    BY <1>3, OnlyIsRight
  <2> QED
    BY <2>1 DEF does
<1>4. ASSUME ~IsNative(f), ReadsFixture(f)
      PROVE  HarnessOf(f) \in ScalarHarnesses \/ HarnessOf(f) \in Harnesses \ ScalarHarnesses
  BY <1>4 DEF ReadsFixture, HarnessOf, HarnessForEntrypoint, NoHarness
<1>5. CASE ~IsNative(f) /\ ~ReadsFixture(f)
  <2>1. DetectFormat(f) = "flatbuffers" => LoadedAs(f) # "flatbuffers"
    BY <1>5 DEF IsNative, LoadedAs
  <2>2. HarnessOf(f) = NoHarness
    BY <1>5, <2>1 DEF ReadsFixture
  <2>3. does = Only("raises")
    BY <1>5, <2>2 DEF RegenerateFixture, Harnesses, ScalarHarnesses, NoHarness
  <2> QED
    BY <1>3, <2>3
<1>6. CASE ~IsNative(f) /\ ReadsFixture(f) /\ HarnessOf(f) \in ScalarHarnesses
  BY <1>6, OnlyIsRight DEF RegenerateFixture
<1>7. CASE ~IsNative(f) /\ ReadsFixture(f) /\ HarnessOf(f) \in Harnesses \ ScalarHarnesses
  <2> DEFINE rest == CASE ~HasFeatureSet(HarnessOf(f)) -> Only("raises")
                       [] HasFeatureSet(HarnessOf(f)) /\ world.dryRun -> Only("dry")
                       [] OTHER -> Regenerated(out, f, NewFeatures(f))
  <2>1. does = rest
    <3> HIDE DEF rest
    <3> QED
      BY <1>7 DEF RegenerateFixture, rest
  <2>2. \/ rest = Only("raises") \/ rest = Only("dry") \/ rest = Regenerated(out, f, NewFeatures(f))
    OBVIOUS
  <2> HIDE DEF does, rest
  <2>3. (\E answer : does = Only(answer)) \/ does = Regenerated(out, f, NewFeatures(f))
    BY <2>1, <2>2
  <2> QED
    BY <1>2, <1>3, <1>7, <2>3 DEF Regenerated
<1> QED
  BY <1>1, <1>4, <1>5, <1>6, <1>7

(***************************************************************************)
(* What a handler answers belongs to the file it was given.                *)
(***************************************************************************)
LEMMA HandlerRight ==
    ASSUME world \in Worlds, NEW f \in world.files, NEW out
    PROVE  AnswerRight(f, Handler(out, f))
<1>1. world.command \in Commands
  BY WorldTyped
<1>2. CASE world.command = "create-fixtures"
  BY <1>2, CreateRight DEF Handler, Regenerations, Mass
<1>3. CASE world.command = "fix-to-ctx"
  BY <1>3, ExtractRight DEF Handler, Regenerations, Mass
<1>4. CASE world.command = "decode-protobufs"
  BY <1>4, DecodeRight DEF Handler, Regenerations, Mass
<1>5. CASE world.command \in Regenerations
  BY <1>5, RegenerateRight DEF Handler, Regenerations, Mass
<1>6. CASE world.command \in {"exec-fixtures", "execute", "validate-fixtures"}
  <2>1. \E answer : Handler(out, f) = Only(answer)
    BY <1>6 DEF Handler, ExecuteFixture, ExecuteFbFixture, ExecuteFile, ValidateFile,
                Regenerations, Mass
  <2> DEFINE does == Handler(out, f)
  <2>2. \E answer : does = Only(answer)
    BY <2>1
  <2> HIDE DEF does
  <2>3. AnswerRight(f, does)
    BY <2>2, OnlyIsRight
  <2> QED
    BY <2>3 DEF does
<1> QED
  BY <1>1, <1>2, <1>3, <1>4, <1>5, <1>6 DEF Commands, ReadOnly

-----------------------------------------------------------------------------
\* What depends on nothing but the world stays as it is.

Folders == IF world.command = Mass THEN RegenerateFolders ELSE {Root}
FilesOf(folder) == IF world.single THEN world.files ELSE Inputs(folder)
InTurn == ~(world.command = Mass /\ Nested)
Apart == world.command = Mass /\ \A f, g \in world.files : f.stem = g.stem => f = g

\* The libraries and the options are the world: with it, the fixture stays.
LEMMA SameFixture ==
    ASSUME world' = world, NEW out, NEW f, NEW harness, NEW context, NEW features
    PROVE  CreateFixtureFromContext(out, f, harness, context, features)' =
              CreateFixtureFromContext(out, f, harness, context, features)
<1>1. ASSUME NEW content
      PROVE  WriteFixtureToDisk(out, f, content)' = WriteFixtureToDisk(out, f, content)
  BY DEF WriteFixtureToDisk
<1> DEFINE content == Content("fixture", harness, context, features, Execute(context, features))
<1>2. WriteFixtureToDisk(out, f, content)' = WriteFixtureToDisk(out, f, content)
  BY <1>1
<1>3. Rejects(context)' <=> Rejects(context)
  BY DEF Rejects
<1> QED
  BY <1>2, <1>3 DEF CreateFixtureFromContext

\* So does what becomes of a FlatBuffers fixture.
LEMMA SameFb ==
    ASSUME world' = world, NEW out, NEW f
    PROVE  /\ RegenerateFbFixture(out, f)' = RegenerateFbFixture(out, f)
           /\ ExecuteFbFixture(f)' = ExecuteFbFixture(f)
<1>1. ASSUME NEW ids PROVE ComputeNewFeatureSet(ids)' = ComputeNewFeatureSet(ids)
  BY DEF ComputeNewFeatureSet
<1>2. ASSUME NEW entrypoint, NEW ctx
      PROVE  ProcessTargetRaw(entrypoint, ctx)' = ProcessTargetRaw(entrypoint, ctx)
  BY DEF ProcessTargetRaw, Rejects
<1> DEFINE old == ExtractFbContext(f)
           ctx == [old EXCEPT !.features = ComputeNewFeatureSet(@)]
<1>3. ctx' = ctx
  BY <1>1
<1>4. ProcessTargetRaw(f.entrypoint, ctx)' = ProcessTargetRaw(f.entrypoint, ctx)
  BY <1>2, <1>3
<1> QED
  BY <1>2, <1>3, <1>4 DEF RegenerateFbFixture, ExecuteFbFixture

\* So does what every handler answers.
LEMMA SameHandler ==
    ASSUME world' = world, NEW out, NEW f
    PROVE  Handler(out, f)' = Handler(out, f)
<1>1. CreateFixture(out, f)' = CreateFixture(out, f)
  BY SameFixture DEF CreateFixture
<1>2. DecodeSingleTestCase(f)' = DecodeSingleTestCase(f)
  BY DEF DecodeSingleTestCase
<1>3. RegenerateFixture(out, f)' = RegenerateFixture(out, f)
  <2>1. NewFeatures(f)' = NewFeatures(f)
    BY DEF NewFeatures, ComputeNewFeatureSet
  <2>2. Regenerated(out, f, NewFeatures(f))' = Regenerated(out, f, NewFeatures(f))
    BY <2>1, SameFixture DEF Regenerated
  <2> QED
    BY <2>2, SameFb DEF RegenerateFixture
<1>4. ExecuteFixture(f)' = ExecuteFixture(f)
  BY SameFb DEF ExecuteFixture, Rejects
<1>5. ExecuteFile(f)' = ExecuteFile(f)
  BY DEF ExecuteFile, Rejects
<1> QED
  BY <1>1, <1>2, <1>3, <1>4, <1>5 DEF Handler

\* So do the folders, their files, and who runs one file at a time.
LEMMA SameWorks ==
    ASSUME world' = world
    PROVE  /\ Folders' = Folders /\ Works' = Works /\ Copied' = Copied
           /\ \A folder : FilesOf(folder)' = FilesOf(folder)
           /\ (Serial' <=> Serial) /\ (InTurn' <=> InTurn) /\ (Apart' <=> Apart)
<1>1. RegenerateFolders' = RegenerateFolders
  BY DEF RegenerateFolders
<1>2. ASSUME NEW folder PROVE Inputs(folder)' = Inputs(folder)
  BY DEF Inputs
<1>3. ASSUME NEW folder PROVE FilesOf(folder)' = FilesOf(folder)
  BY <1>2 DEF FilesOf
<1>4. Folders' = Folders /\ Copied' = Copied
  BY <1>1 DEF Folders, Copied
<1>5. Works' = Works
  BY <1>1, <1>2 DEF Works
<1>6. Nested' <=> Nested
  BY <1>1 DEF Nested
<1>7. (Serial' <=> Serial) /\ (InTurn' <=> InTurn) /\ (Apart' <=> Apart)
  BY <1>6 DEF Serial, InTurn, Apart
<1> QED
  BY <1>3, <1>4, <1>5, <1>7

\* So do the files that are written to one path.
LEMMA SameWriters ==
    ASSUME world' = world
    PROVE  \A p : Writers(p)' = Writers(p)
<1> SUFFICES ASSUME NEW p PROVE Writers(p)' = Writers(p)
  OBVIOUS
<1>1. Works' = Works
  BY SameWorks
<1>2. \A w \in Works : Handler(w[1], w[2])' = Handler(w[1], w[2])
  BY SameHandler
<1> QED
  BY <1>1, <1>2 DEF Writers

-----------------------------------------------------------------------------
\* Folders, files and paths.

LEMMA PrefixIs ==
    ASSUME NEW a \in Paths, NEW b \in Paths
    PROVE  /\ IsPrefix(Root, a) /\ IsPrefix(a, a)
           /\ IsPrefix(a, b) <=> Len(a) <= Len(b) /\ \A i \in 1..Len(a) : a[i] = b[i]
<1> DEFINE n == Len(a)
           m == Len(b)
           s == SubSeq(a, 1, n)
           t == SubSeq(b, 1, n)
<1>1. n \in Nat /\ m \in Nat /\ s = a
  BY DEF Paths
<1>2. ASSUME n <= m
      PROVE  Len(t) = n /\ t \in Paths /\ \A i \in 1..n : t[i] = b[i]
  BY <1>1, <1>2 DEF Paths
<1>3. n <= m => (s = t <=> \A i \in 1..n : a[i] = b[i])
  <2> SUFFICES ASSUME n <= m, \A i \in 1..n : a[i] = b[i]
               PROVE  a = t
    BY <1>1, <1>2
  <2>1. Len(t) = n /\ t \in Paths /\ \A i \in 1..n : t[i] = a[i]
    BY <1>2
  <2> HIDE DEF t
  <2> QED
    BY <2>1, SeqEqual DEF Paths
<1>4. IsPrefix(a, b) <=> Len(a) <= Len(b) /\ \A i \in 1..Len(a) : a[i] = b[i]
  BY <1>3 DEF IsPrefix
<1>5. IsPrefix(a, a)
  BY <1>1 DEF IsPrefix
<1>6. IsPrefix(Root, a)
  <2>1. SubSeq(a, 1, 0) = << >> /\ SubSeq(Root, 1, 0) = << >> /\ Len(Root) = 0
    BY DEF Root, Paths
  <2> QED
    BY <1>1, <2>1 DEF IsPrefix
<1> QED
  BY <1>4, <1>5, <1>6

\* What lies below a folder to regenerate lies in one itself.
LEMMA BelowFixtures ==
    ASSUME NEW a \in Paths, NEW b \in Paths, IsFixtureFolder(a), IsPrefix(a, b)
    PROVE  IsFixtureFolder(b)
<1>1. Len(a) <= Len(b) /\ \A i \in 1..Len(a) : a[i] = b[i]
  BY PrefixIs
<1>2. Len(a) \in Nat /\ Len(b) \in Nat
  BY DEF Paths
<1>3. 2 \in 1..Len(a)
  BY <1>2 DEF IsFixtureFolder
<1> QED
  BY <1>1, <1>2, <1>3 DEF IsFixtureFolder

\* What is below a folder below another is below that one.
LEMMA PrefixesJoin ==
    ASSUME NEW a \in Paths, NEW b \in Paths, NEW c \in Paths, IsPrefix(a, b), IsPrefix(b, c)
    PROVE  IsPrefix(a, c)
<1>1. Len(a) <= Len(b) /\ \A i \in 1..Len(a) : a[i] = b[i]
  BY PrefixIs
<1>2. Len(b) <= Len(c) /\ \A i \in 1..Len(b) : b[i] = c[i]
  BY PrefixIs
<1>3. Len(a) \in Nat /\ Len(b) \in Nat /\ Len(c) \in Nat
  BY DEF Paths
<1>4. Len(a) <= Len(c) /\ \A i \in 1..Len(a) : a[i] = c[i]
  BY <1>1, <1>2, <1>3
<1> QED
  BY <1>4, PrefixIs

\* The folders that are taken, and the files each gives to handlers.
LEMMA FoldersTyped ==
    ASSUME world \in Worlds
    PROVE  /\ Folders \subseteq Paths
           /\ world.command = Mass => \A a \in Folders : IsFixtureFolder(a)
           /\ world.command # Mass => Folders = {Root}
<1>1. Root \in Paths
  BY DEF Root, Paths
<1>2. RegenerateFolders \subseteq Paths /\ \A a \in RegenerateFolders : IsFixtureFolder(a)
  BY WorldTyped DEF RegenerateFolders
<1> QED
  BY <1>1, <1>2 DEF Folders

(***************************************************************************)
(* The pairs of a folder and one of its files.                             *)
(***************************************************************************)
LEMMA WorksAre ==
    ASSUME world \in Worlds
    PROVE  /\ \A w \in Works : /\ w = <<w[1], w[2]>>
                               /\ w[1] \in Folders /\ w[2] \in FilesOf(w[1])
                               /\ w[2] \in world.files
           /\ \A folder \in Folders : \A f \in FilesOf(folder) :
                 <<folder, f>> \in Works /\ f \in world.files
<1>1. ASSUME NEW w \in Works
      PROVE  w = <<w[1], w[2]>> /\ w[1] \in Folders /\ w[2] \in FilesOf(w[1]) /\ w[2] \in world.files
  <2>1. w \in Folders \X world.files /\ (world.single \/ w[2] \in Inputs(w[1]))
    BY DEF Works, Folders
  <2> QED
    BY <2>1 DEF FilesOf
<1>2. ASSUME NEW folder \in Folders, NEW f \in FilesOf(folder)
      PROVE  <<folder, f>> \in Works /\ f \in world.files
  <2> DEFINE w == <<folder, f>>
  <2>1. f \in world.files /\ (world.single \/ f \in Inputs(folder))
    BY DEF FilesOf, Inputs
  <2>2. w \in Folders \X world.files /\ w[1] = folder /\ w[2] = f
    BY <2>1
  <2> HIDE DEF w
  <2>3. w \in Works
    BY <2>1, <2>2 DEF Works, Folders
  <2> QED
    BY <2>1, <2>3 DEF w
<1> QED
  BY <1>1, <1>2

\* There are finitely many files to do.
LEMMA WorksFinite ==
    ASSUME world \in Worlds
    PROVE  IsFiniteSet(Folders) /\ IsFiniteSet(Works)
<1>1. IsFiniteSet(world.files)
  BY WorldTyped
<1>2. IsFiniteSet(Folders)
  <2>1. CASE world.command = Mass
    <3> DEFINE files == {f \in world.files : IsFixtureFolder(f.folder)}
               g == [f \in files |-> f.folder]
    <3>1. IsFiniteSet(files)
      BY <1>1, FS_Subset
    <3>2. Folders = {f.folder : f \in files}
      BY <2>1 DEF Folders, RegenerateFolders
    <3> HIDE DEF files
    <3>3. g \in Surjection(files, Folders)
      BY <3>2 DEF Surjection
    <3> QED
      BY <3>1, <3>3, FS_Surjection
  <2>2. CASE world.command # Mass
    BY <2>2, FS_Singleton DEF Folders
  <2> QED
    BY <2>1, <2>2
<1>3. Works \subseteq Folders \X world.files
  BY DEF Works, Folders
<1>4. IsFiniteSet(Folders \X world.files)
  BY <1>1, <1>2, FS_Product
<1> QED
  BY <1>2, <1>3, <1>4, FS_Subset

\* A set with two different elements has more than one.
LEMMA AtLeastTwo ==
    ASSUME NEW S, IsFiniteSet(S), NEW a \in S, NEW b \in S, a # b
    PROVE  Cardinality(S) > 1
<1>1. Cardinality({a, b}) = 2 /\ IsFiniteSet({a, b})
  <2>1. IsFiniteSet({a}) /\ Cardinality({a}) = 1
    BY FS_Singleton
  <2>2. {a, b} = {a} \cup {b}
    OBVIOUS
  <2> QED
    BY <2>1, <2>2, FS_AddElement
<1>2. Cardinality({a, b}) <= Cardinality(S)
  BY FS_Subset
<1> QED
  BY <1>1, <1>2, FS_CardinalityType

-----------------------------------------------------------------------------
(***************************************************************************)
(* mass-regenerate-fixtures: what becomes of a file is the same in every   *)
(* folder, but for the folder it is written to.                            *)
(***************************************************************************)
LEMMA MassAnswers ==
    ASSUME world \in Worlds, world.command = Mass, NEW f
    PROVE  \/ \E answer : /\ answer # "written"
                          /\ \A out \in Paths : Handler(out, f) = Only(answer)
           \/ \E content : \A out \in Paths :
                 Handler(out, f) = Written(PathOf(out, f.stem, "fix"), content)
<1>0. ~world.byProgram /\ ~world.readable /\ ~world.keepPassing
  <2>1. \A o \in {"byProgram", "readable", "keepPassing"} : o \in DOMAIN Defaults \ OptionsOf(Mass)
    BY DEF Defaults, OptionsOf, Mass, MassOptions
  <2>2. \A o \in {"byProgram", "readable", "keepPassing"} : world[o] = Defaults[o]
    BY <2>1, WorldsAssumption
  <2>3. \A o \in {"byProgram", "readable", "keepPassing"} : Defaults[o] = FALSE
    BY DEF Defaults
  <2> QED
    BY <2>2, <2>3
<1> DEFINE features == NewFeatures(f)
           harness == HarnessOf(f)
           content == Content("fixture", harness, f.context, features, Execute(f.context, features))
           Its(out) == PathOf(out, f.stem, "fix")
           ctx == [ExtractFbContext(f) EXCEPT !.features = ComputeNewFeatureSet(@)]
           effects == ProcessTargetRaw(f.entrypoint, ctx)
           native == BuildFbFixture(ctx, effects[1])
           Plain == /\ ~IsNative(f) /\ ReadsFixture(f) /\ harness \notin ScalarHarnesses
                    /\ HasFeatureSet(harness) /\ ~world.dryRun
           Fixed == \E answer : /\ answer # "written"
                                /\ \A out \in Paths : Handler(out, f) = Only(answer)
           Wrote == \E c : \A out \in Paths : Handler(out, f) = Written(Its(out), c)
<1>1. \A out : Handler(out, f) = RegenerateFixture(out, f)
  BY DEF Handler, Regenerations, Mass
<1>2. ASSUME NEW out \in Paths, NEW c
      PROVE  WriteFixtureToDisk(out, f, c) = Written(Its(out), c)
  <2>1. out \o << >> = out
    BY DEF Paths
  <2> QED
    BY <1>0, <2>1 DEF WriteFixtureToDisk
<1>3. ASSUME NEW out \in Paths
      PROVE  Regenerated(out, f, features) =
                IF harness \in ScalarHarnesses THEN Only("raises")
                ELSE IF Rejects(f.context) THEN Only("skipped")
                ELSE Written(Its(out), content)
  <2>1. WriteFixtureToDisk(out, f, content) = Written(Its(out), content)
    BY <1>2
  <2> HIDE DEF Its
  <2> QED
    BY <1>0, <2>1 DEF Regenerated, CreateFixtureFromContext
<1> HIDE DEF content, features
<1>4. CASE IsNative(f)
  <2>1. \A out : Handler(out, f) = RegenerateFbFixture(out, f)
    BY <1>1, <1>4 DEF RegenerateFixture
  <2> HIDE DEF ctx
  <2>2. CASE world.dryRun
    <3>1. \A out : Handler(out, f) = Only("dry")
      BY <2>1, <2>2 DEF RegenerateFbFixture
    <3> QED
      BY <3>1
  <2>3. CASE ~world.dryRun /\ effects = << >>
    <3>1. \A out : Handler(out, f) = Only("skipped")
      BY <2>1, <2>3 DEF RegenerateFbFixture, ctx
    <3> QED
      BY <3>1
  <2>4. CASE ~world.dryRun /\ effects # << >>
    <3>1. \A out : Handler(out, f) = Written(Its(out), native)
      BY <2>1, <2>4 DEF RegenerateFbFixture, ctx
    <3> QED
      BY <3>1
  <2> QED
    BY <2>2, <2>3, <2>4
<1>5. CASE Plain
  <2>0. HarnessOf(f) \in Harnesses \ ScalarHarnesses
    BY <1>5 DEF ReadsFixture, HarnessOf, HarnessForEntrypoint, NoHarness
  <2> DEFINE rest(out) == CASE ~HasFeatureSet(HarnessOf(f)) -> Only("raises")
                            [] HasFeatureSet(HarnessOf(f)) /\ world.dryRun -> Only("dry")
                            [] OTHER -> Regenerated(out, f, NewFeatures(f))
  <2>1. ASSUME NEW out PROVE RegenerateFixture(out, f) = rest(out)
    <3> HIDE DEF rest
    <3> QED
      BY <1>5, <2>0 DEF RegenerateFixture, rest
  <2>2. ASSUME NEW out PROVE rest(out) = Regenerated(out, f, features)
    BY <1>5 DEF features
  <2>3. \A out : Handler(out, f) = Regenerated(out, f, features)
    <3> HIDE DEF rest
    <3> QED
      BY <1>1, <2>1, <2>2
  <2>4. CASE Rejects(f.context)
    <3>1. \A out \in Paths : Handler(out, f) = Only("skipped")
      BY <1>3, <1>5, <2>3, <2>4
    <3> QED
      BY <3>1
  <2>5. CASE ~Rejects(f.context)
    <3>1. \A out \in Paths : Handler(out, f) = Written(Its(out), content)
      BY <1>3, <1>5, <2>3, <2>5
    <3> QED
      BY <3>1
  <2> QED
    BY <2>4, <2>5
<1>6. CASE ~IsNative(f) /\ ~ReadsFixture(f)
  <2>1. DetectFormat(f) = "flatbuffers" => LoadedAs(f) # "flatbuffers"
    BY <1>6 DEF IsNative, LoadedAs
  <2>2. HarnessOf(f) = NoHarness
    BY <1>6, <2>1 DEF ReadsFixture
  <2>3. \A out : Handler(out, f) = Only("raises")
    BY <1>1, <1>6, <2>2 DEF RegenerateFixture, Harnesses, ScalarHarnesses, NoHarness
  <2> QED
    BY <2>3
<1>7. CASE ~IsNative(f) /\ ReadsFixture(f) /\ harness \in ScalarHarnesses
  <2>1. \A out : Handler(out, f) = Only("None")
    BY <1>1, <1>7 DEF RegenerateFixture
  <2> QED
    BY <2>1
<1>8. CASE /\ ~IsNative(f) /\ ReadsFixture(f) /\ harness \notin ScalarHarnesses
           /\ ~(HasFeatureSet(harness) /\ ~world.dryRun)
  <2>0. HarnessOf(f) \in Harnesses \ ScalarHarnesses
    BY <1>8 DEF ReadsFixture, HarnessOf, HarnessForEntrypoint, NoHarness
  <2>1. CASE ~HasFeatureSet(harness)
    <3>1. \A out : Handler(out, f) = Only("raises")
      BY <1>1, <1>8, <2>0, <2>1 DEF RegenerateFixture
    <3> QED
      BY <3>1
  <2>2. CASE HasFeatureSet(harness) /\ world.dryRun
    <3>1. \A out : Handler(out, f) = Only("dry")
      BY <1>1, <1>8, <2>0, <2>2 DEF RegenerateFixture
    <3> QED
      BY <3>1
  <2> QED
    BY <1>8, <2>1, <2>2
<1> QED
  BY <1>4, <1>5, <1>6, <1>7, <1>8

\* Where a file is written to, and that it is the folder's own.
Filed(folder, f) == PathOf(folder, f.stem, "fix")

\* A file written from two folders is written alike, in each under its own.
LEMMA MassIs ==
    ASSUME world \in Worlds, world.command = Mass, NEW f, NEW a \in Folders, NEW b \in Folders
    PROVE  /\ Handler(a, f).to \in {NoPath, Filed(a, f)}
           /\ Handler(a, f).answer = "written" => Handler(a, f).to = Filed(a, f)
           /\ Handler(a, f).answer = Handler(b, f).answer
           /\ Handler(a, f).content = Handler(b, f).content
           /\ Filed(a, f) # NoPath /\ Filed(a, f).folder = a /\ Filed(a, f).stem = f.stem
<1>1. a \in Paths /\ b \in Paths
  BY FoldersTyped
<1>2. Filed(a, f) # NoPath /\ Filed(a, f).folder = a /\ Filed(a, f).stem = f.stem
  BY DEF Filed, PathOf, NoPath
<1>3. CASE \E answer : answer # "written" /\ \A out \in Paths : Handler(out, f) = Only(answer)
  <2>1. PICK answer : answer # "written" /\ \A out \in Paths : Handler(out, f) = Only(answer)
    BY <1>3
  <2>2. /\ Only(answer).answer = answer /\ Only(answer).to = NoPath
        /\ Only(answer).content = Debris("nothing")
    BY DEF Only
  <2> QED
    BY <1>1, <1>2, <2>1, <2>2
<1>4. CASE \E content : \A out \in Paths :
              Handler(out, f) = Written(PathOf(out, f.stem, "fix"), content)
  <2>1. PICK content : \A out \in Paths : Handler(out, f) = Written(Filed(out, f), content)
    BY <1>4 DEF Filed
  <2>2. \A p : /\ Written(p, content).answer = "written" /\ Written(p, content).to = p
               /\ Written(p, content).content = content
    BY DEF Written
  <2> QED
    BY <1>1, <1>2, <2>1, <2>2
<1> QED
  BY <1>3, <1>4, MassAnswers

-----------------------------------------------------------------------------
(***************************************************************************)
(* How far a command is.                                                   *)
(***************************************************************************)
Done == IF phase = "tasks" THEN Folders \ (folders \cup {current}) ELSE Folders \ folders
Running == phase \in {"folder", "tasks", "returned"}
States == {"waiting", "opening", "writing", "settled"}
Active == At("opening") \cup At("writing")

Placed ==
    /\ world \in Worlds
    /\ phase \in {"begin", "folder", "tasks", "returned", "raised", "exited", "refused"}
    /\ folders \subseteq Folders
    /\ count \in Nat
    /\ phase = "begin" => output = world.before /\ count = 0
    /\ phase = "returned" => folders = {}
    /\ phase = "tasks" => current \in Folders \ folders

Tasked(f) ==
    /\ task[f] = [at |-> task[f].at, does |-> task[f].does]
    /\ task[f].at \in States
    /\ task[f].at # "waiting" => task[f].does = Handler(current, f)
    /\ task[f].at \in {"opening", "writing"} => task[f].does.to # NoPath

Tasks ==
    phase = "tasks" =>
        /\ DOMAIN task = FilesOf(current)
        /\ \A f \in DOMAIN task : Tasked(f)

OneAtATime ==
    phase = "tasks" /\ Serial =>
        /\ \A f, g \in Active : f = g
        /\ \A f \in At("settled") : task[f].does.answer = "raises" => Active = {}

Opened ==
    phase = "tasks" =>
        \A f \in At("writing") \cup At("settled") :
            task[f].does.to \in DOMAIN output \cup {NoPath}

Progress == Placed /\ Tasks /\ OneAtATime /\ Opened

\* The answers, and what stops a serial command.
LEMMA AnsweredAre ==
    /\ DOMAIN Answered = At("settled")
    /\ \A f \in At("settled") : Answered[f] = task[f].does.answer
    /\ Stopped <=> Serial /\ \E f \in At("settled") : task[f].does.answer = "raises"
BY DEF Answered, Stopped

(***************************************************************************)
(* What the three steps of a task change.                                  *)
(***************************************************************************)
Others(f) == DOMAIN task' = DOMAIN task /\ \A g \in DOMAIN task : g # f => task'[g] = task[g]
Stays == UNCHANGED <<world, phase, folders, current, count>>

\* Take hands a waiting file to its handler and writes nothing.
LEMMA TakeSteps ==
    ASSUME NEW f, Take(f)
    PROVE  /\ phase = "tasks" /\ f \in DOMAIN task /\ task[f].at = "waiting"
           /\ Others(f) /\ Stays /\ output' = output
           /\ task'[f] = [at |-> IF Handler(current, f).to = NoPath THEN "settled" ELSE "opening",
                          does |-> Handler(current, f)]
           /\ ~Stopped /\ (Serial => Cardinality(Active) < 1)
BY DEF Take, At, Others, Stays, Active

\* Open leaves the file of that name empty.
LEMMA OpenSteps ==
    ASSUME NEW f, Open(f), Tasks
    PROVE  /\ phase = "tasks" /\ f \in DOMAIN task /\ task[f].at = "opening"
           /\ Others(f) /\ Stays
           /\ output' = Put(task[f].does.to, Debris("empty"))
           /\ task'[f] = [at |-> "writing", does |-> task[f].does]
<1>1. phase = "tasks" /\ f \in DOMAIN task /\ task[f].at = "opening"
  BY DEF Open, At
<1>2. task[f] = [at |-> task[f].at, does |-> task[f].does]
  BY <1>1 DEF Tasks, Tasked
<1>3. task' = [task EXCEPT ![f].at = "writing"]
  BY DEF Open
<1>4. task'[f] = [at |-> "writing", does |-> task[f].does]
  BY <1>1, <1>2, <1>3
<1> QED
  BY <1>1, <1>3, <1>4 DEF Open, Others, Stays

\* Write leaves what the handler answered, or a mixture of two.
LEMMA WriteSteps ==
    ASSUME NEW f, Write(f), Tasks, Opened
    PROVE  /\ phase = "tasks" /\ f \in DOMAIN task /\ task[f].at = "writing"
           /\ Others(f) /\ Stays
           /\ task'[f] = [at |-> "settled", does |-> task[f].does]
           /\ task[f].does.to \in DOMAIN output /\ DOMAIN output' = DOMAIN output
           /\ \A p \in DOMAIN output : p # task[f].does.to => output'[p] = output[p]
           /\ \/ output'[task[f].does.to] = task[f].does.content
              \/ /\ output[task[f].does.to] \notin {Debris("empty"), task[f].does.content}
                 /\ output'[task[f].does.to] = Debris("mixed")
<1>1. phase = "tasks" /\ f \in DOMAIN task /\ task[f].at = "writing"
  BY DEF Write, At
<1>2. task[f] = [at |-> task[f].at, does |-> task[f].does]
  BY <1>1 DEF Tasks, Tasked
<1>3. task' = [task EXCEPT ![f].at = "settled"]
  BY DEF Write
<1>4. task'[f] = [at |-> "settled", does |-> task[f].does]
  BY <1>1, <1>2, <1>3
<1>5. task[f].does.to \in DOMAIN output
  BY <1>1 DEF Opened, Tasks, Tasked, At
<1>6. PICK content \in {task[f].does.content} \cup
             (IF output[task[f].does.to] \in {Debris("empty"), task[f].does.content}
              THEN {} ELSE {Debris("mixed")}) :
          output' = [output EXCEPT ![task[f].does.to] = content]
  BY DEF Write
<1>7. DOMAIN output' = DOMAIN output /\ output'[task[f].does.to] = content
  BY <1>5, <1>6
<1>8. \A p \in DOMAIN output : p # task[f].does.to => output'[p] = output[p]
  BY <1>5, <1>6
<1> QED
  BY <1>1, <1>3, <1>4, <1>5, <1>6, <1>7, <1>8 DEF Write, Others, Stays

\* A command that has not begun has no tasks.
LEMMA ProgressInit == Init => Progress
<1> SUFFICES ASSUME Init PROVE Progress
  OBVIOUS
<1>1. Placed
  BY DEF Init, Placed
<1> QED
  BY <1>1 DEF Init, Progress, Tasks, OneAtATime, Opened

\* Not in a folder, there is nothing to say of tasks.
LEMMA NoTasks == phase # "tasks" => Tasks /\ OneAtATime /\ Opened
BY DEF Tasks, OneAtATime, Opened

\* Begin chooses the folders.
LEMMA ProgressBegin == Progress /\ Begin => Progress'
<1> SUFFICES ASSUME Progress, Begin PROVE Progress'
  OBVIOUS
<1>1. world' = world /\ phase' = "folder" /\ count' = count /\ folders' = Folders
  BY DEF Begin, Folders
<1>2. Folders' = Folders
  BY <1>1, SameWorks
<1>3. Placed'
  BY <1>1, <1>2 DEF Progress, Placed
<1> QED
  BY <1>1, <1>3 DEF Progress, Tasks, OneAtATime, Opened

\* NextFolder hands over the files of one folder, all waiting.
LEMMA FolderSteps ==
    ASSUME NEW folder, NextFolder(folder)
    PROVE  /\ phase = "folder" /\ phase' = "tasks" /\ folder \in folders
           /\ folders' = folders \ {folder} /\ current' = folder
           /\ world' = world /\ count' = count
           /\ DOMAIN task' = FilesOf(folder)
           /\ \A f \in DOMAIN task' : task'[f] = [at |-> "waiting", does |-> Only("nothing")]
           /\ output' = IF world.command = Mass THEN Cleared(folder) ELSE output
<1>1. task' = Given(FilesOf(folder))
  BY DEF NextFolder, FilesOf
<1>2. /\ DOMAIN task' = FilesOf(folder)
      /\ \A f \in DOMAIN task' : task'[f] = [at |-> "waiting", does |-> Only("nothing")]
  BY <1>1 DEF Given
<1> QED
  BY <1>2 DEF NextFolder

\* At its start nobody has opened a file.
LEMMA AllWaiting ==
    ASSUME NEW folder, NextFolder(folder)
    PROVE  At("opening")' = {} /\ At("writing")' = {} /\ At("settled")' = {}
<1>1. \A f \in DOMAIN task' : task'[f].at = "waiting"
  BY FolderSteps
<1> QED
  BY <1>1 DEF At

\* The folder that is taken is taken no more.
LEMMA ProgressFolder ==
    ASSUME Progress, NEW folder, NextFolder(folder)
    PROVE  Progress'
<1>1. /\ phase' = "tasks" /\ folder \in folders
      /\ folders' = folders \ {folder} /\ current' = folder
      /\ world' = world /\ count' = count
      /\ DOMAIN task' = FilesOf(folder)
      /\ \A f \in DOMAIN task' : task'[f] = [at |-> "waiting", does |-> Only("nothing")]
  BY FolderSteps
<1>2. Folders' = Folders /\ FilesOf(folder)' = FilesOf(folder)
  BY <1>1, SameWorks
<1>3. At("opening")' = {} /\ At("writing")' = {} /\ At("settled")' = {}
  BY AllWaiting
<1>4. Placed'
  BY <1>1, <1>2 DEF Progress, Placed
<1>5. Tasks'
  <2>1. FilesOf(current)' = FilesOf(folder)
    BY <1>1, <1>2 DEF FilesOf, Inputs
  <2>2. ASSUME NEW f \in DOMAIN task' PROVE Tasked(f)'
    BY <1>1 DEF Tasked, States
  <2> QED
    BY <1>1, <2>1, <2>2 DEF Tasks
<1>6. OneAtATime' /\ Opened'
  BY <1>3 DEF OneAtATime, Opened, Active
<1> QED
  BY <1>4, <1>5, <1>6 DEF Progress

(***************************************************************************)
(* A step of one task, seen from the others.                               *)
(***************************************************************************)
LEMMA ProgressTask ==
    ASSUME Progress, phase = "tasks", Stays, NEW f \in DOMAIN task, Others(f), Tasked(f)'
    PROVE  Placed' /\ Tasks'
<1>1. /\ world' = world /\ phase' = phase /\ folders' = folders
      /\ current' = current /\ count' = count
  BY DEF Stays
<1>2. Folders' = Folders /\ FilesOf(current)' = FilesOf(current)
  <2>1. FilesOf(current)' = FilesOf(current)
    BY <1>1 DEF FilesOf, Inputs
  <2> QED
    BY <1>1, <2>1, SameWorks
<1>3. Placed'
  BY <1>1, <1>2 DEF Progress, Placed
<1>4. ASSUME NEW g \in DOMAIN task' PROVE Tasked(g)'
  <2>1. CASE g = f
    BY <2>1
  <2>2. CASE g # f
    <3>1. g \in DOMAIN task /\ task'[g] = task[g]
      BY <2>2 DEF Others
    <3>2. Handler(current, g)' = Handler(current, g)
      <4>1. \A out, x : Handler(out, x)' = Handler(out, x)
        BY <1>1, SameHandler
      <4> QED
        BY <1>1, <4>1
    <3>3. Tasked(g)
      BY <3>1 DEF Progress, Tasks
    <3> QED
      BY <3>1, <3>2, <3>3 DEF Tasked
  <2> QED
    BY <2>1, <2>2
<1>5. Tasks'
  BY <1>1, <1>2, <1>4 DEF Others, Progress, Tasks
<1> QED
  BY <1>3, <1>5

\* The files a folder is working on are files of the world, finitely many.
LEMMA TaskFiles ==
    ASSUME Placed, Tasks, phase = "tasks"
    PROVE  /\ DOMAIN task = FilesOf(current) /\ DOMAIN task \subseteq world.files
           /\ IsFiniteSet(DOMAIN task)
           /\ \A f \in DOMAIN task : Tasked(f) /\ <<current, f>> \in Works
<1>1. world \in Worlds /\ current \in Folders
  BY DEF Placed
<1>2. DOMAIN task = FilesOf(current) /\ \A f \in DOMAIN task : Tasked(f)
  BY DEF Tasks
<1>3. \A f \in DOMAIN task : <<current, f>> \in Works /\ f \in world.files
  BY <1>1, <1>2, WorksAre
<1>4. IsFiniteSet(world.files)
  BY <1>1, WorldTyped
<1> QED
  BY <1>2, <1>3, <1>4, FS_Subset

\* Take: a serial command takes the next file when the last is settled.
LEMMA ProgressTake ==
    ASSUME Progress, NEW f, Take(f)
    PROVE  Progress'
<1>1. /\ phase = "tasks" /\ f \in DOMAIN task /\ task[f].at = "waiting"
      /\ Others(f) /\ Stays /\ output' = output
      /\ task'[f] = [at |-> IF Handler(current, f).to = NoPath THEN "settled" ELSE "opening",
                     does |-> Handler(current, f)]
      /\ ~Stopped /\ (Serial => Cardinality(Active) < 1)
  BY TakeSteps
<1>2. Handler(current, f)' = Handler(current, f)
  <2>1. world' = world /\ current' = current
    BY <1>1 DEF Stays
  <2>2. \A out, x : Handler(out, x)' = Handler(out, x)
    BY <2>1, SameHandler
  <2> QED
    BY <2>1, <2>2
<1>3. Tasked(f)'
  BY <1>1, <1>2 DEF Tasked, States
<1>4. Placed' /\ Tasks'
  BY <1>1, <1>3, ProgressTask
<1>5. Serial' <=> Serial
  BY <1>1, SameWorks DEF Stays
<1>6. \A g \in DOMAIN task' : g # f => g \in DOMAIN task /\ task'[g] = task[g]
  BY <1>1 DEF Others
<1>7. Serial => Active = {}
  <2> SUFFICES ASSUME Serial PROVE Active = {}
    OBVIOUS
  <2>1. IsFiniteSet(DOMAIN task) /\ Active \subseteq DOMAIN task
    BY <1>1, TaskFiles DEF Progress, Active, At
  <2>2. IsFiniteSet(Active)
    BY <2>1, FS_Subset
  <2>3. Cardinality(Active) \in Nat /\ Cardinality(Active) < 1
    BY <1>1, <2>2, FS_CardinalityType
  <2> QED
    BY <2>2, <2>3, FS_EmptySet
<1>8. OneAtATime'
  <2> SUFFICES ASSUME Serial
               PROVE  /\ \A g, h \in Active' : g = h
                      /\ \A g \in At("settled")' : task'[g].does.answer = "raises" => Active' = {}
    BY <1>5 DEF OneAtATime
  <2>1. \A g \in Active' : g = f /\ task'[f].at = "opening"
    BY <1>1, <1>6, <1>7 DEF Active, At
  <2>2. ASSUME NEW g \in At("settled")', task'[g].does.answer = "raises" PROVE Active' = {}
    <3>1. CASE g = f
      BY <2>1, <2>2, <3>1 DEF At
    <3>2. CASE g # f
      <4>1. g \in At("settled") /\ task[g].does.answer = "raises"
        BY <1>6, <2>2, <3>2 DEF At
      <4> QED
        BY <1>1, <4>1, AnsweredAre
    <3> QED
      BY <3>1, <3>2
  <2> QED
    BY <2>1, <2>2
<1>9. Opened'
  BY <1>1, <1>6 DEF Opened, Progress, At, Stays
<1> QED
  BY <1>4, <1>8, <1>9 DEF Progress

\* Open: the path is there from now on.
LEMMA ProgressOpen ==
    ASSUME Progress, NEW f, Open(f)
    PROVE  Progress'
<1>1. /\ phase = "tasks" /\ f \in DOMAIN task /\ task[f].at = "opening"
      /\ Others(f) /\ Stays
      /\ output' = Put(task[f].does.to, Debris("empty"))
      /\ task'[f] = [at |-> "writing", does |-> task[f].does]
  BY OpenSteps DEF Progress
<1>2. Handler(current, f)' = Handler(current, f)
  <2>1. world' = world /\ current' = current
    BY <1>1 DEF Stays
  <2>2. \A out, x : Handler(out, x)' = Handler(out, x)
    BY <2>1, SameHandler
  <2> QED
    BY <2>1, <2>2
<1>3. Tasked(f)'
  <2>1. Tasked(f)
    BY <1>1 DEF Progress, Tasks
  <2> QED
    BY <1>1, <1>2, <2>1 DEF Tasked, States
<1>4. Placed' /\ Tasks'
  BY <1>1, <1>3, ProgressTask
<1>5. Serial' <=> Serial
  BY <1>1, SameWorks DEF Stays
<1>6. \A g \in DOMAIN task' : g # f => g \in DOMAIN task /\ task'[g] = task[g]
  BY <1>1 DEF Others
<1>7. OneAtATime'
  <2>1. Active' = Active /\ At("settled")' = At("settled")
    BY <1>1, <1>6 DEF Active, At, Others
  <2>2. \A g \in At("settled") : task'[g] = task[g]
    BY <1>1, <1>6 DEF At, Others
  <2> QED
    BY <1>1, <1>5, <2>1, <2>2 DEF OneAtATime, Progress
<1>8. Opened'
  <2>1. DOMAIN output' = DOMAIN output \cup {task[f].does.to}
    BY <1>1 DEF Put
  <2> QED
    BY <1>1, <1>6, <2>1 DEF Opened, Progress, At, Stays
<1> QED
  BY <1>4, <1>7, <1>8 DEF Progress

\* Write: the path stays, the task is settled.
LEMMA ProgressWrite ==
    ASSUME Progress, NEW f, Write(f)
    PROVE  Progress'
<1>1. /\ phase = "tasks" /\ f \in DOMAIN task /\ task[f].at = "writing"
      /\ Others(f) /\ Stays
      /\ task'[f] = [at |-> "settled", does |-> task[f].does]
      /\ task[f].does.to \in DOMAIN output /\ DOMAIN output' = DOMAIN output
  BY WriteSteps DEF Progress
<1>2. Handler(current, f)' = Handler(current, f)
  <2>1. world' = world /\ current' = current
    BY <1>1 DEF Stays
  <2>2. \A out, x : Handler(out, x)' = Handler(out, x)
    BY <2>1, SameHandler
  <2> QED
    BY <2>1, <2>2
<1>3. Tasked(f)'
  <2>1. Tasked(f)
    BY <1>1 DEF Progress, Tasks
  <2> QED
    BY <1>1, <1>2, <2>1 DEF Tasked, States
<1>4. Placed' /\ Tasks'
  BY <1>1, <1>3, ProgressTask
<1>5. Serial' <=> Serial
  BY <1>1, SameWorks DEF Stays
<1>6. \A g \in DOMAIN task' : g # f => g \in DOMAIN task /\ task'[g] = task[g]
  BY <1>1 DEF Others
<1>7. OneAtATime'
  <2> SUFFICES ASSUME Serial
               PROVE  /\ \A g, h \in Active' : g = h
                      /\ \A g \in At("settled")' : task'[g].does.answer = "raises" => Active' = {}
    BY <1>5 DEF OneAtATime
  <2>1. \A g \in Active : g = f
    BY <1>1 DEF Progress, OneAtATime, Active, At
  <2>2. Active' = {}
    BY <1>1, <1>6, <2>1 DEF Active, At
  <2> QED
    BY <2>2
<1>8. Opened'
  BY <1>1, <1>6 DEF Opened, Progress, At, Stays
<1> QED
  BY <1>4, <1>7, <1>8 DEF Progress

\* FolderDone adds a number of answers.
LEMMA ProgressDone == Progress /\ FolderDone => Progress'
<1> SUFFICES ASSUME Progress, FolderDone PROVE Progress'
  OBVIOUS
<1>1. /\ phase = "tasks" /\ phase' = "folder" /\ world' = world /\ folders' = folders
      /\ count' = count + Counted(Answered)
  BY DEF FolderDone
<1>2. Counted(Answered) \in Nat
  <2> DEFINE adds == {f \in DOMAIN Answered : Answered[f] \in {"written", "dry"}}
  <2>1. adds \subseteq DOMAIN task
    BY AnsweredAre DEF At
  <2>2. IsFiniteSet(DOMAIN task)
    BY <1>1, TaskFiles DEF Progress
  <2> HIDE DEF adds
  <2>3. Cardinality(adds) \in Nat
    BY <2>1, <2>2, FS_Subset, FS_CardinalityType
  <2> QED
    BY <2>3 DEF Counted, adds
<1>3. Placed'
  <2>1. Folders' = Folders
    BY <1>1, SameWorks
  <2> QED
    BY <1>1, <1>2, <2>1 DEF Progress, Placed
<1> QED
  BY <1>1, <1>3 DEF Progress, Tasks, OneAtATime, Opened

(***************************************************************************)
(* The other steps end the command.                                        *)
(***************************************************************************)
Ends == Refuse \/ Die \/ Fail \/ Return

\* The steps that end a command.
LEMMA ProgressEnds == Progress /\ Ends => Progress'
<1> SUFFICES ASSUME Progress, Ends PROVE Progress'
  OBVIOUS
<1>1. /\ phase' \in {"refused", "exited", "raised", "returned"}
      /\ phase' = "returned" => folders = {}
      /\ world' = world /\ folders' = folders /\ count' = count
  BY DEF Ends, Refuse, Die, Fail, Return
<1>2. Folders' = Folders
  BY <1>1, SameWorks
<1>3. Placed'
  BY <1>1, <1>2 DEF Progress, Placed
<1> QED
  BY <1>1, <1>3 DEF Progress, Tasks, OneAtATime, Opened

\* Nothing changes.
LEMMA ProgressStutter == Progress /\ UNCHANGED vars => Progress'
<1> SUFFICES ASSUME Progress, UNCHANGED vars PROVE Progress'
  OBVIOUS
<1>1. UNCHANGED <<world, phase, folders, current, task, output, count>>
  BY DEF vars
<1>2. Folders' = Folders /\ (Serial' <=> Serial) /\ FilesOf(current)' = FilesOf(current)
  <2>1. FilesOf(current)' = FilesOf(current)
    BY <1>1 DEF FilesOf, Inputs
  <2> QED
    BY <1>1, <2>1, SameWorks
<1>3. \A f : Handler(current, f)' = Handler(current, f)
  <2>1. \A out, x : Handler(out, x)' = Handler(out, x)
    BY <1>1, SameHandler
  <2> QED
    BY <1>1, <2>1
<1>4. Placed'
  BY <1>1, <1>2 DEF Progress, Placed
<1>5. Tasks'
  BY <1>1, <1>2, <1>3 DEF Progress, Tasks, Tasked
<1>6. OneAtATime' /\ Opened'
  BY <1>1, <1>2 DEF Progress, OneAtATime, Opened, Active, At
<1> QED
  BY <1>4, <1>5, <1>6 DEF Progress

\* How far a command is, in every state it can reach.
THEOREM CommandProgress == Spec => []Progress
<1>1. Init => Progress
  BY ProgressInit
<1>2. Progress /\ [Next]_vars => Progress'
  <2> SUFFICES ASSUME Progress, [Next]_vars PROVE Progress'
    OBVIOUS
  <2>1. CASE Next
    BY <2>1, ProgressBegin, ProgressFolder, ProgressTake, ProgressOpen, ProgressWrite,
       ProgressDone, ProgressEnds DEF Next, Ends
  <2> QED
    BY <2>1, ProgressStutter
<1> QED
  BY <1>1, <1>2, PTL DEF Spec

-----------------------------------------------------------------------------
\* What the output folder holds.

Wrote(p, content) == \E w \in Writers(p) : content = Handler(w[1], w[2]).content

RightIs(p, content) ==
    \/ world.command = Mass /\ p \in DOMAIN Copied /\ content = Debris("copied")
    \/ Wrote(p, content)
    \/ ~Serial /\ Cardinality(Writers(p)) > 1 /\ content = Debris("mixed")

Sources ==
    \A p \in DOMAIN output :
        \/ output[p] \in {Debris("old"), Debris("copied"), Debris("empty"), Debris("mixed")}
        \/ Wrote(p, output[p])

Mine ==
    phase = "tasks" =>
        \A f \in At("writing") :
            \/ output[task[f].does.to] \in {Debris("empty"), task[f].does.content}
            \/ /\ ~Serial
               /\ \E g \in DOMAIN task \ {f} :
                     task[g].at # "waiting" /\ task[g].does.to = task[f].does.to

OpenAt(p) == phase = "tasks" /\ \E f \in At("writing") : task[f].does.to = p

Contents ==
    world.command \notin ReadOnly /\ (Running \/ phase = "raised") =>
        \A p \in DOMAIN output : RightIs(p, output[p]) \/ OpenAt(p)

Whole == Sources /\ Mine /\ Contents

\* Whether a file may hold a content depends on the world alone.
LEMMA SameRight ==
    ASSUME world' = world
    PROVE  \A p, content : /\ Wrote(p, content)' <=> Wrote(p, content)
                           /\ RightIs(p, content)' <=> RightIs(p, content)
<1> SUFFICES ASSUME NEW p, NEW content
             PROVE  /\ Wrote(p, content)' <=> Wrote(p, content)
                    /\ RightIs(p, content)' <=> RightIs(p, content)
  OBVIOUS
<1>1. /\ Writers(p)' = Writers(p) /\ Copied' = Copied /\ (Serial' <=> Serial)
      /\ \A out, f : Handler(out, f)' = Handler(out, f)
  BY SameWriters, SameWorks, SameHandler
<1>2. Wrote(p, content)' <=> Wrote(p, content)
  BY <1>1 DEF Wrote
<1> QED
  BY <1>1, <1>2 DEF RightIs

\* Of files that stay, nothing changes.
LEMMA FewerFiles ==
    ASSUME world' = world, DOMAIN output' \subseteq DOMAIN output,
           \A p \in DOMAIN output' : output'[p] = output[p]
    PROVE  /\ Sources => Sources'
           /\ (\A p \in DOMAIN output : RightIs(p, output[p])) =>
                 (\A p \in DOMAIN output : RightIs(p, output[p]))'
<1>1. \A p, content : /\ Wrote(p, content)' <=> Wrote(p, content)
                      /\ RightIs(p, content)' <=> RightIs(p, content)
  BY SameRight
<1>2. ASSUME NEW p \in DOMAIN output'
      PROVE  /\ Wrote(p, output[p])' <=> Wrote(p, output[p])
             /\ RightIs(p, output[p])' <=> RightIs(p, output[p])
  <2>1. Wrote(p, output[p])' <=> Wrote(p, output[p])
    BY <1>1
  <2>2. RightIs(p, output[p])' <=> RightIs(p, output[p])
    BY <1>1
  <2> QED
    BY <2>1, <2>2
<1>3. Sources => Sources'
  BY <1>2 DEF Sources
<1>4. (\A p \in DOMAIN output : RightIs(p, output[p])) =>
         (\A p \in DOMAIN output : RightIs(p, output[p]))'
  BY <1>2
<1> QED
  BY <1>3, <1>4

\* Clearing a folder removes what is below it and nothing else.
LEMMA ClearedIs ==
    ASSUME NEW folder
    PROVE  /\ DOMAIN Cleared(folder) = {p \in DOMAIN output : ~IsPrefix(folder, p.folder)}
           /\ \A p \in DOMAIN Cleared(folder) : Cleared(folder)[p] = output[p]
BY DEF Cleared

\* The output folder holds what earlier runs left.
LEMMA WholeInit == Init => Whole
<1> SUFFICES ASSUME Init PROVE Whole
  OBVIOUS
<1>1. world \in Worlds /\ phase = "begin" /\ output = world.before
  BY DEF Init
<1>2. Sources
  BY <1>1, WorldTyped DEF Sources
<1> QED
  BY <1>1, <1>2 DEF Whole, Mine, Contents, Running

\* Begin removes all of that, or replaces it by the copied files.
LEMMA WholeBegin == Progress /\ Whole /\ Begin => Whole'
<1> SUFFICES ASSUME Progress, Whole, Begin PROVE Whole'
  OBVIOUS
<1>1. world' = world /\ phase = "begin" /\ phase' = "folder" /\ world \in Worlds /\ output = world.before
  BY DEF Begin, Progress, Placed
<1>2. Copied' = Copied
  BY <1>1, SameWorks
<1>3. CASE world.command = Mass
  <2>1. output' = Copied
    BY <1>3 DEF Begin
  <2>2. \A p \in DOMAIN output' : p \in DOMAIN Copied /\ output'[p] = Debris("copied")
    BY <2>1 DEF Copied
  <2>3. Sources'
    BY <2>2 DEF Sources
  <2>4. \A p \in DOMAIN output' : RightIs(p, output[p])'
    BY <1>1, <1>2, <1>3, <2>2 DEF RightIs
  <2> QED
    BY <1>1, <2>3, <2>4 DEF Whole, Mine, Contents
<1>4. CASE world.command # Mass /\ world.command \in ReadOnly
  <2>1. output' = output
    BY <1>4 DEF Begin
  <2>2. Sources'
    BY <1>1, <2>1, FewerFiles DEF Whole
  <2> QED
    BY <1>1, <1>4, <2>2 DEF Whole, Mine, Contents
<1>5. CASE world.command # Mass /\ world.command \notin ReadOnly
  <2>1. output' = Cleared(Root)
    BY <1>5 DEF Begin
  <2>2. \A p \in DOMAIN output : IsPrefix(Root, p.folder)
    BY <1>1, WorldTyped, PrefixIs
  <2>3. DOMAIN output' = {}
    BY <2>1, <2>2, ClearedIs
  <2> QED
    BY <1>1, <2>3 DEF Whole, Sources, Mine, Contents
<1> QED
  BY <1>3, <1>4, <1>5

\* Clearing a folder leaves fewer files, unchanged.
LEMMA WholeFolder ==
    ASSUME Progress, Whole, NEW folder, NextFolder(folder)
    PROVE  Whole'
<1>1. /\ world' = world /\ phase = "folder" /\ phase' = "tasks"
      /\ output' = IF world.command = Mass THEN Cleared(folder) ELSE output
  BY FolderSteps
<1>2. DOMAIN output' \subseteq DOMAIN output /\ \A p \in DOMAIN output' : output'[p] = output[p]
  BY <1>1, ClearedIs
<1>3. Sources'
  BY <1>1, <1>2, FewerFiles DEF Whole
<1>4. Mine'
  BY AllWaiting DEF Mine
<1>5. Contents'
  <2> SUFFICES ASSUME world.command \notin ReadOnly
               PROVE  (\A p \in DOMAIN output : RightIs(p, output[p]))'
    BY <1>1 DEF Contents
  <2>1. \A p \in DOMAIN output : RightIs(p, output[p])
    BY <1>1 DEF Whole, Contents, OpenAt, Running
  <2> QED
    BY <1>1, <1>2, <2>1, FewerFiles
<1> QED
  BY <1>3, <1>4, <1>5 DEF Whole

\* Taking a file changes no file.
LEMMA WholeTake ==
    ASSUME Progress, Whole, NEW f, Take(f)
    PROVE  Whole'
<1>1. /\ phase = "tasks" /\ f \in DOMAIN task /\ task[f].at = "waiting"
      /\ Others(f) /\ Stays /\ output' = output
      /\ task'[f].at # "writing"
  <2>1. task'[f] = [at |-> IF Handler(current, f).to = NoPath THEN "settled" ELSE "opening",
                    does |-> Handler(current, f)]
    BY TakeSteps
  <2>2. task'[f].at # "writing"
    BY <2>1
  <2> QED
    BY <2>2, TakeSteps
<1>2. world' = world /\ phase' = "tasks" /\ (Serial' <=> Serial)
  BY <1>1, SameWorks DEF Stays
<1>3. \A g \in DOMAIN task : g # f => task'[g] = task[g]
  BY <1>1 DEF Others
<1>4. \A g \in DOMAIN task : task[g].at # "waiting" => task'[g] = task[g]
  BY <1>1, <1>3
<1>5. At("writing")' = At("writing") /\ DOMAIN task' = DOMAIN task
  BY <1>1, <1>3 DEF At, Others
<1>6. Sources'
  BY <1>1, <1>2, FewerFiles DEF Whole
<1>7. Mine'
  <2>1. \A h \in At("writing") : h \in DOMAIN task /\ task[h].at = "writing"
    BY DEF At
  <2> QED
    BY <1>1, <1>2, <1>4, <1>5, <2>1 DEF Whole, Mine
<1>8. Contents'
  <2> SUFFICES ASSUME world.command \notin ReadOnly, NEW p \in DOMAIN output
               PROVE  RightIs(p, output[p])' \/ OpenAt(p)'
    BY <1>1, <1>2 DEF Contents
  <2>1. RightIs(p, output[p]) \/ OpenAt(p)
    BY <1>1 DEF Whole, Contents, Running
  <2>2. RightIs(p, output[p])' <=> RightIs(p, output[p])
    BY <1>1, <1>2, SameRight
  <2>3. OpenAt(p) => OpenAt(p)'
    <3>1. \A h \in At("writing") : task'[h] = task[h]
      BY <1>4 DEF At
    <3> QED
      BY <1>2, <1>5, <3>1 DEF OpenAt
  <2> QED
    BY <2>1, <2>2, <2>3
<1> QED
  BY <1>6, <1>7, <1>8 DEF Whole

\* An emptied file is open, and only other processes have written to it.
LEMMA WholeOpen ==
    ASSUME Progress, Whole, NEW f, Open(f)
    PROVE  Whole'
<1> DEFINE to == task[f].does.to
<1>1. /\ phase = "tasks" /\ f \in DOMAIN task /\ task[f].at = "opening"
      /\ Others(f) /\ Stays
      /\ output' = Put(to, Debris("empty"))
      /\ task'[f] = [at |-> "writing", does |-> task[f].does]
  BY OpenSteps DEF Progress
<1>2. world' = world /\ phase' = "tasks" /\ (Serial' <=> Serial) /\ current' = current
  BY <1>1, SameWorks DEF Stays
<1>3. /\ DOMAIN task' = DOMAIN task /\ \A g \in DOMAIN task : task'[g].does = task[g].does
      /\ \A g \in DOMAIN task : g # f => task'[g].at = task[g].at
      /\ task'[f].at = "writing"
  BY <1>1 DEF Others
<1>4. /\ DOMAIN output' = DOMAIN output \cup {to} /\ output'[to] = Debris("empty")
      /\ \A p \in DOMAIN output : p # to => output'[p] = output[p]
  BY <1>1 DEF Put
<1>5. At("writing")' = At("writing") \cup {f}
  BY <1>1, <1>3 DEF At
<1> HIDE DEF to
<1>6. Sources'
  <2> SUFFICES ASSUME NEW p \in DOMAIN output'
               PROVE  \/ output'[p] \in {Debris("old"), Debris("copied"), Debris("empty"), Debris("mixed")}
                      \/ Wrote(p, output[p])'
    BY DEF Sources
  <2>1. CASE p # to
    <3>1. p \in DOMAIN output /\ output'[p] = output[p]
      BY <1>4, <2>1
    <3>2. Wrote(p, output[p])' <=> Wrote(p, output[p])
      BY <1>2, <3>1, SameRight
    <3> QED
      BY <3>1, <3>2 DEF Whole, Sources
  <2>2. CASE p = to
    BY <1>4, <2>2
  <2> QED
    BY <2>1, <2>2
<1>7. Mine'
  <2> SUFFICES ASSUME NEW h \in At("writing")'
               PROVE  \/ output'[task'[h].does.to] \in {Debris("empty"), task'[h].does.content}
                      \/ /\ ~Serial
                         /\ \E g \in DOMAIN task' \ {h} :
                               task'[g].at # "waiting" /\ task'[g].does.to = task'[h].does.to
    BY <1>2 DEF Mine
  <2>1. CASE task'[h].does.to = to
    BY <1>4, <2>1
  <2>2. CASE task'[h].does.to # to
    <3>1. h \in At("writing") /\ h \in DOMAIN task /\ h # f /\ task[h].at = "writing"
      BY <1>3, <1>5, <2>2 DEF At, to
    <3>2. task'[h].does.to = task[h].does.to /\ task'[h].does.content = task[h].does.content
      BY <1>3, <3>1
    <3>3. task[h].does.to \in DOMAIN output
      <4>1. Tasked(h) /\ task[h].does.to \in DOMAIN output \cup {NoPath}
        BY <1>1, <3>1 DEF Progress, Tasks, Opened
      <4> QED
        BY <3>1, <4>1 DEF Tasked
    <3>4. output'[task[h].does.to] = output[task[h].does.to]
      BY <1>4, <2>2, <3>2, <3>3
    <3>5. CASE output[task[h].does.to] \in {Debris("empty"), task[h].does.content}
      BY <3>2, <3>4, <3>5
    <3>6. CASE ~Serial /\ \E g \in DOMAIN task \ {h} :
                  task[g].at # "waiting" /\ task[g].does.to = task[h].does.to
      <4>1. PICK g \in DOMAIN task \ {h} :
                  task[g].at # "waiting" /\ task[g].does.to = task[h].does.to
        BY <3>6
      <4>2. task'[g].at # "waiting" /\ task'[g].does.to = task[g].does.to /\ g \in DOMAIN task' \ {h}
        BY <1>3, <4>1
      <4> QED
        BY <3>2, <3>6, <4>1, <4>2
    <3> QED
      BY <1>1, <3>1, <3>5, <3>6 DEF Whole, Mine
  <2> QED
    BY <2>1, <2>2
<1>8. Contents'
  <2> SUFFICES ASSUME world.command \notin ReadOnly, NEW p \in DOMAIN output'
               PROVE  RightIs(p, output[p])' \/ OpenAt(p)'
    BY <1>1, <1>2 DEF Contents
  <2>1. CASE p = to
    BY <1>2, <1>3, <1>5, <2>1, <1>1 DEF OpenAt, to
  <2>2. CASE p # to
    <3>1. p \in DOMAIN output /\ output'[p] = output[p]
      BY <1>4, <2>2
    <3>2. RightIs(p, output[p]) \/ OpenAt(p)
      BY <1>1, <3>1 DEF Whole, Contents, Running
    <3>3. RightIs(p, output[p])' <=> RightIs(p, output[p])
      BY <1>2, <3>1, SameRight
    <3>4. OpenAt(p) => OpenAt(p)'
      <4>1. \A h \in At("writing") : task'[h].does = task[h].does
        BY <1>3 DEF At
      <4> QED
        BY <1>2, <1>5, <4>1 DEF OpenAt
    <3> QED
      BY <3>2, <3>3, <3>4
  <2> QED
    BY <2>1, <2>2
<1> QED
  BY <1>6, <1>7, <1>8 DEF Whole

\* Two tasks with one path are two writers of it.
LEMMA TwoWriters ==
    ASSUME Progress, phase = "tasks", NEW f \in DOMAIN task, NEW g \in DOMAIN task, f # g,
           task[f].at # "waiting", task[g].at # "waiting", task[f].does.to = task[g].does.to
    PROVE  Cardinality(Writers(task[f].does.to)) > 1
<1> DEFINE p == task[f].does.to
           v == <<current, f>>
           w == <<current, g>>
<1>1. v \in Works /\ w \in Works /\ Tasked(f) /\ Tasked(g)
  BY TaskFiles DEF Progress
<1>2. /\ task[f].does = Handler(current, f) /\ task[g].does = Handler(current, g)
      /\ v[1] = current /\ v[2] = f /\ w[1] = current /\ w[2] = g /\ v # w
  BY <1>1 DEF Tasked
<1> HIDE DEF v, w
<1>3. v \in Writers(p) /\ w \in Writers(p)
  BY <1>1, <1>2 DEF Writers
<1>4. IsFiniteSet(Writers(p))
  <2>1. IsFiniteSet(Works)
    BY WorksFinite DEF Progress, Placed
  <2>2. Writers(p) \subseteq Works
    BY DEF Writers
  <2> QED
    BY <2>1, <2>2, FS_Subset
<1> QED
  BY <1>2, <1>3, <1>4, AtLeastTwo

\* A file is written whole unless another process had the same name.
LEMMA WholeWrite ==
    ASSUME Progress, Whole, NEW f, Write(f)
    PROVE  Whole'
<1> DEFINE to == task[f].does.to
           content == task[f].does.content
<1>1. /\ phase = "tasks" /\ f \in DOMAIN task /\ task[f].at = "writing"
      /\ Others(f) /\ Stays
      /\ task'[f] = [at |-> "settled", does |-> task[f].does]
      /\ to \in DOMAIN output /\ DOMAIN output' = DOMAIN output
      /\ \A p \in DOMAIN output : p # to => output'[p] = output[p]
      /\ \/ output'[to] = content
         \/ output[to] \notin {Debris("empty"), content} /\ output'[to] = Debris("mixed")
  BY WriteSteps DEF Progress
<1>2. world' = world /\ phase' = "tasks" /\ (Serial' <=> Serial) /\ current' = current
  BY <1>1, SameWorks DEF Stays
<1>3. /\ DOMAIN task' = DOMAIN task /\ \A g \in DOMAIN task : task'[g].does = task[g].does
      /\ \A g \in DOMAIN task : g # f => task'[g].at = task[g].at
      /\ task'[f].at = "settled"
  BY <1>1 DEF Others
<1>4. At("writing")' = At("writing") \ {f} /\ f \in At("writing")
  BY <1>1, <1>3 DEF At
<1>5. Wrote(to, content)
  <2> DEFINE w == <<current, f>>
  <2>1. w \in Works /\ Tasked(f)
    BY <1>1, TaskFiles DEF Progress
  <2>2. w[1] = current /\ w[2] = f /\ task[f].does = Handler(current, f)
    BY <1>1, <2>1 DEF Tasked
  <2> HIDE DEF w
  <2> QED
    BY <2>1, <2>2 DEF Wrote, Writers
<1>6. \/ output'[to] = content
      \/ ~Serial /\ Cardinality(Writers(to)) > 1 /\ output'[to] = Debris("mixed")
  <2>1. CASE output[to] \notin {Debris("empty"), content} /\ output'[to] = Debris("mixed")
    <3>1. PICK g \in DOMAIN task \ {f} :
                 ~Serial /\ task[g].at # "waiting" /\ task[g].does.to = to
      BY <1>1, <1>4, <2>1 DEF Whole, Mine
    <3>2. Cardinality(Writers(to)) > 1
      BY <1>1, <3>1, TwoWriters
    <3> QED
      BY <2>1, <3>1, <3>2
  <2> QED
    BY <1>1, <2>1
<1> HIDE DEF to, content
<1>7. ASSUME NEW p, p = to
      PROVE  /\ RightIs(p, output[p])'
             /\ output'[p] = Debris("mixed") \/ Wrote(p, output[p])'
  <2>1. RightIs(p, output'[p]) /\ (output'[p] = Debris("mixed") \/ Wrote(p, output'[p]))
    BY <1>5, <1>6, <1>7 DEF RightIs
  <2>2. \A q, c : /\ Wrote(q, c)' <=> Wrote(q, c)
                  /\ RightIs(q, c)' <=> RightIs(q, c)
    BY <1>2, SameRight
  <2> QED
    BY <2>1, <2>2
<1>8. Sources'
  <2> SUFFICES ASSUME NEW p \in DOMAIN output
               PROVE  \/ output'[p] \in {Debris("old"), Debris("copied"), Debris("empty"), Debris("mixed")}
                      \/ Wrote(p, output[p])'
    BY <1>1 DEF Sources
  <2>1. CASE p # to
    <3>1. output'[p] = output[p]
      BY <1>1, <2>1
    <3>2. Wrote(p, output[p])' <=> Wrote(p, output[p])
      BY <1>2, <3>1, SameRight
    <3> QED
      BY <3>1, <3>2 DEF Whole, Sources
  <2> QED
    BY <1>7, <2>1
<1>9. Mine'
  <2> SUFFICES ASSUME NEW h \in At("writing")'
               PROVE  \/ output'[task'[h].does.to] \in {Debris("empty"), task'[h].does.content}
                      \/ /\ ~Serial
                         /\ \E g \in DOMAIN task' \ {h} :
                               task'[g].at # "waiting" /\ task'[g].does.to = task'[h].does.to
    BY <1>2 DEF Mine
  <2>1. /\ h \in At("writing") /\ h \in DOMAIN task /\ h # f /\ task[h].at = "writing"
        /\ task'[h].does.to = task[h].does.to /\ task'[h].does.content = task[h].does.content
    BY <1>3, <1>4 DEF At
  <2>2. CASE task[h].does.to = to
    <3>1. ~Serial
      BY <1>1, <1>4, <2>1 DEF Progress, OneAtATime, Active
    <3>2. f \in DOMAIN task' \ {h} /\ task'[f].at # "waiting" /\ task'[f].does.to = to
      BY <1>1, <1>3, <2>1 DEF to
    <3> QED
      BY <2>1, <2>2, <3>1, <3>2
  <2>3. CASE task[h].does.to # to
    <3>1. task[h].does.to \in DOMAIN output
      <4>1. Tasked(h) /\ task[h].does.to \in DOMAIN output \cup {NoPath}
        BY <1>1, <2>1 DEF Progress, Tasks, Opened
      <4> QED
        BY <2>1, <4>1 DEF Tasked
    <3>2. output'[task[h].does.to] = output[task[h].does.to]
      BY <1>1, <2>3, <3>1
    <3>3. CASE output[task[h].does.to] \in {Debris("empty"), task[h].does.content}
      BY <2>1, <3>2, <3>3
    <3>4. CASE ~Serial /\ \E g \in DOMAIN task \ {h} :
                  task[g].at # "waiting" /\ task[g].does.to = task[h].does.to
      <4>1. PICK g \in DOMAIN task \ {h} :
                  task[g].at # "waiting" /\ task[g].does.to = task[h].does.to
        BY <3>4
      <4>2. task'[g].at # "waiting" /\ task'[g].does.to = task[g].does.to /\ g \in DOMAIN task' \ {h}
        BY <1>3, <4>1
      <4> QED
        BY <2>1, <3>4, <4>1, <4>2
    <3> QED
      BY <1>1, <2>1, <3>3, <3>4 DEF Whole, Mine
  <2> QED
    BY <2>2, <2>3
<1>10. Contents'
  <2> SUFFICES ASSUME world.command \notin ReadOnly, NEW p \in DOMAIN output
               PROVE  RightIs(p, output[p])' \/ OpenAt(p)'
    BY <1>1, <1>2 DEF Contents
  <2>1. CASE p # to
    <3>1. output'[p] = output[p]
      BY <1>1, <2>1
    <3>2. RightIs(p, output[p]) \/ OpenAt(p)
      BY <1>1 DEF Whole, Contents, Running
    <3>3. RightIs(p, output[p])' <=> RightIs(p, output[p])
      BY <1>2, <3>1, SameRight
    <3>4. OpenAt(p) => OpenAt(p)'
      <4>1. \A h \in At("writing") : task'[h].does = task[h].does
        BY <1>3 DEF At
      <4> QED
        BY <1>2, <1>4, <2>1, <4>1 DEF OpenAt, to
    <3> QED
      BY <3>2, <3>3, <3>4
  <2> QED
    BY <1>7, <2>1
<1> QED
  BY <1>8, <1>9, <1>10 DEF Whole

(***************************************************************************)
(* Out of a folder no file is open: none is being written, or the first    *)
(* exception of one process has ended the command.                         *)
(***************************************************************************)
LEMMA WholeEnds ==
    ASSUME Progress, Whole, world' = world, output' = output, phase' # "tasks",
           \/ phase' \notin {"folder", "returned", "raised"}
           \/ phase \in {"folder", "returned", "raised"}
           \/ phase = "tasks" /\ At("writing") = {}
    PROVE  Whole'
<1>1. Sources' /\ Mine'
  BY FewerFiles DEF Whole, Mine
<1>2. Contents'
  <2> SUFFICES ASSUME world.command \notin ReadOnly, phase' \in {"folder", "returned", "raised"}
               PROVE  (\A p \in DOMAIN output : RightIs(p, output[p]))'
    BY DEF Contents, Running
  <2>1. \A p \in DOMAIN output : RightIs(p, output[p])
    BY DEF Whole, Contents, OpenAt, Running
  <2> QED
    BY <2>1, FewerFiles
<1> QED
  BY <1>1, <1>2 DEF Whole

\* Nothing changes.
LEMMA WholeStutter == Progress /\ Whole /\ UNCHANGED vars => Whole'
<1> SUFFICES ASSUME Progress, Whole, UNCHANGED vars PROVE Whole'
  OBVIOUS
<1>1. UNCHANGED <<world, phase, task, output>>
  BY DEF vars
<1>2. Sources' /\ (Serial' <=> Serial)
  BY <1>1, FewerFiles, SameWorks DEF Whole
<1>3. Mine'
  BY <1>1, <1>2 DEF Whole, Mine, At
<1>4. Contents'
  <2>1. ASSUME NEW p PROVE (RightIs(p, output[p])' <=> RightIs(p, output[p])) /\ (OpenAt(p)' <=> OpenAt(p))
    <3>1. RightIs(p, output[p])' <=> RightIs(p, output[p])
      BY <1>1, SameRight
    <3> QED
      BY <1>1, <3>1 DEF OpenAt, At
  <2> QED
    BY <1>1, <2>1 DEF Whole, Contents, Running
<1> QED
  BY <1>2, <1>3, <1>4 DEF Whole

\* When all files are settled none is open.
LEMMA AllSettled ==
    ASSUME At("settled") = DOMAIN task
    PROVE  At("opening") = {} /\ At("writing") = {}
BY DEF At

\* What every file of the output folder holds, in every reachable state.
THEOREM CommandWhole == Spec => []Whole
<1>1. Init => Whole
  BY WholeInit
<1>2. Progress /\ Whole /\ [Next]_vars => Whole'
  <2> SUFFICES ASSUME Progress, Whole, [Next]_vars PROVE Whole'
    OBVIOUS
  <2>1. CASE Refuse \/ Die \/ Return
    BY <2>1, WholeEnds DEF Refuse, Die, Return
  <2>2. CASE FolderDone
    BY <2>2, AllSettled, WholeEnds DEF FolderDone
  <2>3. CASE Fail
    <3>1. At("writing") = {}
      <4>1. CASE Stopped
        BY <2>3, <4>1, AnsweredAre DEF Fail, Progress, OneAtATime, Active
      <4> QED
        BY <2>3, <4>1, AllSettled DEF Fail
    <3> QED
      BY <2>3, <3>1, WholeEnds DEF Fail
  <2> QED
    BY <2>1, <2>2, <2>3, WholeBegin, WholeFolder, WholeTake, WholeOpen, WholeWrite,
       WholeStutter DEF Next
<1> QED
  BY <1>1, <1>2, CommandProgress, PTL DEF Spec

-----------------------------------------------------------------------------
\* What has been done of the folders.

AllWritten ==
    Running /\ InTurn =>
        \A w \in Works : w[1] \in Done => Handler(w[1], w[2]).to \in DOMAIN output \cup {NoPath}

CopiesStay == Running /\ world.command = Mass => DOMAIN Copied \subseteq DOMAIN output

Adding(S) == {w \in Works : w[1] \in S /\ Handler(w[1], w[2]).answer \in {"written", "dry"}}

Summed == Running => count = Cardinality(Adding(Done))

Totals == AllWritten /\ CopiesStay /\ Summed

\* What the totals are taken over depends on the world alone.
LEMMA SameTotals ==
    ASSUME world' = world
    PROVE  /\ Works' = Works /\ Copied' = Copied /\ Folders' = Folders
           /\ (InTurn' <=> InTurn) /\ (Apart' <=> Apart)
           /\ \A out, f : Handler(out, f)' = Handler(out, f)
           /\ \A S : Adding(S)' = Adding(S)
<1>1. /\ Works' = Works /\ Copied' = Copied /\ Folders' = Folders
      /\ (InTurn' <=> InTurn) /\ (Apart' <=> Apart)
      /\ \A out, f : Handler(out, f)' = Handler(out, f)
  BY SameWorks, SameHandler
<1>2. ASSUME NEW S PROVE Adding(S)' = Adding(S)
  BY <1>1 DEF Adding
<1> QED
  BY <1>1, <1>2

\* A step that does no folder and removes no file keeps the totals.
LEMMA TotalsGrow ==
    ASSUME Totals, world' = world, Done' = Done, count' = count, Running,
           DOMAIN output \subseteq DOMAIN output'
    PROVE  Totals'
<1>1. AllWritten' /\ CopiesStay'
  BY SameTotals DEF Totals, AllWritten, CopiesStay
<1>2. Summed'
  <2>1. ASSUME NEW S, S = Done PROVE Cardinality(Adding(S))' = Cardinality(Adding(S))
    BY SameTotals
  <2>2. Cardinality(Adding(Done))' = Cardinality(Adding(Done))
    BY <2>1
  <2> QED
    BY <2>2 DEF Totals, Summed
<1> QED
  BY <1>1, <1>2 DEF Totals

\* Nothing is done yet, and nothing counted.
LEMMA TotalsBegin == Progress /\ Begin => Totals'
<1> SUFFICES ASSUME Progress, Begin PROVE Totals'
  OBVIOUS
<1>1. /\ world' = world /\ phase' = "folder" /\ count' = 0 /\ folders' = Folders
      /\ world.command = Mass => output' = Copied
  BY DEF Begin, Folders, Progress, Placed
<1>2. Done' = {}
  BY <1>1, SameTotals DEF Done
<1>3. Adding(Done)' = {}
  BY <1>2 DEF Adding
<1>4. Summed'
  BY <1>1, <1>3, FS_EmptySet DEF Summed
<1>5. AllWritten'
  BY <1>2 DEF AllWritten
<1>6. CopiesStay'
  BY <1>1, SameTotals DEF CopiesStay
<1> QED
  BY <1>4, <1>5, <1>6 DEF Totals

\* With folders that lie apart, clearing one removes nothing of another.
LEMMA TotalsFolder ==
    ASSUME Progress, Totals, NEW folder, NextFolder(folder)
    PROVE  Totals'
<1>1. /\ phase = "folder" /\ phase' = "tasks" /\ folder \in folders
      /\ folders' = folders \ {folder} /\ current' = folder
      /\ world' = world /\ count' = count
      /\ output' = IF world.command = Mass THEN Cleared(folder) ELSE output
  BY FolderSteps
<1>2. world \in Worlds /\ folder \in Folders
  BY <1>1 DEF Progress, Placed
<1>3. Done' = Done /\ folder \notin Done
  BY <1>1, SameTotals DEF Done
<1>4. Running /\ Running'
  BY <1>1 DEF Running
<1>5. CASE world.command # Mass
  BY <1>1, <1>3, <1>4, <1>5, TotalsGrow
<1>6. CASE world.command = Mass
  <2>0. folder \in Paths /\ IsFixtureFolder(folder)
    BY <1>2, <1>6, FoldersTyped
  <2>1. DOMAIN output' = {p \in DOMAIN output : ~IsPrefix(folder, p.folder)}
    BY <1>1, <1>6, ClearedIs
  <2>2. Summed'
    <3>1. ASSUME NEW S, S = Done PROVE Cardinality(Adding(S))' = Cardinality(Adding(S))
      BY <1>1, SameTotals
    <3>2. Cardinality(Adding(Done))' = Cardinality(Adding(Done))
      BY <1>3, <3>1
    <3> QED
      BY <1>1, <1>4, <3>2 DEF Totals, Summed
  <2>3. CopiesStay'
    <3>1. ASSUME NEW p \in DOMAIN Copied PROVE ~IsPrefix(folder, p.folder)
      <4>1. PICK f \in world.files : ~IsFixtureFolder(f.folder) /\ p = CopiedPath(f)
        BY DEF Copied
      <4>2. p.folder = f.folder /\ f.folder \in Paths
        BY <1>2, <4>1, WorldTyped DEF CopiedPath, PathOf
      <4> QED
        BY <2>0, <4>1, <4>2, BelowFixtures
    <3> QED
      BY <1>1, <1>4, <1>6, <2>1, <3>1, SameTotals DEF Totals, CopiesStay
  <2>4. AllWritten'
    <3> SUFFICES ASSUME InTurn, NEW w \in Works, w[1] \in Done
                 PROVE  Handler(w[1], w[2]).to \in DOMAIN output' \cup {NoPath}
      BY <1>1, <1>3, SameTotals DEF AllWritten
    <3>1. Handler(w[1], w[2]).to \in DOMAIN output \cup {NoPath}
      BY <1>4 DEF Totals, AllWritten
    <3>2. w[1] \in Folders /\ w[1] # folder
      BY <1>2, <1>3, WorksAre
    <3>3. /\ Handler(w[1], w[2]).to \in {NoPath, Filed(w[1], w[2])}
          /\ Filed(w[1], w[2]).folder = w[1]
      BY <1>2, <1>6, <3>2, MassIs
    <3>4. ~IsPrefix(folder, w[1])
      BY <1>2, <1>6, <3>2 DEF InTurn, Nested, Folders
    <3> QED
      BY <2>1, <3>1, <3>3, <3>4
  <2> QED
    BY <2>2, <2>3, <2>4 DEF Totals
<1> QED
  BY <1>5, <1>6

\* The answers counted in a folder are those of its works.
LEMMA FolderCounts ==
    ASSUME Progress, phase = "tasks", At("settled") = DOMAIN task
    PROVE  /\ Counted(Answered) = Cardinality(Adding({current}))
           /\ IsFiniteSet(Adding({current}))
<1> DEFINE adds == {f \in DOMAIN Answered : Answered[f] \in {"written", "dry"}}
           pair == [f \in adds |-> <<current, f>>]
<1>1. world \in Worlds /\ current \in Folders
  BY DEF Progress, Placed
<1>2. \A f \in DOMAIN task : Tasked(f) /\ <<current, f>> \in Works
  BY TaskFiles DEF Progress
<1>3. \A f \in DOMAIN task : task[f].does = Handler(current, f)
  BY <1>2 DEF Tasked, At
<1>4. /\ DOMAIN Answered = DOMAIN task
      /\ \A f \in DOMAIN task : Answered[f] = Handler(current, f).answer
  BY <1>3, AnsweredAre
<1>5. adds = {f \in DOMAIN task : Handler(current, f).answer \in {"written", "dry"}}
  BY <1>4
<1> HIDE DEF adds
<1>6. \A f \in adds : pair[f] \in Adding({current})
  <2> SUFFICES ASSUME NEW f \in adds PROVE pair[f] \in Adding({current})
    OBVIOUS
  <2> DEFINE w == <<current, f>>
  <2>1. w \in Works /\ w[1] = current /\ w[2] = f
    BY <1>2, <1>5
  <2>2. pair[f] = w
    OBVIOUS
  <2> HIDE DEF w, pair
  <2> QED
    BY <1>5, <2>1, <2>2 DEF Adding
<1>7. ASSUME NEW w \in Adding({current}) PROVE \E f \in adds : pair[f] = w
  <2>1. w = <<w[1], w[2]>> /\ w[1] = current /\ w[2] \in FilesOf(current)
    BY <1>1, WorksAre DEF Adding
  <2>2. w[2] \in adds
    BY <1>5, <2>1 DEF Adding, Progress, Tasks
  <2> QED
    BY <2>1, <2>2
<1>8. pair \in Surjection(adds, Adding({current})) /\ pair \in Injection(adds, Adding({current}))
  <2>1. pair \in [adds -> Adding({current})]
    BY <1>6
  <2>2. \A f, g \in adds : pair[f] = pair[g] => f = g
    OBVIOUS
  <2> QED
    BY <1>7, <2>1, <2>2 DEF Surjection, Injection, IsInjective
<1>9. IsFiniteSet(adds)
  BY <1>5, TaskFiles, FS_Subset DEF Progress
<1> HIDE DEF pair
<1>10. IsFiniteSet(Adding({current})) /\ Cardinality(Adding({current})) = Cardinality(adds)
  BY <1>8, <1>9, FS_Surjection
<1> QED
  BY <1>10 DEF Counted, adds

\* The answers of a folder are added, and its files are there.
LEMMA TotalsDone == Progress /\ Totals /\ FolderDone => Totals'
<1> SUFFICES ASSUME Progress, Totals, FolderDone PROVE Totals'
  OBVIOUS
<1>1. /\ phase = "tasks" /\ phase' = "folder" /\ At("settled") = DOMAIN task
      /\ count' = count + Counted(Answered)
      /\ world' = world /\ folders' = folders /\ output' = output
  BY DEF FolderDone
<1>2. /\ world \in Worlds /\ current \in Folders \ folders
  BY <1>1 DEF Progress, Placed
<1>3. Done' = Done \cup {current} /\ current \notin Done /\ Running
  BY <1>1, <1>2, SameTotals DEF Done, Running
<1>4. Summed'
  <2> DEFINE before == Adding(Done)
             new == Adding({current})
  <2>1. \A S : Adding(S)' = Adding(S)
    BY <1>1, SameTotals
  <2>2. ASSUME NEW S, S = Done \cup {current} PROVE Adding(S)' = before \cup new
    BY <2>1, <2>2 DEF Adding
  <2>3. Adding(Done)' = before \cup new
    BY <1>3, <2>2
  <2>4. before \cap new = {}
    BY <1>3 DEF Adding
  <2>5. IsFiniteSet(before) /\ IsFiniteSet(new)
    <3>1. IsFiniteSet(Works)
      BY <1>2, WorksFinite
    <3>2. before \subseteq Works /\ new \subseteq Works
      BY DEF Adding
    <3> QED
      BY <3>1, <3>2, FS_Subset
  <2>6. Counted(Answered) = Cardinality(new) /\ count = Cardinality(before)
    BY <1>1, <1>3, FolderCounts DEF Totals, Summed
  <2> HIDE DEF before, new
  <2>7. Cardinality(before \cup new) = Cardinality(before) + Cardinality(new)
    <3>1. Cardinality(before \cup new) =
             Cardinality(before) + Cardinality(new) - Cardinality(before \cap new)
      BY <2>5, FS_Union
    <3>2. Cardinality(before \cap new) = 0
      BY <2>4, FS_EmptySet
    <3>3. Cardinality(before) \in Nat /\ Cardinality(new) \in Nat
      BY <2>5, FS_CardinalityType
    <3> QED
      BY <3>1, <3>2, <3>3
  <2> QED
    BY <1>1, <2>3, <2>6, <2>7 DEF Summed
<1>5. CopiesStay'
  BY <1>1, <1>3, SameTotals DEF Totals, CopiesStay
<1>6. AllWritten'
  <2> SUFFICES ASSUME InTurn, NEW w \in Works, w[1] \in Done \cup {current}
               PROVE  Handler(w[1], w[2]).to \in DOMAIN output \cup {NoPath}
    BY <1>1, <1>3, SameTotals DEF AllWritten
  <2>1. CASE w[1] \in Done
    BY <1>3, <2>1 DEF Totals, AllWritten
  <2>2. CASE w[1] = current
    <3>1. w[2] \in At("settled")
      BY <1>1, <1>2, <2>2, WorksAre DEF Progress, Tasks
    <3>2. Tasked(w[2]) /\ task[w[2]].at = "settled"
      BY <1>1, <3>1 DEF At, Progress, Tasks
    <3> QED
      BY <1>1, <2>2, <3>1, <3>2 DEF Progress, Opened, Tasked
  <2> QED
    BY <2>1, <2>2
<1> QED
  BY <1>4, <1>5, <1>6 DEF Totals

\* A command that was stopped has no totals.
LEMMA NotRunning == ~Running => Totals
BY DEF Totals, AllWritten, CopiesStay, Summed

\* What the folders done so far have left and counted, in every reachable state.
THEOREM CommandTotals == Spec => []Totals
<1>1. Init => Totals
  BY NotRunning DEF Init, Running
<1>2. Progress /\ Totals /\ [Next]_vars => Totals'
  <2> SUFFICES ASSUME Progress, Totals, [Next]_vars PROVE Totals'
    OBVIOUS
  <2>1. CASE Refuse \/ Die \/ Fail
    BY <2>1 DEF Refuse, Die, Fail, Running, Totals, AllWritten, CopiesStay, Summed
  <2>2. CASE Return
    <3>1. Done' = Done /\ Running
      BY <2>2, SameTotals DEF Return, Done, Running
    <3> QED
      BY <2>2, <3>1, TotalsGrow DEF Return
  <2>3. ASSUME NEW f, Take(f) \/ Open(f) \/ Write(f) PROVE Totals'
    <3>1. Stays /\ phase = "tasks" /\ DOMAIN output \subseteq DOMAIN output'
      <4>1. CASE Take(f)
        BY <4>1, TakeSteps
      <4>2. CASE Open(f)
        BY <4>2, OpenSteps DEF Put, Progress
      <4>3. CASE Write(f)
        BY <4>3, WriteSteps DEF Progress
      <4> QED
        BY <2>3, <4>1, <4>2, <4>3
    <3>2. Done' = Done /\ Running
      BY <3>1, SameTotals DEF Stays, Done, Running
    <3> QED
      BY <3>1, <3>2, TotalsGrow DEF Stays
  <2>4. CASE UNCHANGED vars
    <3>1. UNCHANGED <<world, phase, folders, current, output, count>>
      BY <2>4 DEF vars
    <3>2. Done' = Done
      BY <3>1, SameTotals DEF Done
    <3>3. CASE Running
      BY <3>1, <3>2, <3>3, TotalsGrow
    <3>4. CASE ~Running
      BY <3>1, <3>4 DEF Running, Totals, AllWritten, CopiesStay, Summed
    <3> QED
      BY <3>3, <3>4
  <2> QED
    BY <2>1, <2>2, <2>3, <2>4, TotalsBegin, TotalsFolder, TotalsDone DEF Next
<1> QED
  BY <1>1, <1>2, CommandProgress, PTL DEF Spec

-----------------------------------------------------------------------------
\* No fixture is lost.

Kept(f) ==
    \E folder \in Done :
        /\ <<folder, f>> \in Works
        /\ Filed(folder, f) \in DOMAIN output
        /\ output[Filed(folder, f)] = Handler(folder, f).content

AllKept ==
    Running /\ Apart =>
        \A w \in Works :
            w[1] \in Done /\ Handler(w[1], w[2]).answer = "written" =>
                Kept(w[2]) \/ (phase = "tasks" /\ w[2] \in DOMAIN task)

AsWritten ==
    phase = "tasks" /\ Apart =>
        \A f \in At("settled") :
            task[f].does.answer = "written" =>
                /\ task[f].does.to \in DOMAIN output
                /\ output[task[f].does.to] = task[f].does.content

Lasting == AllKept /\ AsWritten

\* With distinct stems no two tasks have one path, nor two folders.
LEMMA ApartMass ==
    ASSUME Progress, Apart, phase = "tasks"
    PROVE  /\ world.command = Mass /\ current \in Folders
           /\ \A f \in DOMAIN task : task[f].at # "waiting" =>
                 /\ task[f].does = Handler(current, f)
                 /\ task[f].does.to \in {NoPath, Filed(current, f)}
                 /\ task[f].does.answer = "written" => task[f].does.to = Filed(current, f)
           /\ \A f, g \in DOMAIN task : Filed(current, f) = Filed(current, g) => f = g
           /\ \A folder \in Done : \A f, g : Filed(folder, f) # Filed(current, g)
<1>1. world \in Worlds /\ current \in Folders /\ world.command = Mass /\ current \notin Done
  BY DEF Progress, Placed, Apart, Done
<1>2. \A f \in DOMAIN task : Tasked(f) /\ f \in world.files
  BY TaskFiles DEF Progress
<1>3. \A f \in DOMAIN task : task[f].at # "waiting" => task[f].does = Handler(current, f)
  BY <1>2 DEF Tasked
<1>4. \A f : /\ Handler(current, f).to \in {NoPath, Filed(current, f)}
             /\ Handler(current, f).answer = "written" => Handler(current, f).to = Filed(current, f)
  BY <1>1, MassIs
<1>5. \A folder \in Folders : \A f : Filed(folder, f).folder = folder /\ Filed(folder, f).stem = f.stem
  BY <1>1, MassIs
<1>6. \A f, g \in DOMAIN task : Filed(current, f) = Filed(current, g) => f = g
  BY <1>1, <1>2, <1>5 DEF Apart
<1>7. \A folder \in Done : \A f, g : Filed(folder, f) # Filed(current, g)
  BY <1>1, <1>5 DEF Done
<1> QED
  BY <1>1, <1>3, <1>4, <1>6, <1>7

\* A fixture that is kept stays so while its file does.
LEMMA SameKept ==
    ASSUME world' = world, Done \subseteq Done',
           \A folder \in Done : \A f :
               Filed(folder, f) \in DOMAIN output =>
                   /\ Filed(folder, f) \in DOMAIN output'
                   /\ output'[Filed(folder, f)] = output[Filed(folder, f)]
    PROVE  \A f : Kept(f) => Kept(f)'
<1> SUFFICES ASSUME NEW f, Kept(f) PROVE Kept(f)'
  OBVIOUS
<1>1. PICK folder \in Done :
          /\ <<folder, f>> \in Works
          /\ Filed(folder, f) \in DOMAIN output
          /\ output[Filed(folder, f)] = Handler(folder, f).content
  BY DEF Kept
<1>2. Filed(folder, f) \in DOMAIN output' /\ output'[Filed(folder, f)] = output[Filed(folder, f)]
  BY <1>1
<1>3. /\ (<<folder, f>> \in Works)' /\ folder \in Done'
      /\ Handler(folder, f)' = Handler(folder, f)
  BY <1>1, SameTotals
<1> QED
  BY <1>1, <1>2, <1>3 DEF Kept

\* A folder that removes the fixtures of another has their inputs itself.
LEMMA LastingFolder ==
    ASSUME Progress, Lasting, NEW folder, NextFolder(folder)
    PROVE  Lasting'
<1>1. /\ phase = "folder" /\ phase' = "tasks" /\ folder \in folders
      /\ folders' = folders \ {folder} /\ current' = folder
      /\ world' = world /\ DOMAIN task' = FilesOf(folder)
      /\ output' = IF world.command = Mass THEN Cleared(folder) ELSE output
  BY FolderSteps
<1>2. world \in Worlds /\ folder \in Folders
  BY <1>1 DEF Progress, Placed
<1>3. Done' = Done /\ folder \notin Done /\ Running
  BY <1>1, SameTotals DEF Done, Running
<1>4. AsWritten'
  BY AllWaiting DEF AsWritten
<1>5. AllKept'
  <2> SUFFICES ASSUME Apart, NEW w \in Works, w[1] \in Done, Handler(w[1], w[2]).answer = "written"
               PROVE  Kept(w[2])' \/ w[2] \in DOMAIN task'
    <3>1. (Apart' <=> Apart) /\ Works' = Works /\ \A out, f : Handler(out, f)' = Handler(out, f)
      BY <1>1, SameTotals
    <3>2. ASSUME NEW w \in Works' PROVE (Handler(w[1], w[2]).answer)' = Handler(w[1], w[2]).answer
      BY <3>1
    <3> QED
      BY <1>1, <1>3, <3>1, <3>2 DEF AllKept
  <2> DEFINE f == w[2]
  <2>1. Kept(f)
    BY <1>1, <1>3 DEF Lasting, AllKept
  <2>2. PICK g \in Done :
            /\ <<g, f>> \in Works
            /\ Filed(g, f) \in DOMAIN output
            /\ output[Filed(g, f)] = Handler(g, f).content
    BY <2>1 DEF Kept
  <2>3. world.command = Mass /\ g \in Folders /\ Filed(g, f).folder = g
    BY <1>2, <2>2, MassIs DEF Apart, Done
  <2>4. DOMAIN output' = {p \in DOMAIN output : ~IsPrefix(folder, p.folder)}
        /\ \A p \in DOMAIN output' : output'[p] = output[p]
    BY <1>1, <2>3, ClearedIs
  <2>5. CASE ~IsPrefix(folder, g)
    <3>1. Filed(g, f) \in DOMAIN output' /\ output'[Filed(g, f)] = output[Filed(g, f)]
      BY <2>2, <2>3, <2>4, <2>5
    <3>2. (<<g, f>> \in Works)' /\ g \in Done' /\ Handler(g, f)' = Handler(g, f)
      BY <1>1, <1>3, <2>2, SameTotals
    <3> HIDE DEF f
    <3>3. Kept(f)'
      BY <2>2, <3>1, <3>2 DEF Kept
    <3> QED
      BY <3>3 DEF f
  <2>6. CASE IsPrefix(folder, g)
    <3> DEFINE v == <<g, f>>
    <3>1. v \in Works /\ v[1] = g /\ v[2] = f
      BY <2>2
    <3> HIDE DEF v
    <3>2. f \in FilesOf(g) /\ f \in world.files
      BY <1>2, <3>1, WorksAre
    <3>3. CASE world.single
      BY <1>1, <3>2, <3>3 DEF FilesOf
    <3>4. CASE ~world.single
      <4>1. IsPrefix(g, f.folder) /\ Supported(f)
        BY <3>2, <3>4 DEF FilesOf, Inputs
      <4>2. folder \in Paths /\ g \in Paths /\ f.folder \in Paths
        BY <1>2, <2>3, <3>2, FoldersTyped, WorldTyped
      <4>3. IsPrefix(folder, f.folder)
        BY <2>6, <4>1, <4>2, PrefixesJoin
      <4>4. world.command # "validate-fixtures"
        BY <2>3 DEF Mass
      <4> QED
        BY <1>1, <3>2, <3>4, <4>1, <4>3, <4>4 DEF FilesOf, Inputs
    <3> QED
      BY <3>3, <3>4
  <2> QED
    BY <2>5, <2>6
<1> QED
  BY <1>4, <1>5 DEF Lasting

\* Until its folder is done, a task touches no other folder's fixtures.
LEMMA AllKeptTask ==
    ASSUME Progress, Lasting, phase = "tasks", Stays, DOMAIN task' = DOMAIN task,
           Apart => \A folder \in Done : \A f :
               Filed(folder, f) \in DOMAIN output =>
                   /\ Filed(folder, f) \in DOMAIN output'
                   /\ output'[Filed(folder, f)] = output[Filed(folder, f)]
    PROVE  AllKept'
<1>1. world' = world /\ Done' = Done /\ Running /\ phase' = "tasks"
  BY SameTotals DEF Stays, Done, Running
<1>2. Apart => \A f : Kept(f) => Kept(f)'
  BY <1>1, SameKept
<1>3. (Apart' <=> Apart) /\ Works' = Works /\ \A out, f : Handler(out, f)' = Handler(out, f)
  BY <1>1, SameTotals
<1> SUFFICES ASSUME Apart, NEW w \in Works, w[1] \in Done,
                    Handler(w[1], w[2])'.answer = "written"
             PROVE  Kept(w[2])' \/ w[2] \in DOMAIN task'
  BY <1>1, <1>3 DEF AllKept
<1>4. Handler(w[1], w[2])' = Handler(w[1], w[2])
  BY <1>3
<1>5. Kept(w[2]) \/ w[2] \in DOMAIN task
  BY <1>1, <1>4 DEF Lasting, AllKept
<1> QED
  BY <1>2, <1>5

\* Taking a file changes no fixture.
LEMMA LastingTake ==
    ASSUME Progress, Lasting, NEW f, Take(f)
    PROVE  Lasting'
<1>1. /\ phase = "tasks" /\ f \in DOMAIN task /\ Others(f) /\ Stays /\ output' = output
      /\ task'[f] = [at |-> IF Handler(current, f).to = NoPath THEN "settled" ELSE "opening",
                     does |-> Handler(current, f)]
  BY TakeSteps
<1>2. AllKept'
  BY <1>1, AllKeptTask DEF Others
<1>3. AsWritten'
  <2> SUFFICES ASSUME Apart, NEW g \in At("settled")', task'[g].does.answer = "written"
               PROVE  /\ task'[g].does.to \in DOMAIN output
                      /\ output[task'[g].does.to] = task'[g].does.content
    <3>1. Apart' <=> Apart
      BY <1>1, SameTotals DEF Stays
    <3> QED
      BY <1>1, <3>1 DEF AsWritten
  <2>1. g # f
    <3> SUFFICES ASSUME g = f PROVE FALSE
      OBVIOUS
    <3>1. Handler(current, f).to = NoPath /\ Handler(current, f).answer = "written"
      BY <1>1 DEF At
    <3>2. /\ Handler(current, f).to = Filed(current, f) /\ Filed(current, f) # NoPath
      BY <1>1, <3>1, MassIs DEF Progress, Placed, Apart
    <3> QED
      BY <3>1, <3>2
  <2>2. g \in At("settled") /\ task'[g] = task[g]
    BY <1>1, <2>1 DEF At, Others
  <2> QED
    BY <1>1, <2>2 DEF Lasting, AsWritten
<1> QED
  BY <1>2, <1>3 DEF Lasting

\* Opening touches no fixture of another file.
LEMMA LastingOpen ==
    ASSUME Progress, Lasting, NEW f, Open(f)
    PROVE  Lasting'
<1>1. /\ phase = "tasks" /\ f \in DOMAIN task /\ task[f].at = "opening"
      /\ Others(f) /\ Stays
      /\ output' = Put(task[f].does.to, Debris("empty"))
      /\ task'[f] = [at |-> "writing", does |-> task[f].does]
  BY OpenSteps DEF Progress
<1>2. /\ DOMAIN output \subseteq DOMAIN output'
      /\ \A p \in DOMAIN output : p # task[f].does.to => output'[p] = output[p]
  BY <1>1 DEF Put
<1>3. Apart => task[f].does.to = Filed(current, f)
  <2>1. task[f].does.to # NoPath
    BY <1>1, TaskFiles DEF Progress, Tasked
  <2> QED
    BY <1>1, <2>1, ApartMass
<1>4. AllKept'
  <2>1. Apart => \A folder \in Done : \A g : Filed(folder, g) # task[f].does.to
    BY <1>1, <1>3, ApartMass
  <2> QED
    BY <1>1, <1>2, <2>1, AllKeptTask DEF Others
<1>5. AsWritten'
  <2> SUFFICES ASSUME Apart, NEW g \in At("settled")', task'[g].does.answer = "written"
               PROVE  /\ task'[g].does.to \in DOMAIN output'
                      /\ output'[task'[g].does.to] = task'[g].does.content
    <3>1. Apart' <=> Apart
      BY <1>1, SameTotals DEF Stays
    <3> QED
      BY <1>1, <3>1 DEF AsWritten
  <2>1. g # f /\ g \in DOMAIN task /\ g \in At("settled") /\ task'[g] = task[g] /\ task[g].at = "settled"
    BY <1>1 DEF At, Others
  <2>2. task[g].does.to \in DOMAIN output /\ output[task[g].does.to] = task[g].does.content
    BY <1>1, <2>1 DEF Lasting, AsWritten
  <2>3. task[g].does.to # task[f].does.to
    BY <1>1, <1>3, <2>1, ApartMass
  <2> QED
    BY <1>2, <2>1, <2>2, <2>3
<1> QED
  BY <1>4, <1>5 DEF Lasting

\* With distinct stems a file is written whole.
LEMMA LastingWrite ==
    ASSUME Progress, Whole, Lasting, NEW f, Write(f)
    PROVE  Lasting'
<1> DEFINE to == task[f].does.to
           content == task[f].does.content
<1>1. /\ phase = "tasks" /\ f \in DOMAIN task /\ task[f].at = "writing"
      /\ Others(f) /\ Stays
      /\ task'[f] = [at |-> "settled", does |-> task[f].does]
      /\ to \in DOMAIN output /\ DOMAIN output' = DOMAIN output
      /\ \A p \in DOMAIN output : p # to => output'[p] = output[p]
      /\ \/ output'[to] = content
         \/ output[to] \notin {Debris("empty"), content} /\ output'[to] = Debris("mixed")
  BY WriteSteps DEF Progress
<1>2. to # NoPath
  BY <1>1, TaskFiles DEF Progress, Tasked
<1>3. Apart => to = Filed(current, f)
  BY <1>1, <1>2, ApartMass
<1>4. Apart => output'[to] = content
  <2> SUFFICES ASSUME Apart, output[to] \notin {Debris("empty"), content} PROVE FALSE
    BY <1>1
  <2>1. f \in At("writing")
    BY <1>1 DEF At
  <2>2. PICK g \in DOMAIN task \ {f} : task[g].at # "waiting" /\ task[g].does.to = to
    BY <1>1, <2>1 DEF Whole, Mine
  <2>3. task[g].does.to = Filed(current, g)
    BY <1>1, <1>2, <2>2, ApartMass
  <2> QED
    BY <1>1, <1>3, <2>2, <2>3, ApartMass
<1>5. AllKept'
  <2>1. Apart => \A folder \in Done : \A g : Filed(folder, g) # to
    BY <1>1, <1>3, ApartMass
  <2> QED
    BY <1>1, <2>1, AllKeptTask DEF Others
<1>6. AsWritten'
  <2> SUFFICES ASSUME Apart, NEW g \in At("settled")', task'[g].does.answer = "written"
               PROVE  /\ task'[g].does.to \in DOMAIN output'
                      /\ output'[task'[g].does.to] = task'[g].does.content
    <3>1. Apart' <=> Apart
      BY <1>1, SameTotals DEF Stays
    <3> QED
      BY <1>1, <3>1 DEF AsWritten
  <2>1. CASE g = f
    BY <1>1, <1>4, <2>1
  <2>2. CASE g # f
    <3>1. g \in DOMAIN task /\ g \in At("settled") /\ task'[g] = task[g] /\ task[g].at = "settled"
      BY <1>1, <2>2 DEF At, Others
    <3>2. task[g].does.to \in DOMAIN output /\ output[task[g].does.to] = task[g].does.content
      BY <1>1, <3>1 DEF Lasting, AsWritten
    <3>3. task[g].does.to # to
      BY <1>1, <1>3, <2>2, <3>1, ApartMass
    <3> QED
      BY <1>1, <3>1, <3>2, <3>3
  <2> QED
    BY <2>1, <2>2
<1> QED
  BY <1>5, <1>6 DEF Lasting

\* The fixtures of the folder that is done are kept.
LEMMA LastingDone == Progress /\ Lasting /\ FolderDone => Lasting'
<1> SUFFICES ASSUME Progress, Lasting, FolderDone PROVE Lasting'
  OBVIOUS
<1>1. /\ phase = "tasks" /\ phase' = "folder" /\ At("settled") = DOMAIN task
      /\ world' = world /\ folders' = folders /\ output' = output
  BY DEF FolderDone
<1>2. /\ world \in Worlds /\ current \in Folders \ folders
  BY <1>1 DEF Progress, Placed
<1>3. Done' = Done \cup {current} /\ Running
  BY <1>1, <1>2, SameTotals DEF Done, Running
<1>4. (Apart' <=> Apart) /\ Works' = Works /\ \A out, f : Handler(out, f)' = Handler(out, f)
  BY <1>1, SameTotals
<1>5. AllKept'
  <2> SUFFICES ASSUME Apart, NEW w \in Works, w[1] \in Done \cup {current},
                      Handler(w[1], w[2])'.answer = "written"
               PROVE  Kept(w[2])'
    BY <1>1, <1>3, <1>4 DEF AllKept
  <2>0. Handler(w[1], w[2]).answer = "written"
    BY <1>4
  <2>1. CASE w[2] \in DOMAIN task
    <3> DEFINE f == w[2]
               p == Filed(current, f)
    <3>1. world.command = Mass /\ w[1] \in Folders
      BY <1>2, WorksAre DEF Apart
    <3>2. Handler(current, f).answer = "written"
      BY <1>2, <2>0, <3>1, MassIs
    <3>3. f \in At("settled") /\ task[f].at # "waiting" /\ <<current, f>> \in Works
      BY <1>1, <2>1, TaskFiles DEF At, Progress
    <3>4. task[f].does = Handler(current, f) /\ task[f].does.to = p
      BY <1>1, <2>1, <3>2, <3>3, ApartMass
    <3>5. p \in DOMAIN output /\ output[p] = Handler(current, f).content
      BY <1>1, <3>2, <3>3, <3>4 DEF Lasting, AsWritten
    <3> HIDE DEF f, p
    <3>6. ASSUME NEW folder, folder = current PROVE Kept(f)'
      <4>1. /\ folder \in Done' /\ (<<folder, f>> \in Works)' /\ Handler(folder, f)' = Handler(folder, f)
            /\ Filed(folder, f) \in DOMAIN output'
            /\ output'[Filed(folder, f)] = Handler(folder, f).content
        BY <1>1, <1>3, <1>4, <3>3, <3>5, <3>6 DEF p
      <4> QED
        BY <4>1 DEF Kept
    <3> QED
      BY <3>6 DEF f
  <2>2. CASE w[2] \notin DOMAIN task
    <3>1. w[1] \in Done
      BY <1>1, <1>2, <2>2, WorksAre DEF Progress, Tasks
    <3>2. Kept(w[2])
      BY <1>3, <2>0, <2>2, <3>1 DEF Lasting, AllKept
    <3> QED
      BY <1>1, <1>3, <3>2, SameKept
  <2> QED
    BY <2>1, <2>2
<1>6. AsWritten'
  BY <1>1 DEF AsWritten
<1> QED
  BY <1>5, <1>6 DEF Lasting

\* No file changes, no folder is done.
LEMMA LastingStays ==
    ASSUME Lasting, UNCHANGED <<world, output, task>>, Running, Done' = Done,
           phase' = "tasks" <=> phase = "tasks"
    PROVE  Lasting'
<1>1. \A f : Kept(f) => Kept(f)'
  BY SameKept
<1>2. (Apart' <=> Apart) /\ Works' = Works /\ \A out, f : Handler(out, f)' = Handler(out, f)
  BY SameTotals
<1>3. AllKept'
  <2> SUFFICES ASSUME Apart, NEW w \in Works, w[1] \in Done, Handler(w[1], w[2])'.answer = "written"
               PROVE  Kept(w[2])' \/ (phase' = "tasks" /\ w[2] \in DOMAIN task')
    BY <1>2 DEF AllKept
  <2>1. Handler(w[1], w[2]).answer = "written"
    BY <1>2
  <2> QED
    BY <1>1, <2>1 DEF Lasting, AllKept
<1>4. AsWritten'
  BY <1>2 DEF Lasting, AsWritten, At
<1> QED
  BY <1>3, <1>4 DEF Lasting

\* No fixture of a folder done so far is lost, in every reachable state.
THEOREM CommandLasting == Spec => []Lasting
<1>1. Init => Lasting
  BY DEF Init, Lasting, AllKept, AsWritten, Running
<1>2. Progress /\ Whole /\ Lasting /\ [Next]_vars => Lasting'
  <2> SUFFICES ASSUME Progress, Whole, Lasting, [Next]_vars PROVE Lasting'
    OBVIOUS
  <2>1. CASE Begin
    <3>1. world' = world /\ phase' = "folder" /\ folders' = Folders
      BY <2>1 DEF Begin, Folders
    <3>2. Done' = {}
      BY <3>1, SameTotals DEF Done
    <3> QED
      BY <3>1, <3>2 DEF Lasting, AllKept, AsWritten
  <2>2. CASE Refuse \/ Die \/ Fail
    BY <2>2 DEF Refuse, Die, Fail, Running, Lasting, AllKept, AsWritten
  <2>3. CASE Return
    <3>1. /\ Done' = Done /\ Running /\ (phase' = "tasks" <=> phase = "tasks")
          /\ UNCHANGED <<world, output, task>>
      BY <2>3, SameTotals DEF Return, Done, Running
    <3> QED
      BY <3>1, LastingStays
  <2>4. CASE UNCHANGED vars
    <3>1. UNCHANGED <<world, phase, folders, current, output, task>>
      BY <2>4 DEF vars
    <3>2. Done' = Done
      BY <3>1, SameTotals DEF Done
    <3>3. CASE Running
      <4>1. UNCHANGED <<world, output, task>> /\ phase' = phase
        BY <3>1
      <4>2. phase' = "tasks" <=> phase = "tasks"
        BY <3>1
      <4> QED
        BY <3>1, <3>2, <3>3, <4>1, <4>2, LastingStays
    <3>4. CASE ~Running
      BY <3>1, <3>4 DEF Running, Lasting, AllKept, AsWritten
    <3> QED
      BY <3>3, <3>4
  <2> QED
    BY <2>1, <2>2, <2>3, <2>4, LastingFolder, LastingTake, LastingOpen, LastingWrite,
       LastingDone DEF Next
<1> QED
  BY <1>1, <1>2, CommandProgress, CommandWhole, PTL DEF Spec

-----------------------------------------------------------------------------
\* At the end no file is open, and every folder is done.
LEMMA RightAtTheEnd == Progress /\ Whole /\ Totals => OutputIsRight
<1> SUFFICES ASSUME Progress, Whole, Totals,
                    world.command \notin ReadOnly, phase \in {"returned", "raised"}
             PROVE  /\ \A p \in DOMAIN output : RightIs(p, output[p])
                    /\ phase = "returned" /\ InTurn =>
                          /\ \A w \in Works :
                                Handler(w[1], w[2]).to \in DOMAIN output \cup {NoPath}
                          /\ world.command = Mass => DOMAIN Copied \subseteq DOMAIN output
                          /\ count = Cardinality({w \in Works :
                                        Handler(w[1], w[2]).answer \in {"written", "dry"}})
  BY DEF OutputIsRight, RightIs, Wrote, InTurn
<1>1. \A p \in DOMAIN output : RightIs(p, output[p])
  <2>1. \A p : ~OpenAt(p)
    BY DEF OpenAt
  <2> QED
    BY <2>1 DEF Whole, Contents, Running
<1>2. ASSUME phase = "returned", InTurn
      PROVE  /\ \A w \in Works : Handler(w[1], w[2]).to \in DOMAIN output \cup {NoPath}
             /\ world.command = Mass => DOMAIN Copied \subseteq DOMAIN output
             /\ count = Cardinality({w \in Works :
                           Handler(w[1], w[2]).answer \in {"written", "dry"}})
  <2>1. Running /\ Done = Folders /\ \A w \in Works : w[1] \in Folders
    BY <1>2, WorksAre DEF Running, Done, Progress, Placed
  <2>2. Adding(Done) = {w \in Works : Handler(w[1], w[2]).answer \in {"written", "dry"}}
    BY <2>1 DEF Adding
  <2>3. count = Cardinality(Adding(Done))
    BY <2>1 DEF Totals, Summed
  <2>4. count = Cardinality({w \in Works : Handler(w[1], w[2]).answer \in {"written", "dry"}})
    BY <2>2, <2>3
  <2>5. \A w \in Works : Handler(w[1], w[2]).to \in DOMAIN output \cup {NoPath}
    BY <1>2, <2>1 DEF Totals, AllWritten
  <2>6. world.command = Mass => DOMAIN Copied \subseteq DOMAIN output
    BY <2>1 DEF Totals, CopiesStay
  <2> QED
    BY <2>4, <2>5, <2>6
<1> QED
  BY <1>1, <1>2

(***************************************************************************)
(* OutputIsRight: of earlier runs a command leaves nothing, each file is   *)
(* whole or was written by two at a time, and one that returns has written *)
(* and counted all of them (test_suite.py, every command with an output).  *)
(***************************************************************************)
THEOREM OutputIsRightHolds == Spec => []OutputIsRight
BY RightAtTheEnd, CommandProgress, CommandWhole, CommandTotals, PTL

\* At the end every folder is done.
LEMMA KeptAtTheEnd == Progress /\ Lasting => NothingIsLost
<1> SUFFICES ASSUME Progress, Lasting, phase = "returned", Apart,
                    NEW w \in Works, Handler(w[1], w[2]).answer = "written"
             PROVE  \E p \in DOMAIN output :
                       p.stem = w[2].stem /\ output[p] = Handler(w[1], w[2]).content
  BY DEF NothingIsLost, Apart
<1>1. world \in Worlds /\ world.command = Mass /\ Running /\ Done = Folders
  BY DEF Progress, Placed, Apart, Running, Done
<1>2. w[1] \in Folders
  BY <1>1, WorksAre
<1>3. Kept(w[2])
  BY <1>1, <1>2 DEF Lasting, AllKept
<1>4. PICK folder \in Done :
          /\ Filed(folder, w[2]) \in DOMAIN output
          /\ output[Filed(folder, w[2])] = Handler(folder, w[2]).content
  BY <1>3 DEF Kept
<1>5. /\ Filed(folder, w[2]).stem = w[2].stem
      /\ Handler(folder, w[2]).content = Handler(w[1], w[2]).content
  BY <1>1, <1>2, <1>4, MassIs
<1> QED
  BY <1>4, <1>5

(***************************************************************************)
(* NothingIsLost: in whatever order mass-regenerate-fixtures takes the     *)
(* folders, and whatever it removes on the way, every fixture it wrote is  *)
(* there when it returns (test_suite.py mass_regenerate_fixtures).         *)
(***************************************************************************)
THEOREM NothingIsLostHolds == Spec => []NothingIsLost
BY KeptAtTheEnd, CommandProgress, CommandLasting, PTL

(***************************************************************************)
(* A file that is not debris is what the handler of one input answered for *)
(* its path.                                                               *)
(***************************************************************************)
LEMMA ComesFromAFile ==
    ASSUME Progress, Whole, NEW p \in DOMAIN output,
           output[p].effects # NoEffects \/ output[p].what \in {"text", "readable"}
    PROVE  \E f \in world.files : \E out :
              /\ Handler(out, f).to = p /\ Handler(out, f).content = output[p]
              /\ AnswerRight(f, Handler(out, f))
<1>1. ASSUME NEW what \in {"old", "copied", "empty", "mixed"} PROVE output[p] # Debris(what)
  <2>1. Debris(what).effects = NoEffects /\ Debris(what).what = what
    BY DEF Debris, Content
  <2> QED
    BY <2>1
<1>2. PICK w \in Writers(p) : output[p] = Handler(w[1], w[2]).content
  BY <1>1 DEF Whole, Sources, Wrote
<1>3. w \in Works /\ Handler(w[1], w[2]).to = p /\ world \in Worlds
  BY DEF Writers, Progress, Placed
<1>4. w[2] \in world.files
  BY <1>3, WorksAre
<1>5. AnswerRight(w[2], Handler(w[1], w[2]))
  BY <1>3, <1>4, HandlerRight
<1> QED
  BY <1>2, <1>3, <1>4, <1>5

\* So the effects of a fixture are right, its handler being so.
LEMMA EffectsAreRight == Progress /\ Whole => EffectsBelong
<1> SUFFICES ASSUME Progress, Whole, NEW p \in DOMAIN output, output[p].effects # NoEffects
             PROVE  /\ output[p].effects.under = output[p].features
                    /\ output[p].what # "readable" =>
                          output[p].effects.of = output[p].context
                    /\ \E f \in world.files :
                          /\ p.stem = f.stem
                          /\ output[p].effects.of = ContextOf(world.harness, f)
                          /\ output[p].features = FeaturesOf(f)
  BY DEF EffectsBelong
<1>0. PICK f \in world.files : \E out :
          /\ Handler(out, f).to = p /\ Handler(out, f).content = output[p]
          /\ AnswerRight(f, Handler(out, f))
  BY ComesFromAFile
<1>1. PICK out :
          /\ Handler(out, f).to = p /\ Handler(out, f).content = output[p]
          /\ AnswerRight(f, Handler(out, f))
  BY <1>0
<1>2. EffectsRight(f, Handler(out, f))
  BY <1>1 DEF AnswerRight
<1> QED
  BY <1>1, <1>2 DEF EffectsRight

(***************************************************************************)
(* EffectsBelong: a fixture records the effects of the context and the     *)
(* features beside them, which are those of its source, each feature id    *)
(* where the additions, removals and rekeyings take it (fixture_utils.py   *)
(* create_fixture_from_context, regenerate_fixture).                       *)
(***************************************************************************)
THEOREM EffectsBelongHolds == Spec => []EffectsBelong
BY EffectsAreRight, CommandProgress, CommandWhole, PTL

\* So a text reads back.
LEMMA TextsAreRight == Progress /\ Whole => DecodedReadsBack
<1> SUFFICES ASSUME Progress, Whole, NEW p \in DOMAIN output,
                    output[p].what \in {"text", "readable"}
             PROVE  \E f \in world.files :
                       /\ p.stem = f.stem
                       /\ HumanDecode(output[p].harness, output[p].context) =
                             ReadBack(output[p].harness, ContextOf(output[p].harness, f))
  BY DEF DecodedReadsBack, ReadBack
<1>0. PICK f \in world.files : \E out :
          /\ Handler(out, f).to = p /\ Handler(out, f).content = output[p]
          /\ AnswerRight(f, Handler(out, f))
  BY ComesFromAFile
<1>1. PICK out :
          /\ Handler(out, f).to = p /\ Handler(out, f).content = output[p]
          /\ AnswerRight(f, Handler(out, f))
  BY <1>0
<1>2. TextRight(f, Handler(out, f))
  BY <1>1 DEF AnswerRight
<1> QED
  BY <1>1, <1>2 DEF TextRight

(***************************************************************************)
(* DecodedReadsBack: every readable file is its input again when it is     *)
(* decoded, but for an empty hash (codec_utils.py of every harness).       *)
(***************************************************************************)
THEOREM DecodedReadsBackHolds == Spec => []DecodedReadsBack
BY TextsAreRight, CommandProgress, CommandWhole, PTL

-----------------------------------------------------------------------------
(***************************************************************************)
(* FlatBuffers fixtures of an ELF loader.  A table holds a hash of eight   *)
(* bytes or none.                                                          *)
(***************************************************************************)
TableHash == {<< >>} \cup [1..HashLength -> Nat]

TableEffects ==
    [err_code : Nat, rodata_hash : TableHash, text_cnt : Nat, text_off : Nat,
     entry_pc : Nat, calldests_hash : TableHash]

\* A hash that a table held is stored as it is.
LEMMA TableHashIsStored == \A hash \in TableHash : StoredHash(hash) = hash
<1> SUFFICES ASSUME NEW hash \in TableHash PROVE StoredHash(hash) = hash
  OBVIOUS
<1>1. CASE hash = << >>
  BY <1>1 DEF StoredHash, HashLength
<1>2. CASE hash \in [1..HashLength -> Nat]
  <2>1. hash \in Seq(Nat) /\ Len(hash) = 8
    <3>1. \A n \in Nat : \A h \in [1..n -> Nat] : h \in Seq(Nat) /\ Len(h) = n
      OBVIOUS
    <3>2. HashLength \in Nat
      BY DEF HashLength
    <3>3. hash \in Seq(Nat) /\ Len(hash) = HashLength
      BY <1>2, <3>1, <3>2
    <3> QED
      BY <3>3 DEF HashLength
  <2>2. SubSeq(hash, 1, 8) = hash
    BY <2>1
  <2> QED
    BY <2>1, <2>2 DEF StoredHash, HashLength
<1> QED
  BY <1>1, <1>2 DEF TableHash

\* Whatever a library's table holds is the same in the fixture's.
LEMMA TableEffectsAreStored == \A effects \in TableEffects : EffectsTable(effects) = effects
BY TableHashIsStored DEF EffectsTable, TableEffects

(***************************************************************************)
(* A regenerated FlatBuffers fixture (_regenerate_fb_fixture: extract,     *)
(* execute, build) reads back as its old entrypoint and input, but for the *)
(* features, which are the new ones, and as the effects the library gave,  *)
(* whatever parts the old fixture lacked.                                  *)
(***************************************************************************)
THEOREM RegeneratedElfReadsBack ==
    ASSUME NEW fixture, NEW empty, NEW features, NEW effects \in TableEffects,
           NEW new, new = RegeneratedElf(fixture, empty, features, effects)
    PROVE  /\ ExtractFbElfEffects(new) = <<effects>>
           /\ ExtractFbElfEntrypoint(new, empty) = ExtractFbElfEntrypoint(fixture, empty)
           /\ ExtractFbElfFeatures(new) = features
           /\ ExtractFbElfCtx(new) = [ExtractFbElfCtx(fixture) EXCEPT !.features = features]
<1> DEFINE entrypoint == ExtractFbElfEntrypoint(fixture, empty)
           old == ExtractFbElfCtx(fixture)
           ctx == [old EXCEPT !.features = features]
<1>1. PICK elf, ids, checks :
         old = [elf_data |-> elf, features |-> ids, deploy_checks |-> checks]
  BY Zenon DEF ExtractFbElfCtx
<1>2. ctx = [elf_data |-> old.elf_data, features |-> features,
             deploy_checks |-> old.deploy_checks]
  BY <1>1
<1> HIDE DEF entrypoint, old, ctx
<1>3. ctx.features = features
  BY <1>2
<1>4. new = BuildFbElfFixture(entrypoint, ctx, <<effects>>)
  BY DEF RegeneratedElf, entrypoint, old, ctx
<1>5. /\ new.metadata = <<entrypoint>> /\ new.input = <<BuildFbElfCtx(ctx)>>
      /\ new.output = <<EffectsTable(effects)>>
  BY <1>4 DEF BuildFbElfFixture
<1>6. new.metadata # << >> /\ new.input # << >> /\ new.input[1] = BuildFbElfCtx(ctx)
  BY <1>5
<1>7. ExtractFbElfEffects(new) = <<effects>>
  BY <1>5, TableEffectsAreStored DEF ExtractFbElfEffects
<1>8. ExtractFbElfEntrypoint(new, empty) = entrypoint
  BY <1>5, <1>6 DEF ExtractFbElfEntrypoint
<1>9. ExtractFbElfFeatures(new) = features
  BY <1>3, <1>6 DEF ExtractFbElfFeatures, BuildFbElfCtx
<1>10. ExtractFbElfCtx(new) = ctx
  BY <1>2, <1>3, <1>6, <1>9 DEF ExtractFbElfCtx, BuildFbElfCtx
<1> QED
  BY <1>7, <1>8, <1>9, <1>10 DEF entrypoint, ctx, old

-----------------------------------------------------------------------------
(***************************************************************************)
(* The features a library can be given (features_utils.py).  The one it is *)
(* proposed is compatible, every compatible set differs from the given one *)
(* at least where the proposed one does, so a compatible set is proposed   *)
(* as it is; and the report is empty for the compatible sets only.         *)
(***************************************************************************)
THEOREM ProposedFeaturesAreNearest ==
    ASSUME NEW cleaned, NEW supported, NEW features,
           NEW target, target = TargetFeaturePool(cleaned, supported),
           NEW least, least = MinCompatibleFeatureset(target, features),
           NEW report, report = CompatibilityReport(target, features)
    PROVE  /\ IsFeaturesetCompatible(target, least)
           /\ \A other : IsFeaturesetCompatible(target, other) =>
                 /\ features \ least \subseteq features \ other
                 /\ least \ features \subseteq other \ features
           /\ IsFeaturesetCompatible(target, features) => least = features
           /\ IsFeaturesetCompatible(target, features) <=>
                 report.missing = {} /\ report.unsupported = {}
<1>1. /\ target.cleaned_up_features = cleaned
      /\ target.union_features = cleaned \cup supported
  BY DEF TargetFeaturePool
<1>2. least = (cleaned \cup features) \cap (cleaned \cup supported)
  BY <1>1 DEF MinCompatibleFeatureset
<1>3. \A other : IsFeaturesetCompatible(target, other) <=>
          cleaned \subseteq other /\ other \subseteq cleaned \cup supported
  BY <1>1 DEF IsFeaturesetCompatible
<1>4. /\ report.missing = cleaned \ features
      /\ report.unsupported = features \ (cleaned \cup supported)
  BY <1>1 DEF CompatibilityReport
<1>5. IsFeaturesetCompatible(target, least)
  BY <1>2, <1>3
<1>6. ASSUME NEW other, IsFeaturesetCompatible(target, other)
      PROVE  features \ least \subseteq features \ other /\ least \ features \subseteq other \ features
  BY <1>2, <1>3, <1>6
<1>7. IsFeaturesetCompatible(target, features) => least = features
  BY <1>2, <1>3
<1>8. IsFeaturesetCompatible(target, features) <=>
          report.missing = {} /\ report.unsupported = {}
  BY <1>3, <1>4
<1> QED
  BY <1>5, <1>6, <1>7, <1>8
===============================================================================
