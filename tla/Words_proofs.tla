----------------------------- MODULE Words_proofs -----------------------------
(***************************************************************************)
(* What the masks of ppu.rs do to a word, in arithmetic: they take fields  *)
(* out of it and put others in, and touch nothing else.                    *)
(***************************************************************************)
EXTENDS Words, TLAPS

Word == {n \in Nat : n < 65536}
Hex  == {n \in Nat : n < 16}

-----------------------------------------------------------------------------
(* Digits *)

(* A mask's digit keeps some bits of a digit.                              *)
LEMMA DigitUnderMask ==
  ASSUME NEW a \in Hex
  PROVE  /\ AndDigit(a, 0) = 0 /\ AndDigit(a, 15) = a
         /\ AndDigit(a, 1) = a % 2 /\ AndDigit(a, 3) = a % 4 /\ AndDigit(a, 7) = a % 8
         /\ AndDigit(a, 14) = 2 * (a \div 2) /\ AndDigit(a, 12) = 4 * (a \div 4)
         /\ AndDigit(a, 8) = 8 * (a \div 8)
         /\ AndDigit(a, 11) = a - (4 * ((a \div 4) % 2))
         /\ AndDigit(a, 4) = 4 * ((a \div 4) % 2)
BY DEF AndDigit, DigitOf, Bits, Hex

(* Digits without a bit in common are added.                               *)
Quarters == {0, 4, 8, 12}
Evens    == {0, 2, 4, 6, 8, 10, 12, 14}
Gapped   == {0, 1, 2, 3, 8, 9, 10, 11}

LEMMA DigitsJoined ==
  /\ \A a \in Hex : OrDigit(a, 0) = a /\ OrDigit(0, a) = a
  /\ \A a \in 0 .. 3, b \in Quarters : OrDigit(a, b) = a + b /\ OrDigit(b, a) = a + b
  /\ \A a \in {0, 1}, b \in Evens : OrDigit(a, b) = a + b /\ OrDigit(b, a) = a + b
  /\ \A a \in {0, 4}, b \in Gapped : OrDigit(a, b) = a + b /\ OrDigit(b, a) = a + b
BY DEF OrDigit, DigitOf, Bits, Hex, Quarters, Evens, Gapped

LEMMA TopBitFlipped ==
  ASSUME NEW a \in Hex
  PROVE  XorDigit(a, 0) = a /\ XorDigit(a, 8) = (a + 8) % 16
BY DEF XorDigit, DigitOf, Bits, Hex
-----------------------------------------------------------------------------
(* Words *)

FromDigits(a, b, c, d) == (4096 * a) + (256 * b) + (16 * c) + d

LEMMA DigitsOfWord ==
  ASSUME NEW n \in Word
  PROVE  /\ Digit(n, 4096) \in Hex /\ Digit(n, 256) \in Hex
         /\ Digit(n, 16) \in Hex /\ Digit(n, 1) \in Hex
         /\ n = FromDigits(Digit(n, 4096), Digit(n, 256), Digit(n, 16), Digit(n, 1))
BY DEF Digit, Hex, Word, FromDigits

LEMMA WordOfDigits ==
  ASSUME NEW a \in Hex, NEW b \in Hex, NEW c \in Hex, NEW d \in Hex
  PROVE  /\ FromDigits(a, b, c, d) \in Word
         /\ Digit(FromDigits(a, b, c, d), 4096) = a /\ Digit(FromDigits(a, b, c, d), 256) = b
         /\ Digit(FromDigits(a, b, c, d), 16) = c /\ Digit(FromDigits(a, b, c, d), 1) = d
BY DEF Digit, Hex, Word, FromDigits

LEMMA AndOfWords ==
  ASSUME NEW m, NEW n
  PROVE  And(m, n) = FromDigits(AndDigit(Digit(m, 4096), Digit(n, 4096)), AndDigit(Digit(m, 256), Digit(n, 256)),
                            AndDigit(Digit(m, 16), Digit(n, 16)), AndDigit(Digit(m, 1), Digit(n, 1)))
BY DEF And, FromDigits

LEMMA OrOfDigits ==
  \A a, b, c, d, i, j, k, l :
    /\ a \in Hex /\ b \in Hex /\ c \in Hex /\ d \in Hex
    /\ i \in Hex /\ j \in Hex /\ k \in Hex /\ l \in Hex
    => Or(FromDigits(a, b, c, d), FromDigits(i, j, k, l))
         = FromDigits(OrDigit(a, i), OrDigit(b, j), OrDigit(c, k), OrDigit(d, l))
<1> TAKE a, b, c, d, i, j, k, l
<1> HAVE /\ a \in Hex /\ b \in Hex /\ c \in Hex /\ d \in Hex
         /\ i \in Hex /\ j \in Hex /\ k \in Hex /\ l \in Hex
<1> DEFINE m == FromDigits(a, b, c, d)  n == FromDigits(i, j, k, l)
<1>1. /\ Digit(m, 4096) = a /\ Digit(m, 256) = b /\ Digit(m, 16) = c /\ Digit(m, 1) = d
      /\ Digit(n, 4096) = i /\ Digit(n, 256) = j /\ Digit(n, 16) = k /\ Digit(n, 1) = l
  BY WordOfDigits
<1>2. Or(m, n) = FromDigits(OrDigit(Digit(m, 4096), Digit(n, 4096)), OrDigit(Digit(m, 256), Digit(n, 256)),
                            OrDigit(Digit(m, 16), Digit(n, 16)), OrDigit(Digit(m, 1), Digit(n, 1)))
  BY DEF Or, FromDigits
<1> QED BY <1>1, <1>2

-----------------------------------------------------------------------------
(* The expressions of ppu.rs *)

(* What is taken from a byte.                                              *)
LEMMA BytesMasked ==
  ASSUME NEW val \in Nat, val < 256
  PROVE  And(val, 3) = val % 4 /\ And(val, 7) = val % 8 /\ And(val, \h3f) = val % 64
<1>1. Digit(val, 16) \in Hex /\ Digit(val, 1) \in Hex /\ Digit(val, 4096) = 0 /\ Digit(val, 256) = 0
  BY DEF Digit, Hex
<1>2. \A n \in {3, 7} : Digit(n, 4096) = 0 /\ Digit(n, 256) = 0 /\ Digit(n, 16) = 0 /\ Digit(n, 1) = n
  BY DEF Digit
<1>3. /\ Digit(\h3f, 4096) = 0 /\ Digit(\h3f, 256) = 0 /\ Digit(\h3f, 16) = 3 /\ Digit(\h3f, 1) = 15
  BY DEF Digit
<1>4. AndDigit(0, 0) = 0
  BY DigitUnderMask DEF Hex
<1>5. And(val, 3) = Digit(val, 1) % 4 /\ And(val, 7) = Digit(val, 1) % 8
  <2> DEFINE c == Digit(val, 16)  d == Digit(val, 1)
  <2>1. \A n \in {3, 7} : And(val, n) = FromDigits(0, 0, AndDigit(c, 0), AndDigit(d, n))
    BY <1>1, <1>2, <1>4, AndOfWords
  <2>2. AndDigit(c, 0) = 0 /\ AndDigit(d, 3) = d % 4 /\ AndDigit(d, 7) = d % 8
    BY <1>1, DigitUnderMask
  <2> HIDE DEF c, d
  <2> QED BY <1>1, <2>1, <2>2 DEF FromDigits, Hex, c, d
<1>6. And(val, \h3f) = (16 * (Digit(val, 16) % 4)) + Digit(val, 1)
  <2> HIDE DEF Digit
  <2> QED BY <1>1, <1>3, <1>4, AndOfWords, DigitUnderMask DEF FromDigits, Hex
<1> QED BY <1>5, <1>6 DEF Digit

(* A word under each of the masks.                                         *)
LEMMA MasksOfDigits ==
  ASSUME NEW a \in Hex, NEW b \in Hex, NEW c \in Hex, NEW d \in Hex
  PROVE  LET t == FromDigits(a, b, c, d)
         IN /\ And(t, \hf3ff) = FromDigits(a, b % 4, c, d)
            /\ And(t, \hffe0) = FromDigits(a, b, 2 * (c \div 2), 0)
            /\ And(t, \hc1f) = FromDigits(0, 4 * (b \div 4), c % 2, d)
            /\ And(t, \hff) = FromDigits(0, 0, c, d)
            /\ And(t, \hff00) = FromDigits(a, b, 0, 0)
            /\ And(t, \h7be0) = FromDigits(a % 8, b - (4 * ((b \div 4) % 2)), 2 * (c \div 2), 0)
            /\ And(t, \h41f) = FromDigits(0, 4 * ((b \div 4) % 2), c % 2, d)
            /\ And(t, \h3e0) = FromDigits(0, b % 4, 2 * (c \div 2), 0)
            /\ And(t, \h8fff) = FromDigits(8 * (a \div 8), b, c, d)
            /\ And(t, \h7000) = FromDigits(a % 8, 0, 0, 0)
            /\ And(t, \hfc1f) = FromDigits(a, 4 * (b \div 4), c % 2, d)
<1> DEFINE t == FromDigits(a, b, c, d)
<1>1. /\ Digit(t, 4096) = a /\ Digit(t, 256) = b /\ Digit(t, 16) = c /\ Digit(t, 1) = d
  BY WordOfDigits
<1> HIDE DEF t
<1>2. And(t, \hf3ff) = FromDigits(a, b % 4, c, d)
  <2>1. Digit(\hf3ff, 4096) = 15 /\ Digit(\hf3ff, 256) = 3 /\ Digit(\hf3ff, 16) = 15 /\ Digit(\hf3ff, 1) = 15
    BY DEF Digit
  <2> QED BY <1>1, <2>1, AndOfWords, DigitUnderMask
<1>3. And(t, \hffe0) = FromDigits(a, b, 2 * (c \div 2), 0)
  <2>1. Digit(\hffe0, 4096) = 15 /\ Digit(\hffe0, 256) = 15 /\ Digit(\hffe0, 16) = 14 /\ Digit(\hffe0, 1) = 0
    BY DEF Digit
  <2> QED BY <1>1, <2>1, AndOfWords, DigitUnderMask
<1>4. And(t, \hc1f) = FromDigits(0, 4 * (b \div 4), c % 2, d)
  <2>1. Digit(\hc1f, 4096) = 0 /\ Digit(\hc1f, 256) = 12 /\ Digit(\hc1f, 16) = 1 /\ Digit(\hc1f, 1) = 15
    BY DEF Digit
  <2> QED BY <1>1, <2>1, AndOfWords, DigitUnderMask
<1>5. And(t, \hff) = FromDigits(0, 0, c, d)
  <2>1. Digit(\hff, 4096) = 0 /\ Digit(\hff, 256) = 0 /\ Digit(\hff, 16) = 15 /\ Digit(\hff, 1) = 15
    BY DEF Digit
  <2> QED BY <1>1, <2>1, AndOfWords, DigitUnderMask
<1>6. And(t, \hff00) = FromDigits(a, b, 0, 0)
  <2>1. Digit(\hff00, 4096) = 15 /\ Digit(\hff00, 256) = 15 /\ Digit(\hff00, 16) = 0 /\ Digit(\hff00, 1) = 0
    BY DEF Digit
  <2> QED BY <1>1, <2>1, AndOfWords, DigitUnderMask
<1>7. And(t, \h7be0) = FromDigits(a % 8, b - (4 * ((b \div 4) % 2)), 2 * (c \div 2), 0)
  <2>1. Digit(\h7be0, 4096) = 7 /\ Digit(\h7be0, 256) = 11 /\ Digit(\h7be0, 16) = 14 /\ Digit(\h7be0, 1) = 0
    BY DEF Digit
  <2> QED BY <1>1, <2>1, AndOfWords, DigitUnderMask
<1>8. And(t, \h41f) = FromDigits(0, 4 * ((b \div 4) % 2), c % 2, d)
  <2>1. Digit(\h41f, 4096) = 0 /\ Digit(\h41f, 256) = 4 /\ Digit(\h41f, 16) = 1 /\ Digit(\h41f, 1) = 15
    BY DEF Digit
  <2> QED BY <1>1, <2>1, AndOfWords, DigitUnderMask
<1>9. And(t, \h3e0) = FromDigits(0, b % 4, 2 * (c \div 2), 0)
  <2>1. Digit(\h3e0, 4096) = 0 /\ Digit(\h3e0, 256) = 3 /\ Digit(\h3e0, 16) = 14 /\ Digit(\h3e0, 1) = 0
    BY DEF Digit
  <2> QED BY <1>1, <2>1, AndOfWords, DigitUnderMask
<1>10. And(t, \h8fff) = FromDigits(8 * (a \div 8), b, c, d)
  <2>1. Digit(\h8fff, 4096) = 8 /\ Digit(\h8fff, 256) = 15 /\ Digit(\h8fff, 16) = 15 /\ Digit(\h8fff, 1) = 15
    BY DEF Digit
  <2> QED BY <1>1, <2>1, AndOfWords, DigitUnderMask
<1>11. And(t, \h7000) = FromDigits(a % 8, 0, 0, 0)
  <2>1. Digit(\h7000, 4096) = 7 /\ Digit(\h7000, 256) = 0 /\ Digit(\h7000, 16) = 0 /\ Digit(\h7000, 1) = 0
    BY DEF Digit
  <2> QED BY <1>1, <2>1, AndOfWords, DigitUnderMask
<1>12. And(t, \hfc1f) = FromDigits(a, 4 * (b \div 4), c % 2, d)
  <2>1. Digit(\hfc1f, 4096) = 15 /\ Digit(\hfc1f, 256) = 12 /\ Digit(\hfc1f, 16) = 1 /\ Digit(\hfc1f, 1) = 15
    BY DEF Digit
  <2> QED BY <1>1, <2>1, AndOfWords, DigitUnderMask
<1> QED BY <1>2, <1>3, <1>4, <1>5, <1>6, <1>7, <1>8, <1>9, <1>10, <1>11, <1>12 DEF t

(* $2000 puts two bits at the nametable's place.                           *)
LEMMA NametableReplaced ==
  ASSUME NEW a \in Hex, NEW b \in Hex, NEW c \in Hex, NEW d \in Hex,
         NEW val \in Nat, val < 256
  PROVE  Or(And(FromDigits(a, b, c, d), \hf3ff), And(val, 3) * 1024)
           = FromDigits(a, (b % 4) + (4 * (val % 4)), c, d)
<1> DEFINE low == b % 4  n == 4 * (val % 4)
<1>1. low \in 0 .. 3 /\ n \in Quarters
  BY DEF Hex, Quarters
<1>2. low \in Hex /\ n \in Hex /\ 0 \in Hex
  BY <1>1 DEF Hex, Quarters
<1>3. And(FromDigits(a, b, c, d), \hf3ff) = FromDigits(a, low, c, d)
  BY MasksOfDigits
<1>4. And(val, 3) * 1024 = FromDigits(0, n, 0, 0)
  <2>1. And(val, 3) = val % 4
    BY BytesMasked
  <2> QED BY <2>1 DEF FromDigits
<1> HIDE DEF low, n
<1>5. Or(FromDigits(a, low, c, d), FromDigits(0, n, 0, 0))
        = FromDigits(OrDigit(a, 0), OrDigit(low, n), OrDigit(c, 0), OrDigit(d, 0))
  BY <1>2, OrOfDigits
<1> QED BY <1>1, <1>3, <1>4, <1>5, DigitsJoined DEF low, n

(* The first write to $2005 replaces the column.                           *)
LEMMA ColumnReplaced ==
  ASSUME NEW a \in Hex, NEW b \in Hex, NEW c \in Hex, NEW d \in Hex,
         NEW val \in Nat, val < 256
  PROVE  Or(And(FromDigits(a, b, c, d), \hffe0), val \div 8)
           = FromDigits(a, b, (2 * (c \div 2)) + (val \div 128), (val \div 8) % 16)
<1> DEFINE even == 2 * (c \div 2)  top == val \div 128  n == (val \div 8) % 16
<1>1. even \in Evens /\ top \in {0, 1}
  BY DEF Hex, Evens
<1>2. even \in Hex /\ top \in Hex /\ n \in Hex /\ 0 \in Hex
  BY <1>1 DEF Hex, Evens
<1>3. And(FromDigits(a, b, c, d), \hffe0) = FromDigits(a, b, even, 0)
  BY MasksOfDigits
<1>4. val \div 8 = FromDigits(0, 0, top, n)
  BY DEF FromDigits
<1> HIDE DEF even, top, n
<1>5. Or(FromDigits(a, b, even, 0), FromDigits(0, 0, top, n))
        = FromDigits(OrDigit(a, 0), OrDigit(b, 0), OrDigit(even, top), OrDigit(0, n))
  BY <1>2, OrOfDigits
<1>6. OrDigit(even, top) = even + top
  <2>1. OrDigit(even, top) = top + even /\ top + even = even + top
    BY <1>1, <1>2, DigitsJoined DEF Hex
  <2> QED BY <2>1
<1>7. Or(FromDigits(a, b, even, 0), FromDigits(0, 0, top, n)) = FromDigits(a, b, even + top, n)
  BY <1>2, <1>5, <1>6, DigitsJoined
<1>8. Or(And(FromDigits(a, b, c, d), \hffe0), val \div 8) = FromDigits(a, b, even + top, n)
  BY <1>3, <1>4, <1>7
<1> QED BY <1>8 DEF even, top, n

(* The second one replaces the row and fine y.                             *)
WithRow(t, val) == Or(Or(And(t, \hc1f), And(val, 7) * 4096), (val \div 8) * 32)

LEMMA RowReplaced ==
  \A a, b, c, d, val :
    /\ a \in Hex /\ b \in Hex /\ c \in Hex /\ d \in Hex
    /\ val \in Nat /\ val < 256
    => WithRow(FromDigits(a, b, c, d), val)
         = FromDigits(val % 8, (4 * (b \div 4)) + (val \div 64), (c % 2) + (2 * ((val \div 8) % 8)), d)
<1> TAKE a, b, c, d, val
<1> HAVE /\ a \in Hex /\ b \in Hex /\ c \in Hex /\ d \in Hex
         /\ val \in Nat /\ val < 256
<1> DEFINE high == 4 * (b \div 4)  odd == c % 2  fine == val % 8
           top == val \div 64  n == 2 * ((val \div 8) % 8)
<1>1. high \in Quarters /\ odd \in {0, 1} /\ top \in 0 .. 3 /\ n \in Evens
  BY DEF Hex, Quarters, Evens
<1>2. high \in Hex /\ odd \in Hex /\ fine \in Hex /\ top \in Hex /\ n \in Hex /\ 0 \in Hex
  BY <1>1 DEF Hex, Quarters, Evens
<1>3. And(FromDigits(a, b, c, d), \hc1f) = FromDigits(0, high, odd, d)
  BY MasksOfDigits
<1>4. And(val, 7) * 4096 = FromDigits(fine, 0, 0, 0)
  <2>1. And(val, 7) = val % 8
    BY BytesMasked
  <2> QED BY <2>1 DEF FromDigits
<1>5. (val \div 8) * 32 = FromDigits(0, top, n, 0)
  BY DEF FromDigits
<1> HIDE DEF high, odd, fine, top, n
<1>6. Or(FromDigits(0, high, odd, d), FromDigits(fine, 0, 0, 0))
        = FromDigits(OrDigit(0, fine), OrDigit(high, 0), OrDigit(odd, 0), OrDigit(d, 0))
  BY <1>2, OrOfDigits
<1>7. Or(FromDigits(0, high, odd, d), FromDigits(fine, 0, 0, 0)) = FromDigits(fine, high, odd, d)
  BY <1>2, <1>6, DigitsJoined
<1>8. Or(FromDigits(fine, high, odd, d), FromDigits(0, top, n, 0))
        = FromDigits(OrDigit(fine, 0), OrDigit(high, top), OrDigit(odd, n), OrDigit(d, 0))
  BY <1>2, OrOfDigits
<1>9. OrDigit(high, top) = high + top /\ OrDigit(odd, n) = odd + n
  <2>1. OrDigit(high, top) = top + high
    BY <1>1, DigitsJoined
  <2>2. top + high = high + top
    BY <1>2 DEF Hex
  <2> QED BY <1>1, <2>1, <2>2, DigitsJoined
<1>10. OrDigit(fine, 0) = fine /\ OrDigit(d, 0) = d
  BY <1>2, DigitsJoined
<1> QED BY <1>3, <1>4, <1>5, <1>7, <1>8, <1>9, <1>10 DEF WithRow, high, odd, fine, top, n

(* The first write to $2006 replaces the upper byte, less two bits.        *)
LEMMA HighReplaced ==
  ASSUME NEW a \in Hex, NEW b \in Hex, NEW c \in Hex, NEW d \in Hex,
         NEW val \in Nat, val < 256
  PROVE  Or(And(FromDigits(a, b, c, d), \hff), And(val, \h3f) * 256)
           = FromDigits((val \div 16) % 4, val % 16, c, d)
<1> DEFINE m == (val \div 16) % 4  n == val % 16
<1>1. m \in Hex /\ n \in Hex /\ 0 \in Hex
  BY DEF Hex
<1>2. And(FromDigits(a, b, c, d), \hff) = FromDigits(0, 0, c, d)
  BY MasksOfDigits
<1>3. And(val, \h3f) * 256 = FromDigits(m, n, 0, 0)
  <2>1. And(val, \h3f) = val % 64
    BY BytesMasked
  <2> QED BY <2>1 DEF FromDigits
<1> HIDE DEF m, n
<1>4. Or(FromDigits(0, 0, c, d), FromDigits(m, n, 0, 0))
        = FromDigits(OrDigit(0, m), OrDigit(0, n), OrDigit(c, 0), OrDigit(d, 0))
  BY <1>1, OrOfDigits
<1> QED BY <1>1, <1>2, <1>3, <1>4, DigitsJoined DEF m, n

(* The second one replaces the lower byte.                                 *)
LEMMA LowReplaced ==
  ASSUME NEW a \in Hex, NEW b \in Hex, NEW c \in Hex, NEW d \in Hex,
         NEW val \in Nat, val < 256
  PROVE  Or(And(FromDigits(a, b, c, d), \hff00), val)
           = FromDigits(a, b, val \div 16, val % 16)
<1> DEFINE m == val \div 16  n == val % 16
<1>1. m \in Hex /\ n \in Hex /\ 0 \in Hex
  BY DEF Hex
<1>2. And(FromDigits(a, b, c, d), \hff00) = FromDigits(a, b, 0, 0)
  BY MasksOfDigits
<1>3. val = FromDigits(0, 0, m, n)
  BY DEF FromDigits
<1> HIDE DEF m, n
<1>4. Or(FromDigits(a, b, 0, 0), FromDigits(0, 0, m, n))
        = FromDigits(OrDigit(a, 0), OrDigit(b, 0), OrDigit(0, m), OrDigit(0, n))
  BY <1>1, OrOfDigits
<1> QED BY <1>1, <1>2, <1>3, <1>4, DigitsJoined DEF m, n

(* Rendering joins the rows of one word, the first, with the columns of    *)
(* another.                                                                *)
LEMMA WordsJoined ==
  \A a, b, c, d, i, j, k, l :
    /\ a \in Hex /\ b \in Hex /\ c \in Hex /\ d \in Hex
    /\ i \in Hex /\ j \in Hex /\ k \in Hex /\ l \in Hex
    => LET word == FromDigits(a % 8, (b - (4 * ((b \div 4) % 2))) + (4 * ((j \div 4) % 2)),
                              (2 * (c \div 2)) + (k % 2), l)
       IN /\ Or(And(FromDigits(a, b, c, d), \h7be0), And(FromDigits(i, j, k, l), \h41f)) = word
          /\ Or(And(FromDigits(i, j, k, l), \h41f), And(FromDigits(a, b, c, d), \h7be0)) = word
<1> TAKE a, b, c, d, i, j, k, l
<1> HAVE /\ a \in Hex /\ b \in Hex /\ c \in Hex /\ d \in Hex
         /\ i \in Hex /\ j \in Hex /\ k \in Hex /\ l \in Hex
<1> DEFINE fine == a % 8  open == b - (4 * ((b \div 4) % 2))  even == 2 * (c \div 2)
           side == 4 * ((j \div 4) % 2)  odd == k % 2
<1>1. open \in Gapped /\ even \in Evens /\ side \in {0, 4} /\ odd \in {0, 1}
  BY DEF Hex, Gapped, Evens
<1>2. fine \in Hex /\ open \in Hex /\ even \in Hex /\ side \in Hex /\ odd \in Hex /\ 0 \in Hex
  BY <1>1 DEF Hex, Gapped, Evens
<1>3. And(FromDigits(a, b, c, d), \h7be0) = FromDigits(fine, open, even, 0)
  BY MasksOfDigits
<1>4. And(FromDigits(i, j, k, l), \h41f) = FromDigits(0, side, odd, l)
  BY MasksOfDigits
<1> HIDE DEF fine, open, even, side, odd
<1>5. OrDigit(fine, 0) = fine /\ OrDigit(0, fine) = fine /\ OrDigit(0, l) = l /\ OrDigit(l, 0) = l
  BY <1>2, DigitsJoined
<1>6. /\ OrDigit(open, side) = side + open /\ OrDigit(side, open) = side + open
      /\ OrDigit(even, odd) = odd + even /\ OrDigit(odd, even) = odd + even
  BY <1>1, DigitsJoined
<1>7. side + open = open + side /\ odd + even = even + odd
  BY <1>2 DEF Hex
<1>8. Or(FromDigits(fine, open, even, 0), FromDigits(0, side, odd, l))
        = FromDigits(OrDigit(fine, 0), OrDigit(open, side), OrDigit(even, odd), OrDigit(0, l))
  BY <1>2, OrOfDigits
<1>9. Or(FromDigits(0, side, odd, l), FromDigits(fine, open, even, 0))
        = FromDigits(OrDigit(0, fine), OrDigit(side, open), OrDigit(odd, even), OrDigit(l, 0))
  BY <1>2, OrOfDigits
<1> QED BY <1>3, <1>4, <1>5, <1>6, <1>7, <1>8, <1>9 DEF fine, open, even, side, odd

(* The steps of inc_y: the row, the bits below the top of fine y, the      *)
(* other vertical nametable, and the row replaced.                         *)
LEMMA RowOfWord ==
  ASSUME NEW a \in Hex, NEW b \in Hex, NEW c \in Hex, NEW d \in Hex
  PROVE  LET word == FromDigits(a, b, c, d)
         IN /\ And(word, \h3e0) \div 32 = (c \div 2) + (8 * (b % 4))
            /\ And(word, \h7000) = \h7000 <=> a % 8 = 7
            /\ And(word, \h8fff) = FromDigits(8 * (a \div 8), b, c, d)
<1> DEFINE low == b % 4  half == c \div 2  fine == a % 8
<1>1. low \in Nat /\ half \in Nat /\ fine \in Nat
  BY DEF Hex
<1>2. /\ And(FromDigits(a, b, c, d), \h3e0) = FromDigits(0, low, 2 * half, 0)
      /\ And(FromDigits(a, b, c, d), \h7000) = FromDigits(fine, 0, 0, 0)
      /\ And(FromDigits(a, b, c, d), \h8fff) = FromDigits(8 * (a \div 8), b, c, d)
  BY MasksOfDigits
<1> HIDE DEF low, half, fine
<1>3. FromDigits(0, low, 2 * half, 0) \div 32 = half + (8 * low)
  BY <1>1 DEF FromDigits
<1>4. FromDigits(fine, 0, 0, 0) = \h7000 <=> fine = 7
  BY <1>1 DEF FromDigits
<1> QED BY <1>2, <1>3, <1>4 DEF low, half, fine

LEMMA NametableFlipped ==
  ASSUME NEW a \in Hex, NEW b \in Hex, NEW c \in Hex, NEW d \in Hex
  PROVE  Xor(FromDigits(a, b, c, d), \h800) = FromDigits(a, (b + 8) % 16, c, d)
<1> DEFINE word == FromDigits(a, b, c, d)
<1>1. /\ Digit(word, 4096) = a /\ Digit(word, 256) = b /\ Digit(word, 16) = c /\ Digit(word, 1) = d
  BY WordOfDigits
<1>2. /\ Digit(\h800, 4096) = 0 /\ Digit(\h800, 256) = 8 /\ Digit(\h800, 16) = 0 /\ Digit(\h800, 1) = 0
  BY DEF Digit
<1>3. Xor(word, \h800) = FromDigits(XorDigit(Digit(word, 4096), Digit(\h800, 4096)), XorDigit(Digit(word, 256), Digit(\h800, 256)),
                                    XorDigit(Digit(word, 16), Digit(\h800, 16)), XorDigit(Digit(word, 1), Digit(\h800, 1)))
  BY DEF Xor, FromDigits
<1> HIDE DEF word
<1>4. Xor(word, \h800) = FromDigits(XorDigit(a, 0), XorDigit(b, 8), XorDigit(c, 0), XorDigit(d, 0))
  BY <1>1, <1>2, <1>3
<1> QED BY <1>4, TopBitFlipped DEF word

LEMMA RowSet ==
  ASSUME NEW a \in Hex, NEW b \in Hex, NEW c \in Hex, NEW d \in Hex, NEW y \in Nat, y < 32
  PROVE  Or(And(FromDigits(a, b, c, d), \hfc1f), y * 32)
           = FromDigits(a, (4 * (b \div 4)) + (y \div 8), (c % 2) + (2 * (y % 8)), d)
<1> DEFINE high == 4 * (b \div 4)  odd == c % 2  top == y \div 8  n == 2 * (y % 8)
<1>1. high \in Quarters /\ odd \in {0, 1} /\ top \in 0 .. 3 /\ n \in Evens
  BY DEF Hex, Quarters, Evens
<1>2. high \in Hex /\ odd \in Hex /\ top \in Hex /\ n \in Hex /\ 0 \in Hex
  BY <1>1 DEF Hex, Quarters, Evens
<1>3. And(FromDigits(a, b, c, d), \hfc1f) = FromDigits(a, high, odd, d)
  BY MasksOfDigits
<1>4. y * 32 = FromDigits(0, top, n, 0)
  BY DEF FromDigits
<1> HIDE DEF high, odd, top, n
<1>5. Or(FromDigits(a, high, odd, d), FromDigits(0, top, n, 0))
        = FromDigits(OrDigit(a, 0), OrDigit(high, top), OrDigit(odd, n), OrDigit(d, 0))
  BY <1>2, OrOfDigits
<1>6. OrDigit(high, top) = high + top /\ OrDigit(odd, n) = odd + n
  <2>1. OrDigit(high, top) = top + high
    BY <1>1, DigitsJoined
  <2>2. top + high = high + top
    BY <1>2 DEF Hex
  <2> QED BY <1>1, <2>1, <2>2, DigitsJoined
<1>7. OrDigit(a, 0) = a /\ OrDigit(d, 0) = d
  BY DigitsJoined
<1>8. Or(And(FromDigits(a, b, c, d), \hfc1f), y * 32) = FromDigits(a, high + top, odd + n, d)
  BY <1>3, <1>4, <1>5, <1>6, <1>7
<1> QED BY <1>8 DEF high, odd, top, n

(* The fields of a word in its digits.                                     *)
LEMMA FieldsOfDigits ==
  ASSUME NEW a \in Hex, NEW b \in Hex, NEW c \in Hex, NEW d \in Hex
  PROVE  LET word == FromDigits(a, b, c, d)
         IN /\ word % 32 = d + (16 * (c % 2))
            /\ (word \div 32) % 32 = (c \div 2) + (8 * (b % 4))
            /\ (word \div 1024) % 4 = b \div 4
            /\ (word \div 4096) % 8 = a % 8
            /\ word \div 4096 = a
BY DEF FromDigits, Hex
-----------------------------------------------------------------------------
(* The fields of a word, and what each expression does to them             *)

Fields(word) ==
  [coarseX   |-> word % 32,
   coarseY   |-> (word \div 32) % 32,
   nametable |-> (word \div 1024) % 4,
   fineY     |-> (word \div 4096) % 8]

FieldsFrom(a, b, c, d) ==
  [coarseX   |-> d + (16 * (c % 2)),
   coarseY   |-> (c \div 2) + (8 * (b % 4)),
   nametable |-> b \div 4,
   fineY     |-> a % 8]

LEMMA FieldsAreDigits ==
  ASSUME NEW a \in Hex, NEW b \in Hex, NEW c \in Hex, NEW d \in Hex
  PROVE  /\ Fields(FromDigits(a, b, c, d)) = FieldsFrom(a, b, c, d)
         /\ FromDigits(a, b, c, d) \in Word
         /\ FromDigits(a, b, c, d) < 32768 <=> a < 8
<1>1. Fields(FromDigits(a, b, c, d)) = FieldsFrom(a, b, c, d)
  <2> HIDE DEF FromDigits
  <2> QED BY FieldsOfDigits DEF Fields, FieldsFrom
<1>2. FromDigits(a, b, c, d) < 32768 <=> a < 8
  BY DEF FromDigits, Hex
<1> QED BY <1>1, <1>2, WordOfDigits

LEMMA WordHasDigits ==
  ASSUME NEW n \in Word
  PROVE  \E a \in Hex, b \in Hex, c \in Hex, d \in Hex : n = FromDigits(a, b, c, d)
BY DigitsOfWord

LEMMA ControlSetsNametable ==
  ASSUME NEW t \in Word, NEW val \in Nat, val < 256
  PROVE  LET next == Or(And(t, \hf3ff), And(val, 3) * 1024)
         IN /\ next \in Word /\ (t < 32768 => next < 32768)
            /\ Fields(next) = [Fields(t) EXCEPT !.nametable = val % 4]
<1> PICK a \in Hex, b \in Hex, c \in Hex, d \in Hex : t = FromDigits(a, b, c, d)
  BY WordHasDigits
<1> DEFINE m == (b % 4) + (4 * (val % 4))
<1>1. m \in Hex /\ m % 4 = b % 4 /\ m \div 4 = val % 4
  BY DEF Hex
<1>2. Or(And(t, \hf3ff), And(val, 3) * 1024) = FromDigits(a, m, c, d)
  BY NametableReplaced
<1> HIDE DEF m
<1>3. FieldsFrom(a, m, c, d) = [FieldsFrom(a, b, c, d) EXCEPT !.nametable = val % 4]
  BY <1>1 DEF FieldsFrom
<1> QED BY <1>1, <1>2, <1>3, FieldsAreDigits

LEMMA ScrollSetsColumn ==
  ASSUME NEW t \in Word, NEW val \in Nat, val < 256
  PROVE  LET next == Or(And(t, \hffe0), val \div 8)
         IN /\ next \in Word /\ (t < 32768 => next < 32768)
            /\ Fields(next) = [Fields(t) EXCEPT !.coarseX = val \div 8]
<1> PICK a \in Hex, b \in Hex, c \in Hex, d \in Hex : t = FromDigits(a, b, c, d)
  BY WordHasDigits
<1> DEFINE m == (2 * (c \div 2)) + (val \div 128)  n == (val \div 8) % 16
<1>1. /\ m \in Hex /\ n \in Hex
      /\ m \div 2 = c \div 2 /\ n + (16 * (m % 2)) = val \div 8
  BY DEF Hex
<1>2. Or(And(t, \hffe0), val \div 8) = FromDigits(a, b, m, n)
  BY ColumnReplaced
<1> HIDE DEF m, n
<1>3. FieldsFrom(a, b, m, n) = [FieldsFrom(a, b, c, d) EXCEPT !.coarseX = val \div 8]
  BY <1>1 DEF FieldsFrom
<1> QED BY <1>1, <1>2, <1>3, FieldsAreDigits

RowChanged(fields, row, fine) == [fields EXCEPT !.coarseY = row, !.fineY = fine]

LEMMA RowFieldsSet ==
  ASSUME NEW x, NEW y, NEW n, NEW f, NEW row, NEW fine
  PROVE  RowChanged([coarseX |-> x, coarseY |-> y, nametable |-> n, fineY |-> f], row, fine)
           = [coarseX |-> x, coarseY |-> row, nametable |-> n, fineY |-> fine]
<1> DEFINE before == [coarseX |-> x, coarseY |-> y, nametable |-> n, fineY |-> f]
           between == [coarseX |-> x, coarseY |-> row, nametable |-> n, fineY |-> f]
           after == [coarseX |-> x, coarseY |-> row, nametable |-> n, fineY |-> fine]
<1>1. [before EXCEPT !.coarseY = row] = between
  OBVIOUS
<1>2. [between EXCEPT !.fineY = fine] = after
  OBVIOUS
<1> HIDE DEF before, between, after
<1>3. RowChanged(before, row, fine) = [[before EXCEPT !.coarseY = row] EXCEPT !.fineY = fine]
  BY Zenon DEF RowChanged
<1>4. RowChanged(before, row, fine) = after
  BY <1>1, <1>2, <1>3
<1> QED BY <1>4 DEF before, after

LEMMA ScrollSetsRow ==
  ASSUME NEW t \in Word, NEW val \in Nat, val < 256
  PROVE  LET next == WithRow(t, val)
         IN /\ next \in Word /\ next < 32768
            /\ Fields(next) = RowChanged(Fields(t), val \div 8, val % 8)
<1> PICK a \in Hex, b \in Hex, c \in Hex, d \in Hex : t = FromDigits(a, b, c, d)
  BY WordHasDigits
<1>1. WithRow(FromDigits(a, b, c, d), val)
        = FromDigits(val % 8, (4 * (b \div 4)) + (val \div 64), (c % 2) + (2 * ((val \div 8) % 8)), d)
  BY RowReplaced
<1> DEFINE k == val % 8  l == (4 * (b \div 4)) + (val \div 64)  m == (c % 2) + (2 * ((val \div 8) % 8))
           row == val \div 8
<1>2. k \in Hex /\ k < 8 /\ k % 8 = k
  BY DEF Hex
<1>3. l \in Hex /\ l \div 4 = b \div 4 /\ l % 4 = val \div 64
  BY DEF Hex
<1>4. m \in Hex /\ m % 2 = c % 2 /\ m \div 2 = (val \div 8) % 8
  BY DEF Hex
<1>5. (m \div 2) + (8 * (l % 4)) = row
  BY <1>3, <1>4
<1> HIDE DEF k, l, m, row
<1>6. FieldsFrom(k, l, m, d) = RowChanged(FieldsFrom(a, b, c, d), row, k)
  <2>1. FieldsFrom(k, l, m, d) = [coarseX |-> d + (16 * (c % 2)), coarseY |-> row,
                                  nametable |-> b \div 4, fineY |-> k]
    BY <1>2, <1>3, <1>4, <1>5 DEF FieldsFrom
  <2>2. RowChanged(FieldsFrom(a, b, c, d), row, k)
          = [coarseX |-> d + (16 * (c % 2)), coarseY |-> row, nametable |-> b \div 4, fineY |-> k]
    BY RowFieldsSet DEF FieldsFrom
  <2> QED BY <2>1, <2>2
<1>7. WithRow(FromDigits(a, b, c, d), val) = FromDigits(k, l, m, d)
  BY <1>1 DEF k, l, m
<1>8. Fields(t) = FieldsFrom(a, b, c, d)
  BY FieldsAreDigits
<1>9. /\ Fields(FromDigits(k, l, m, d)) = FieldsFrom(k, l, m, d)
      /\ FromDigits(k, l, m, d) \in Word /\ FromDigits(k, l, m, d) < 32768
  BY <1>2, <1>3, <1>4, FieldsAreDigits
<1> QED BY <1>6, <1>7, <1>8, <1>9 DEF k, row

(* The two writes to $2006 put one byte each.                              *)
LEMMA AddressSetsBytes ==
  ASSUME NEW t \in Word, NEW val \in Nat, val < 256
  PROVE  /\ Or(And(t, \hff), And(val, \h3f) * 256) = (256 * (val % 64)) + (t % 256)
         /\ Or(And(t, \hff00), val) = (256 * (t \div 256)) + val
<1> PICK a \in Hex, b \in Hex, c \in Hex, d \in Hex : t = FromDigits(a, b, c, d)
  BY WordHasDigits
<1>1. Or(And(t, \hff), And(val, \h3f) * 256) = FromDigits((val \div 16) % 4, val % 16, c, d)
  BY HighReplaced
<1>2. Or(And(t, \hff00), val) = FromDigits(a, b, val \div 16, val % 16)
  BY LowReplaced
<1>3. t % 256 = (16 * c) + d /\ t \div 256 = (16 * a) + b
  BY DEF FromDigits, Hex
<1>4. FromDigits((val \div 16) % 4, val % 16, c, d) = (256 * (val % 64)) + ((16 * c) + d)
  BY DEF FromDigits, Hex
<1>5. FromDigits(a, b, val \div 16, val % 16) = (256 * ((16 * a) + b)) + val
  BY DEF FromDigits, Hex
<1> QED BY <1>1, <1>2, <1>3, <1>4, <1>5

(* Rows and columns of two words: what rendering copies.                   *)
Joined(rows, columns) ==
  [coarseX   |-> columns.coarseX,
   coarseY   |-> rows.coarseY,
   nametable |-> (2 * (rows.nametable \div 2)) + (columns.nametable % 2),
   fineY     |-> rows.fineY]

LEMMA JoinedFromDigits ==
  ASSUME NEW a \in Hex, NEW b \in Hex, NEW c \in Hex, NEW d \in Hex,
         NEW i \in Hex, NEW j \in Hex, NEW k \in Hex, NEW l \in Hex
  PROVE  LET b1 == (b - (4 * ((b \div 4) % 2))) + (4 * ((j \div 4) % 2))
             c1 == (2 * (c \div 2)) + (k % 2)
         IN /\ a % 8 \in Hex /\ a % 8 < 8 /\ b1 \in Hex /\ c1 \in Hex
            /\ FieldsFrom(a % 8, b1, c1, l) = Joined(FieldsFrom(a, b, c, d), FieldsFrom(i, j, k, l))
<1> DEFINE b1 == (b - (4 * ((b \div 4) % 2))) + (4 * ((j \div 4) % 2))
           c1 == (2 * (c \div 2)) + (k % 2)
           a1 == a % 8
           n  == (2 * ((b \div 4) \div 2)) + ((j \div 4) % 2)
<1>1. a1 \in Hex /\ a1 < 8 /\ a1 % 8 = a1
  BY DEF Hex
<1>2. b1 \in Hex /\ b1 % 4 = b % 4 /\ b1 \div 4 = n
  BY DEF Hex
<1>3. c1 \in Hex /\ c1 % 2 = k % 2 /\ c1 \div 2 = c \div 2
  BY DEF Hex
<1>4. Joined(FieldsFrom(a, b, c, d), FieldsFrom(i, j, k, l))
        = [coarseX |-> l + (16 * (k % 2)), coarseY |-> (c \div 2) + (8 * (b % 4)),
           nametable |-> n, fineY |-> a1]
  BY DEF Joined, FieldsFrom
<1> HIDE DEF a1, b1, c1, n
<1>5. FieldsFrom(a1, b1, c1, l)
        = [coarseX |-> l + (16 * (k % 2)), coarseY |-> (c \div 2) + (8 * (b % 4)),
           nametable |-> n, fineY |-> a1]
  BY <1>1, <1>2, <1>3 DEF FieldsFrom
<1>6. FieldsFrom(a1, b1, c1, l) = Joined(FieldsFrom(a, b, c, d), FieldsFrom(i, j, k, l))
  BY <1>4, <1>5
<1> QED BY <1>1, <1>2, <1>3, <1>6 DEF a1, b1, c1

LEMMA CopiesJoin ==
  ASSUME NEW v \in Word, NEW t \in Word
  PROVE  LET next == Or(And(v, \h7be0), And(t, \h41f))
             same == Or(And(t, \h41f), And(v, \h7be0))
         IN /\ next \in Word /\ next < 32768 /\ same = next
            /\ Fields(next) = Joined(Fields(v), Fields(t))
<1> PICK a \in Hex, b \in Hex, c \in Hex, d \in Hex : v = FromDigits(a, b, c, d)
  BY WordHasDigits
<1> PICK i \in Hex, j \in Hex, k \in Hex, l \in Hex : t = FromDigits(i, j, k, l)
  BY WordHasDigits
<1> DEFINE a1 == a % 8
           b1 == (b - (4 * ((b \div 4) % 2))) + (4 * ((j \div 4) % 2))
           c1 == (2 * (c \div 2)) + (k % 2)
           next == Or(And(v, \h7be0), And(t, \h41f))
           same == Or(And(t, \h41f), And(v, \h7be0))
<1>1. next = FromDigits(a1, b1, c1, l) /\ same = next
  <2>1. /\ Or(And(FromDigits(a, b, c, d), \h7be0), And(FromDigits(i, j, k, l), \h41f)) = FromDigits(a1, b1, c1, l)
        /\ Or(And(FromDigits(i, j, k, l), \h41f), And(FromDigits(a, b, c, d), \h7be0)) = FromDigits(a1, b1, c1, l)
    BY WordsJoined
  <2> QED BY <2>1
<1>2. /\ a1 \in Hex /\ a1 < 8 /\ b1 \in Hex /\ c1 \in Hex
      /\ FieldsFrom(a1, b1, c1, l) = Joined(FieldsFrom(a, b, c, d), FieldsFrom(i, j, k, l))
  BY JoinedFromDigits, SMTT(60)
<1>3. Fields(v) = FieldsFrom(a, b, c, d) /\ Fields(t) = FieldsFrom(i, j, k, l)
  BY FieldsAreDigits
<1> HIDE DEF a1, b1, c1, next, same
<1>4. /\ Fields(FromDigits(a1, b1, c1, l)) = FieldsFrom(a1, b1, c1, l)
      /\ FromDigits(a1, b1, c1, l) \in Word /\ FromDigits(a1, b1, c1, l) < 32768
  BY <1>2, FieldsAreDigits
<1> QED BY <1>1, <1>2, <1>3, <1>4 DEF next, same

(* inc_y: the row and fine y it tests, and the three ways it goes on.      *)
LEMMA LineTests ==
  ASSUME NEW word \in Word
  PROVE  /\ And(word, \h3e0) \div 32 = Fields(word).coarseY
         /\ And(word, \h7000) = \h7000 <=> Fields(word).fineY = 7
         /\ Fields(word).coarseY \in Nat /\ Fields(word).coarseY < 32
         /\ Fields(word).fineY \in Nat /\ Fields(word).fineY < 8
<1> PICK a \in Hex, b \in Hex, c \in Hex, d \in Hex : word = FromDigits(a, b, c, d)
  BY WordHasDigits
<1> DEFINE y == (c \div 2) + (8 * (b % 4))  f == a % 8
<1>1. y \in Nat /\ y < 32 /\ f \in Nat /\ f < 8
  BY DEF Hex
<1>2. Fields(word).coarseY = y /\ Fields(word).fineY = f
  BY FieldsAreDigits DEF FieldsFrom
<1>3. And(word, \h3e0) \div 32 = y /\ (And(word, \h7000) = \h7000 <=> f = 7)
  BY RowOfWord
<1> QED BY <1>1, <1>2, <1>3

LEMMA LineWithinTile ==
  ASSUME NEW word \in Word, Fields(word).fineY < 7
  PROVE  /\ word + \h1000 \in Word
         /\ Fields(word + \h1000) = [Fields(word) EXCEPT !.fineY = @ + 1]
<1> PICK a \in Hex, b \in Hex, c \in Hex, d \in Hex : word = FromDigits(a, b, c, d)
  BY WordHasDigits
<1>1. Fields(word) = FieldsFrom(a, b, c, d)
  BY FieldsAreDigits
<1>2. a + 1 \in Hex /\ (a + 1) % 8 = (a % 8) + 1
  BY <1>1 DEF FieldsFrom, Hex
<1>3. word + \h1000 = FromDigits(a + 1, b, c, d)
  BY DEF FromDigits, Hex
<1>4. FieldsFrom(a + 1, b, c, d) = [FieldsFrom(a, b, c, d) EXCEPT !.fineY = @ + 1]
  BY <1>2 DEF FieldsFrom
<1> QED BY <1>1, <1>2, <1>3, <1>4, FieldsAreDigits

AtRow(word, y)      == Or(And(And(word, \h8fff), \hfc1f), y * 32)
AtRowBelow(word, y) == Or(And(Xor(And(word, \h8fff), \h800), \hfc1f), y * 32)

LEMMA LineOfNextRow ==
  ASSUME NEW word \in Word, NEW y \in Nat, y < 32
  PROVE  LET old == Fields(word)
         IN /\ AtRow(word, y) \in Word
            /\ Fields(AtRow(word, y)) = [coarseX |-> old.coarseX, coarseY |-> y,
                               nametable |-> old.nametable, fineY |-> 0]
            /\ AtRowBelow(word, y) \in Word
            /\ Fields(AtRowBelow(word, y)) = [coarseX |-> old.coarseX, coarseY |-> y,
                               nametable |-> (old.nametable + 2) % 4, fineY |-> 0]
<1> PICK a \in Hex, b \in Hex, c \in Hex, d \in Hex : word = FromDigits(a, b, c, d)
  BY WordHasDigits
<1> DEFINE a1 == 8 * (a \div 8)  c1 == (c % 2) + (2 * (y % 8))
           low == y \div 8  m == (4 * (b \div 4)) + low
           b2 == (b + 8) % 16  m2 == (4 * (b2 \div 4)) + low
<1>1. /\ a1 \in Hex /\ a1 % 8 = 0 /\ c1 \in Hex /\ c1 % 2 = c % 2 /\ c1 \div 2 = y % 8
      /\ b2 \in Hex /\ b2 \div 4 = ((b \div 4) + 2) % 4
  BY DEF Hex
<1>2. /\ m \in Hex /\ m \div 4 = b \div 4 /\ m % 4 = low
      /\ m2 \in Hex /\ m2 \div 4 = b2 \div 4 /\ m2 % 4 = low
  <2>1. low \in 0 .. 3
    OBVIOUS
  <2>2. \A n \in Hex : LET k == (4 * (n \div 4)) + low
                       IN  k \in Hex /\ k \div 4 = n \div 4 /\ k % 4 = low
    <3> HIDE DEF low
    <3> QED BY <2>1 DEF Hex
  <2> HIDE DEF low, b2
  <2> QED BY <1>1, <2>2
<1>3. (c1 \div 2) + (8 * (m % 4)) = y /\ (c1 \div 2) + (8 * (m2 % 4)) = y
  <2>1. (y % 8) + (8 * low) = y
    OBVIOUS
  <2> HIDE DEF m, m2, c1
  <2> QED BY <1>1, <1>2, <2>1
<1>4. /\ And(word, \h8fff) = FromDigits(a1, b, c, d)
      /\ Xor(FromDigits(a1, b, c, d), \h800) = FromDigits(a1, b2, c, d)
  BY <1>1, RowOfWord, NametableFlipped
<1>5. /\ Or(And(FromDigits(a1, b, c, d), \hfc1f), y * 32) = FromDigits(a1, m, c1, d)
      /\ Or(And(FromDigits(a1, b2, c, d), \hfc1f), y * 32) = FromDigits(a1, m2, c1, d)
  BY <1>1, RowSet
<1>6. Fields(word) = FieldsFrom(a, b, c, d)
  BY FieldsAreDigits
<1>7. /\ Fields(word).coarseX = d + (16 * (c % 2)) /\ Fields(word).nametable = b \div 4
  BY <1>6 DEF FieldsFrom
<1> HIDE DEF a1, c1, m, b2, m2
<1>8. /\ FieldsFrom(a1, m, c1, d) = [coarseX |-> d + (16 * (c % 2)), coarseY |-> y,
                                     nametable |-> b \div 4, fineY |-> 0]
      /\ FieldsFrom(a1, m2, c1, d) = [coarseX |-> d + (16 * (c % 2)), coarseY |-> y,
                                      nametable |-> ((b \div 4) + 2) % 4, fineY |-> 0]
  BY <1>1, <1>2, <1>3 DEF FieldsFrom
<1>9. /\ FromDigits(a1, m, c1, d) \in Word
      /\ Fields(FromDigits(a1, m, c1, d)) = FieldsFrom(a1, m, c1, d)
      /\ FromDigits(a1, m2, c1, d) \in Word
      /\ Fields(FromDigits(a1, m2, c1, d)) = FieldsFrom(a1, m2, c1, d)
  BY <1>1, <1>2, FieldsAreDigits
<1> QED BY <1>4, <1>5, <1>7, <1>8, <1>9 DEF AtRow, AtRowBelow
=============================================================================
