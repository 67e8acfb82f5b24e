--------------------------- MODULE HistoryProofs ---------------------------
(***************************************************************************)
(* The order of a listing, for any number of digits, any instants and any  *)
(* requests: TLC knows only two digits and six instants.                   *)
(***************************************************************************)
EXTENDS History, SequenceTheorems, FiniteSetTheorems, WellFoundedInduction, TLAPS

\* A set of numbers has a least one.
LEMMA LeastNumber ==
  ASSUME NEW T \in SUBSET Nat, T # {}
  PROVE  \E n \in T : \A m \in T : n <= m
<1>1. IsWellFoundedOn(OpToRel(<, Nat), Nat)
  BY NatLessThanWellFounded
<1>2. PICK n \in T : \A m \in T : <<m, n>> \notin OpToRel(<, Nat)
  BY <1>1, WFMin
<1>3. \A m \in T : <<m, n>> \in Nat \X Nat /\ (m < n => <<m, n>> \in OpToRel(<, Nat))
  BY DEF OpToRel
<1>4. \A m \in T : ~ (m < n)
  BY <1>2, <1>3
<1> QED BY <1>4

-----------------------------------------------------------------------------
(* Digits. *)

\* Division takes as much as fits.
LEMMA Fits ==
  ASSUME NEW t \in Nat, NEW w \in Nat \ {0}
  PROVE  \E q \in Nat, r \in 0 .. w - 1 : q = t \div w /\ r = t % w /\ t = w * q + r
<1>1. PICK q \in Nat : q = t \div w
  OBVIOUS
<1>2. PICK r \in 0 .. w - 1 : r = t % w
  OBVIOUS
<1>3. t % w = t - w * (t \div w)
  OBVIOUS
<1>4. r = t - w * q
  BY <1>1, <1>2, <1>3, Zenon
<1>5. w * q \in Nat
  OBVIOUS
<1>6. t = w * q + r
  BY <1>4, <1>5
<1> QED BY <1>1, <1>2, <1>6

LEMMA DivIsLargest ==
  ASSUME NEW t \in Nat, NEW w \in Nat \ {0}, NEW q \in Nat, NEW r \in 0 .. w - 1,
         t = w * q + r
  PROVE  t \div w = q
<1>1. PICK p \in Nat, s \in 0 .. w - 1 : p = t \div w /\ t = w * p + s
  BY Fits
<1> DEFINE wp == w * p
           wq == w * q
<1>2. wp \in Nat /\ wq \in Nat /\ t = wp + s /\ t = wq + r
  BY <1>1
<1>3. p < q => wq >= wp + w
  <2> SUFFICES ASSUME p < q PROVE wq >= wp + w
    OBVIOUS
  <2>1. PICK d \in Nat : q = p + 1 + d
    BY <1>1
  <2>2. wq = wp + w + w * d /\ w * d \in Nat
    BY <1>1, <2>1
  <2> HIDE DEF wp, wq
  <2> QED BY <1>2, <2>2
<1>4. q < p => wp >= wq + w
  <2> SUFFICES ASSUME q < p PROVE wp >= wq + w
    OBVIOUS
  <2>1. PICK d \in Nat : p = q + 1 + d
    BY <1>1
  <2>2. wp = wq + w + w * d /\ w * d \in Nat
    BY <1>1, <2>1
  <2> HIDE DEF wp, wq
  <2> QED BY <1>2, <2>2
<1> HIDE DEF wp, wq
<1>5. p = q
  BY <1>1, <1>2, <1>3, <1>4
<1> QED BY <1>1, <1>5

\* A larger quotient is one of a larger number.
LEMMA LessDiv ==
  ASSUME NEW a \in Nat, NEW b \in Nat, NEW w \in Nat \ {0}, b \div w < a \div w
  PROVE  b < a
<1>1. PICK p \in Nat, r \in 0 .. w - 1 : p = a \div w /\ a = w * p + r
  BY Fits
<1>2. PICK q \in Nat, s \in 0 .. w - 1 : q = b \div w /\ b = w * q + s
  BY Fits
<1>3. q < p
  BY <1>1, <1>2
<1>4. PICK d \in Nat : p = q + 1 + d
  BY <1>3
<1> DEFINE wq == w * q
           wd == w * d
<1>5. w * p = wq + w + wd /\ wq \in Nat /\ wd \in Nat
  BY <1>4
<1> HIDE DEF wd
<1>6. a = wq + w + wd + r /\ b = wq + s
  BY <1>1, <1>2, <1>5
<1> HIDE DEF wq
<1> QED BY <1>5, <1>6

LEMMA Weights ==
  /\ \A n \in 0 .. Places : Weight[n] \in Nat \ {0}
  /\ \A n \in 1 .. Places : n - 1 \in 0 .. Places /\ n \in 0 .. Places /\ Weight[n - 1] = Base * Weight[n]
  /\ Places \in 0 .. Places /\ Weight[Places] = 1 /\ 0 \in 0 .. Places
BY HistoryAssumption

\* Each digit adds itself to Base times what stands before it.
LEMMA NextDigit ==
  ASSUME NEW t \in Nat, NEW n \in 1 .. Places
  PROVE  \E q \in Nat, d \in 0 .. Base - 1 :
            q = t \div Weight[n - 1] /\ d = Digit(t, n) /\ t \div Weight[n] = Base * q + d
<1> DEFINE w == Weight[n]
           v == Weight[n - 1]
<1>1. w \in Nat \ {0} /\ v \in Nat \ {0} /\ v = Base * w /\ Base \in Nat \ {0}
  BY Weights, HistoryAssumption
<1> HIDE DEF w, v
<1>2. PICK p \in Nat, r \in 0 .. w - 1 : p = t \div w /\ t = w * p + r
  BY <1>1, Fits
<1>3. PICK q \in Nat, d \in 0 .. Base - 1 : q = p \div Base /\ d = p % Base /\ p = Base * q + d
  BY <1>1, Fits
<1>4. t = v * q + (w * d + r)
  <2>1. w * (Base * q + d) = w * (Base * q) + w * d
    BY <1>1
  <2>2. w * (Base * q) = v * q
    BY <1>1
  <2> DEFINE wd == w * d
             vq == v * q
  <2>3. t = vq + wd + r /\ vq \in Nat /\ wd \in Nat
    <3>1. w * p = vq + wd
      BY <1>3, <2>1, <2>2, Zenon
    <3>2. vq \in Nat /\ wd \in Nat
      BY <1>1
    <3> HIDE DEF vq, wd
    <3>3. t = (vq + wd) + r
      BY <1>2, <3>1
    <3> QED BY <3>2, <3>3
  <2> HIDE DEF vq, wd
  <2>4. t = vq + (wd + r)
    BY <2>3
  <2> QED BY <2>4 DEF vq, wd
<1>5. w * d + r \in 0 .. v - 1
  <2>1. PICK e \in Nat : Base = d + 1 + e
    BY <1>1
  <2> DEFINE wd == w * d
             we == w * e
  <2>2. v = wd + w + we /\ wd \in Nat /\ we \in Nat
    BY <1>1, <2>1
  <2> HIDE DEF wd, we
  <2>3. wd + r \in 0 .. v - 1
    BY <1>1, <2>2
  <2> QED BY <2>3 DEF wd
<1>6. t \div v = q
  <2> DEFINE s == w * d + r
  <2>1. s \in 0 .. v - 1 /\ t = v * q + s
    BY <1>4, <1>5
  <2> HIDE DEF s
  <2> QED BY <1>1, <2>1, DivIsLargest
<1>7. d = Digit(t, n)
  BY <1>2, <1>3 DEF Digit, w
<1> QED BY <1>2, <1>3, <1>6, <1>7 DEF w, v

\* Instants that agree in the second and the digits up to a place agree there.
LEMMA SamePrefix ==
  ASSUME NEW a \in Nat, NEW b \in Nat, Second(a) = Second(b), NEW k \in 0 .. Places,
         \A m \in 1 .. k : Digit(a, m) = Digit(b, m)
  PROVE  a \div Weight[k] = b \div Weight[k]
<1> DEFINE Apart == {j \in 0 .. k : a \div Weight[j] # b \div Weight[j]}
<1>0. k \in 0 .. k
  BY HistoryAssumption
<1> SUFFICES ASSUME Apart # {} PROVE FALSE
  BY <1>0
<1>1. PICK j \in Apart : \A m \in Apart : j <= m
  <2>1. Apart \in SUBSET Nat
    OBVIOUS
  <2> HIDE DEF Apart
  <2> QED BY <2>1, LeastNumber
<1>2. j # 0
  BY DEF Second
<1>3. j - 1 \in 0 .. k /\ j \in 1 .. Places /\ j \in 1 .. k
  BY <1>2, HistoryAssumption
<1>4. a \div Weight[j - 1] = b \div Weight[j - 1]
  BY <1>1, <1>3
<1>5. PICK q \in Nat, d \in 0 .. Base - 1 :
        q = a \div Weight[j - 1] /\ d = Digit(a, j) /\ a \div Weight[j] = Base * q + d
  BY <1>3, NextDigit
<1>6. PICK p \in Nat, e \in 0 .. Base - 1 :
        p = b \div Weight[j - 1] /\ e = Digit(b, j) /\ b \div Weight[j] = Base * p + e
  BY <1>3, NextDigit
<1>7. q = p /\ d = e
  BY <1>3, <1>4, <1>5, <1>6, Zenon
<1>8. a \div Weight[j] = b \div Weight[j]
  BY <1>5, <1>6, <1>7, Zenon
<1> QED BY <1>1, <1>8

-----------------------------------------------------------------------------
(* Texts. *)

\* Beyond the last digit of a fraction there are only zeros.
LEMMA LastDigitIs ==
  ASSUME NEW t \in Nat
  PROVE  /\ LastDigit(t) \in 0 .. Places
         /\ \A m \in LastDigit(t) + 1 .. Places : Digit(t, m) = 0
<1> DEFINE Zeros == {n \in 0 .. Places : \A m \in n + 1 .. Places : Digit(t, m) = 0}
           IsLast(n) == /\ n = 0 \/ Digit(t, n) # 0
                        /\ \A m \in n + 1 .. Places : Digit(t, m) = 0
<1>0. Places \in Nat
  BY HistoryAssumption
<1>1. Zeros \in SUBSET Nat /\ Places \in Zeros
  BY <1>0
<1>2. PICK n \in Zeros : \A m \in Zeros : n <= m
  <2> HIDE DEF Zeros
  <2> QED BY <1>1, LeastNumber
<1>3. ASSUME n # 0, Digit(t, n) = 0 PROVE FALSE
  <2>1. n - 1 \in 0 .. Places /\ ~ (n <= n - 1)
    BY <1>0, <1>3
  <2>2. \A m \in (n - 1) + 1 .. Places : m = n \/ m \in n + 1 .. Places
    BY <1>0
  <2>3. n - 1 \in Zeros
    BY <1>3, <2>1, <2>2
  <2> QED BY <1>2, <2>1, <2>3
<1>4. n \in 0 .. Places /\ IsLast(n)
  BY <1>3
<1>5. LastDigit(t) \in 0 .. Places /\ IsLast(LastDigit(t))
  BY <1>4 DEF LastDigit
<1> QED BY <1>5

\* The characters of a text, one by one.
LEMMA TextIs ==
  ASSUME NEW t \in Nat
  PROVE  LET d == LastDigit(t) IN
         /\ DOMAIN Text(t) = 1 .. (IF d = 0 THEN 2 ELSE d + 3)
         /\ Text(t)[1] = Second(t)
         /\ Text(t)[2] = IF d = 0 THEN Zed ELSE Point
         /\ \A m \in 1 .. d : Text(t)[m + 2] = Digit(t, m)
         /\ d # 0 => Text(t)[d + 3] = Zed
<1> DEFINE d == LastDigit(t)
           digits == [n \in 1 .. d |-> Digit(t, n)]
<1>1. d \in Nat /\ d <= Places
  <2>1. LastDigit(t) \in 0 .. Places /\ Places \in Nat
    BY LastDigitIs, HistoryAssumption
  <2> QED BY <2>1
<1>2. CASE d = 0
  BY <1>2 DEF Text
<1>3. CASE d # 0
  <2>1. Text(t) = <<Second(t), Point>> \o digits \o <<Zed>>
    BY <1>3 DEF Text
  <2>2. \A n \in 1 .. d : Digit(t, n) \in Nat
    <3> TAKE n \in 1 .. d
    <3>1. n \in 1 .. Places
      BY <1>1, HistoryAssumption
    <3>2. \E e \in 0 .. Base - 1 : e = Digit(t, n)
      BY <3>1, NextDigit
    <3> QED BY <3>2, HistoryAssumption
  <2>3. Second(t) \in Nat /\ Point \in Int /\ Zed \in Int
    <3>1. \E q \in Nat : q = t \div Weight[0]
      BY Weights, Fits
    <3> QED BY <3>1, HistoryAssumption DEF Second, Point, Zed
  <2> DEFINE head == <<Second(t), Point>>
             tail == <<Zed>>
  <2>4. head \in Seq(Int) /\ Len(head) = 2 /\ head[1] = Second(t) /\ head[2] = Point
    BY <2>3
  <2>5. digits \in Seq(Int) /\ Len(digits) = d /\ \A n \in 1 .. d : digits[n] = Digit(t, n)
    BY <1>1, <2>2
  <2>6. tail \in Seq(Int) /\ Len(tail) = 1 /\ tail[1] = Zed
    BY <2>3
  <2> HIDE DEF head, digits, tail
  <2> DEFINE text == head \o digits
  <2>7. /\ text \in Seq(Int) /\ Len(text) = d + 2
        /\ \A n \in 1 .. d + 2 : text[n] = IF n <= 2 THEN head[n] ELSE digits[n - 2]
    <3>1. Len(head) + Len(digits) = d + 2
      BY <1>1, <2>4, <2>5
    <3> HIDE DEF d
    <3>2. /\ text \in Seq(Int) /\ Len(text) = Len(head) + Len(digits)
          /\ \A n \in 1 .. Len(head) + Len(digits) :
               text[n] = IF n <= Len(head) THEN head[n] ELSE digits[n - Len(head)]
      BY <2>4, <2>5, ConcatProperties
    <3> HIDE DEF text
    <3> QED BY <2>4, <3>1, <3>2
  <2> HIDE DEF text
  <2>8. text[1] = Second(t) /\ text[2] = Point /\ \A n \in 1 .. d : text[n + 2] = Digit(t, n)
    <3> HIDE DEF d
    <3>1. 1 \in 1 .. d + 2 /\ 2 \in 1 .. d + 2
      BY <1>1
    <3>2. ASSUME NEW n \in 1 .. d PROVE text[n + 2] = digits[n]
      <4>1. n + 2 \in 1 .. d + 2 /\ ~ (n + 2 <= 2) /\ (n + 2) - 2 = n
        BY <1>1
      <4> QED BY <2>7, <4>1
    <3> QED BY <2>4, <2>5, <2>7, <3>1, <3>2
  <2>9. /\ text \o tail \in Seq(Int) /\ Len(text \o tail) = d + 3
        /\ \A n \in 1 .. d + 2 : (text \o tail)[n] = text[n]
        /\ (text \o tail)[d + 3] = Zed
    <3> HIDE DEF d
    <3>1. Len(text) + Len(tail) = d + 3
      BY <1>1, <2>6, <2>7
    <3>2. /\ text \o tail \in Seq(Int) /\ Len(text \o tail) = d + 3
          /\ \A n \in 1 .. d + 3 :
               (text \o tail)[n] = IF n <= d + 2 THEN text[n] ELSE tail[n - (d + 2)]
      <4> DEFINE all == text \o tail
      <4>1. /\ all \in Seq(Int) /\ Len(all) = Len(text) + Len(tail)
            /\ \A n \in 1 .. Len(text) + Len(tail) :
                 all[n] = IF n <= Len(text) THEN text[n] ELSE tail[n - Len(text)]
        BY <2>6, <2>7, ConcatProperties
      <4> HIDE DEF all
      <4>2. Len(text) = d + 2
        BY <2>7
      <4>3. /\ all \in Seq(Int) /\ Len(all) = d + 3
            /\ \A n \in 1 .. d + 3 :
                 all[n] = IF n <= d + 2 THEN text[n] ELSE tail[n - (d + 2)]
        BY <3>1, <4>1, <4>2
      <4> QED BY <4>3 DEF all
    <3>3. \A n \in 1 .. d + 2 : n \in 1 .. d + 3 /\ n <= d + 2
      BY <1>1
    <3>4. d + 3 \in 1 .. d + 3 /\ ~ (d + 3 <= d + 2) /\ (d + 3) - (d + 2) = 1
      BY <1>1
    <3> QED BY <2>6, <3>2, <3>3, <3>4
  <2>10. Text(t) = text \o tail
    BY <2>1 DEF text, head, tail
  <2>11. DOMAIN Text(t) = 1 .. d + 3
    BY <2>9, <2>10
  <2>12. \A n \in 1 .. d : n + 2 \in 1 .. d + 2
    BY <1>1
  <2>13. /\ Text(t)[1] = Second(t) /\ Text(t)[2] = Point /\ Text(t)[d + 3] = Zed
         /\ \A n \in 1 .. d : Text(t)[n + 2] = Digit(t, n)
    <3> HIDE DEF d
    <3>1. 1 \in 1 .. d + 2 /\ 2 \in 1 .. d + 2
      BY <1>1
    <3> DEFINE all == text \o tail
    <3>2. /\ \A n \in 1 .. d + 2 : all[n] = text[n]
          /\ all[d + 3] = Zed /\ Text(t) = all
      BY <2>9, <2>10
    <3> HIDE DEF all
    <3> QED BY <2>8, <2>12, <3>1, <3>2
  <2> QED BY <1>3, <2>11, <2>13 DEF d
<1> QED BY <1>2, <1>3

\* The order of the texts is the order of the instants, but within a second when
\* the numbers of digits differ (formatTime).
LEMMA TextOrder ==
  ASSUME NEW a \in Nat, NEW b \in Nat, TextLess(Text(b), Text(a)) \/ Text(b) = Text(a)
  PROVE  NotNewer(b, a)
<1> DEFINE d == LastDigit(a)
<1>0. /\ Places \in Nat /\ d \in 0 .. Places /\ LastDigit(b) \in 0 .. Places
      /\ Point \in Int /\ Zed \in Int
  <2>1. d \in 0 .. Places /\ LastDigit(b) \in 0 .. Places
    BY LastDigitIs
  <2> HIDE DEF d
  <2> QED BY <2>1, HistoryAssumption DEF Point, Zed
<1>1. /\ DOMAIN Text(a) = 1 .. (IF d = 0 THEN 2 ELSE d + 3)
      /\ Text(a)[1] = Second(a)
      /\ Text(a)[2] = IF d = 0 THEN Zed ELSE Point
      /\ \A m \in 1 .. d : Text(a)[m + 2] = Digit(a, m)
      /\ d # 0 => Text(a)[d + 3] = Zed
  BY TextIs
<1>2. Second(b) = Second(a) /\ LastDigit(b) = d =>
        /\ DOMAIN Text(b) = 1 .. (IF d = 0 THEN 2 ELSE d + 3)
        /\ Text(b)[1] = Second(b)
        /\ Text(b)[2] = IF d = 0 THEN Zed ELSE Point
        /\ \A m \in 1 .. d : Text(b)[m + 2] = Digit(b, m)
        /\ d # 0 => Text(b)[d + 3] = Zed
  BY TextIs
<1>3. Text(b)[1] = Second(b) /\ 1 \in DOMAIN Text(b) /\ 1 \in DOMAIN Text(a)
  <2>1. DOMAIN Text(b) = 1 .. (IF LastDigit(b) = 0 THEN 2 ELSE LastDigit(b) + 3) /\ Text(b)[1] = Second(b)
    BY TextIs
  <2> QED BY <1>0, <1>1, <2>1
<1>4. Second(a) \in Nat /\ Second(b) \in Nat
  <2>1. \A t \in Nat : \E q \in Nat : q = t \div Weight[0]
    BY Weights, Fits
  <2> QED BY <2>1 DEF Second
<1> HIDE DEF d
<1>5. CASE Text(b) = Text(a)
  <2>1. Second(b) = Second(a)
    BY <1>1, <1>3, <1>5
  <2>2. CASE LastDigit(b) # d
    BY <2>1, <2>2 DEF NotNewer, d
  <2>3. CASE LastDigit(b) = d
    <3>1. \A m \in 1 .. d : Digit(b, m) = Digit(a, m)
      BY <1>1, <1>2, <1>5, <2>1, <2>3
    <3>2. \A m \in d + 1 .. Places : Digit(a, m) = 0 /\ Digit(b, m) = 0
      BY <2>3, LastDigitIs DEF d
    <3>3. \A m \in 1 .. Places : m \in 1 .. d \/ m \in d + 1 .. Places
      BY <1>0
    <3>4. \A m \in 1 .. Places : Digit(b, m) = Digit(a, m)
      BY <3>1, <3>2, <3>3
    <3>5. a \div Weight[Places] = b \div Weight[Places]
      BY <2>1, <3>4, SamePrefix, Weights
    <3>6. \A t \in Nat : t \div 1 = t
      OBVIOUS
    <3>7. a = b
      BY <3>5, <3>6, Weights
    <3> QED BY <3>7 DEF NotNewer
  <2> QED BY <2>2, <2>3
<1>6. CASE TextLess(Text(b), Text(a))
  <2>1. PICK n \in DOMAIN Text(b) \cap DOMAIN Text(a) :
          /\ Text(b)[n] < Text(a)[n]
          /\ \A m \in 1 .. n - 1 : Text(b)[m] = Text(a)[m]
    BY <1>6 DEF TextLess
  <2>2. n \in Nat \ {0}
    BY <1>0, <1>1, <2>1
  <2>3. CASE n = 1
    <3>1. b \div Weight[0] < a \div Weight[0]
      BY <1>1, <1>3, <2>1, <2>3 DEF Second
    <3>2. b < a
      BY <3>1, LessDiv, Weights
    <3> QED BY <3>2 DEF NotNewer
  <2>4. CASE n # 1
    <3>1. Second(b) = Second(a)
      <4>1. 1 \in 1 .. n - 1
        BY <2>2, <2>4
      <4> QED BY <1>1, <1>3, <2>1, <4>1
    <3>2. CASE LastDigit(b) # d
      BY <3>1, <3>2 DEF NotNewer, d
    <3>3. CASE LastDigit(b) = d
      <4>1. n # 2 /\ (d # 0 => n # d + 3)
        BY <1>0, <1>1, <1>2, <2>1, <3>1, <3>3
      <4>2. n - 2 \in 1 .. d /\ (n - 2) + 2 = n /\ n - 2 \in 1 .. Places
        BY <1>0, <1>1, <2>1, <2>2, <2>4, <4>1
      <4> DEFINE k == n - 2
      <4>3. Digit(b, k) < Digit(a, k)
        BY <1>1, <1>2, <2>1, <3>1, <3>3, <4>2
      <4>4. ASSUME NEW m \in 1 .. k - 1 PROVE Digit(a, m) = Digit(b, m)
        <5>1. m + 2 \in 1 .. n - 1 /\ m \in 1 .. d
          BY <1>0, <2>2, <4>2
        <5> QED BY <1>1, <1>2, <2>1, <3>1, <3>3, <5>1
      <4> HIDE DEF k
      <4>5. k \in 1 .. Places /\ k - 1 \in 0 .. Places /\ k \in Nat
        BY <1>0, <4>2 DEF k
      <4>6. a \div Weight[k - 1] = b \div Weight[k - 1]
        BY <3>1, <4>4, <4>5, SamePrefix
      <4>7. PICK q \in Nat, e \in 0 .. Base - 1 :
              q = a \div Weight[k - 1] /\ e = Digit(a, k) /\ a \div Weight[k] = Base * q + e
        BY <4>5, NextDigit
      <4>8. PICK p \in Nat, f \in 0 .. Base - 1 :
              p = b \div Weight[k - 1] /\ f = Digit(b, k) /\ b \div Weight[k] = Base * p + f
        BY <4>5, NextDigit
      <4>9. p = q /\ f < e
        BY <4>3, <4>6, <4>7, <4>8
      <4>10. b \div Weight[k] < a \div Weight[k]
        <5> DEFINE bq == Base * q
        <5>1. bq \in Nat
          BY HistoryAssumption
        <5>2. a \div Weight[k] = bq + e /\ b \div Weight[k] = bq + f
          BY <4>7, <4>8, <4>9, Zenon
        <5> HIDE DEF bq
        <5> QED BY <4>9, <5>1, <5>2
      <4>11. b < a
        BY <4>5, <4>10, LessDiv, Weights
      <4> QED BY <4>11 DEF NotNewer
    <3> QED BY <3>2, <3>3
  <2> QED BY <2>3, <2>4
<1> QED BY <1>5, <1>6

-----------------------------------------------------------------------------
(* Listings. *)

LEMMA HistoryInit == Init => HistoryInv
<1> SUFFICES ASSUME Init PROVE HistoryInv
  OBVIOUS
<1>1. HistoryTypeOK
  BY DEF Init, HistoryTypeOK
<1>2. DOMAIN listed = {} /\ recorded = {} /\ recordedThen = {}
  BY DEF Init
<1> QED BY <1>1, <1>2 DEF HistoryInv, NewestFirst, CutIsOlder

\* Who stands below in the sorted rows is not newer.
LEMMA BelowIsNotNewer ==
  ASSUME HistoryTypeOK, NEW a \in Rows, NEW b \in Rows, Above(a, b)
  PROVE  NotNewer(row[b], row[a])
<1>1. row[a] \in Nat /\ row[b] \in Nat
  BY DEF HistoryTypeOK, Rows
<1> QED BY <1>1, TextOrder DEF Above

LEMMA RowsAreFinite == IsFiniteSet(Rows) /\ Cardinality(Rows) \in Nat
<1>1. IsFiniteSet(Ids)
  <2>1. \A h \in Handlers : Id[h] \in Ids
    BY DEF Ids
  <2>2. Id \in Surjection(Handlers, Ids)
    BY <2>1, HistoryAssumption DEF Ids, Surjection
  <2> QED BY <2>2, FS_Surjection, HistoryAssumption
<1>2. Rows \subseteq Ids
  BY DEF Rows
<1> QED BY <1>1, <1>2, FS_Subset, FS_CardinalityType

\* The statement that lists sorts and cuts the rows of one moment (Store.List).
LEMMA ListKeeps == ASSUME HistoryInv, NEW asked \in Limits, List(asked) PROVE HistoryInv'
<1>1. /\ limit' = IF asked <= 0 THEN Default ELSE asked
      /\ rowThen' = row /\ recordedThen' = recorded
      /\ UNCHANGED <<now, stamp, recorded, row>>
  BY DEF List
<1>2. HistoryTypeOK'
  BY <1>1 DEF HistoryInv, HistoryTypeOK
<1>3. limit' \in Nat \ {0}
  <2>1. asked \in Int /\ Default \in Nat \ {0}
    BY HistoryAssumption
  <2> QED BY <1>1, <2>1
<1> DEFINE n == Cardinality(Rows)
           c == Cut(limit', Rows)
<1>4. n \in Nat /\ c \in 0 .. n /\ c \in Nat /\ (c < n => c = limit')
  BY <1>3, RowsAreFinite DEF Cut
<1>5. PICK all \in Sorted(Rows) : listed' = [i \in 1 .. c |-> all[i]]
  BY DEF List
<1>6. /\ all \in [1 .. n -> Rows] /\ \A id \in Rows : \E k \in 1 .. n : all[k] = id
      /\ \A i, j \in 1 .. n : i < j => Above(all[i], all[j])
  BY <1>5 DEF Sorted, Bijection, Injection, Surjection
<1> HIDE DEF n, c
<1>7. DOMAIN listed' = 1 .. c /\ \A i \in 1 .. c : listed'[i] = all[i] /\ i \in 1 .. n
  BY <1>4, <1>5
<1>8. NewestFirst'
  <2> SUFFICES ASSUME NEW i \in 1 .. c, NEW j \in 1 .. c, i < j
               PROVE  NotNewer(row[all[j]], row[all[i]])
    BY <1>1, <1>7 DEF NewestFirst, NotNewer
  <2> QED BY <1>6, <1>7, BelowIsNotNewer DEF HistoryInv
<1>9. CutIsOlder'
  <2> SUFFICES ASSUME NEW h \in recorded, Id[h] \notin Range(listed')
               PROVE  /\ Len(listed') = limit'
                      /\ \A i \in 1 .. c : NotNewer(row[Id[h]], row[all[i]])
    BY <1>1, <1>7 DEF CutIsOlder, NotNewer
  <2>1. Id[h] \in Rows
    BY DEF HistoryInv, HistoryTypeOK, Rows, Ids
  <2>2. PICK k \in 1 .. n : all[k] = Id[h]
    BY <1>6, <2>1
  <2>3. k \notin 1 .. c
    BY <1>7, <2>2 DEF Range
  <2>4. c < k /\ c < n
    BY <1>4, <2>3
  <2>5. listed' \in Seq(Rows) /\ Len(listed') = c
    BY <1>4, <1>5, <1>6, <1>7
  <2>6. \A i \in 1 .. c : i < k
    BY <1>4, <2>4
  <2>7. \A i \in 1 .. c : Above(all[i], all[k]) /\ all[i] \in Rows
    BY <1>6, <1>7, <2>6
  <2>8. \A i \in 1 .. c : NotNewer(row[all[k]], row[all[i]])
    BY <2>1, <2>2, <2>7, BelowIsNotNewer DEF HistoryInv
  <2> QED BY <1>4, <2>2, <2>4, <2>5, <2>8
<1>10. \A h \in recorded' : row'[Id[h]] # None
  BY <1>1 DEF HistoryInv
<1> QED BY <1>2, <1>8, <1>9, <1>10 DEF HistoryInv

\* Time passes, and rows come and are replaced (Record); a listing stays.
LEMMA OthersKeep ==
  ASSUME HistoryInv, Tick \/ (\E h \in Handlers : NewReceivedEvent(h) \/ Record(h)) \/ UNCHANGED vars
  PROVE  HistoryInv'
<1>1. UNCHANGED listing
  BY DEF Tick, NewReceivedEvent, Record, vars
<1>2. NewestFirst' /\ CutIsOlder'
  BY <1>1 DEF HistoryInv, NewestFirst, CutIsOlder, NotNewer, listing
<1>3. HistoryTypeOK' /\ \A h \in recorded' : row'[Id[h]] # None
  <2>1. CASE Tick \/ UNCHANGED vars
    BY <2>1 DEF Tick, vars, HistoryInv, HistoryTypeOK
  <2>2. ASSUME NEW h \in Handlers, NewReceivedEvent(h)
        PROVE  HistoryTypeOK' /\ \A g \in recorded' : row'[Id[g]] # None
    BY <2>2 DEF NewReceivedEvent, HistoryInv, HistoryTypeOK
  <2>3. ASSUME NEW h \in Handlers, Record(h)
        PROVE  HistoryTypeOK' /\ \A g \in recorded' : row'[Id[g]] # None
    <3>1. stamp[h] \in Nat /\ stamp[h] # None /\ Id[h] \in Ids
          /\ row' = [row EXCEPT ![Id[h]] = stamp[h]] /\ recorded' = recorded \cup {h}
          /\ UNCHANGED <<now, stamp>>
      BY <2>3, HistoryAssumption DEF Record, HistoryInv, HistoryTypeOK, Ids
    <3>2. \A g \in Handlers : Id[g] \in Ids
      BY DEF Ids
    <3> QED BY <3>1, <3>2 DEF HistoryInv, HistoryTypeOK
  <2> QED BY <2>1, <2>2, <2>3
<1> QED BY <1>2, <1>3 DEF HistoryInv

\* The invariant holds of every history.
THEOREM HistoryInvariance == Spec => []HistoryInv
<1>1. HistoryInv /\ [Next]_vars => HistoryInv'
  BY ListKeeps, OthersKeep DEF Next
<1> QED BY <1>1, HistoryInit, PTL DEF Spec

\* A listing shows the newest first, down to the second (Store.List).
THEOREM ListingsAreOrdered == Spec => []NewestFirst
<1>1. HistoryInv => NewestFirst
  BY DEF HistoryInv
<1> QED BY <1>1, HistoryInvariance, PTL

\* Its limit cuts off nothing newer than what it shows, down to the second
\* (Store.List).
THEOREM CutOffIsOlder == Spec => []CutIsOlder
<1>1. HistoryInv => CutIsOlder
  BY DEF HistoryInv
<1> QED BY <1>1, HistoryInvariance, PTL
=============================================================================
