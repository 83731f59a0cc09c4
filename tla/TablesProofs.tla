---------------------------- MODULE TablesProofs ------------------------------
(***************************************************************************)
(* What the generated tables of video formats and of display monitor       *)
(* timings say agrees with the formulas and with the codes that name their *)
(* rows.                                                                   *)
(***************************************************************************)
EXTENDS DecodersProofs

-----------------------------------------------------------------------------
(* Division of a product that is never computed.                           *)
(* A number and its quotient and rest.                                     *)
LEMMA QuotientRest ==
  ASSUME NEW n \in Nat, NEW d \in Nat, d > 0
  PROVE  n \div d \in Nat /\ n % d \in 0..(d - 1) /\ n = (n \div d) * d + (n % d)
OBVIOUS

(* There is no other quotient and rest.                                    *)
LEMMA QuotientUnique ==
  ASSUME NEW n \in Nat, NEW d \in Nat, d > 0, NEW q \in Int, NEW r \in 0..(d - 1), n = q * d + r
  PROVE  n \div d = q /\ n % d = r
<1> DEFINE p == n \div d
           s == n % d
<1>1. p \in Nat /\ s \in 0..(d - 1) /\ n = p * d + s BY QuotientRest
<1> HIDE DEF p, s
<1>2. (p - q) * d = r - s
  <2>1. \A a, b, c \in Int : (a - b) * c = a * c - b * c OBVIOUS
  <2> QED BY <1>1, <2>1
<1>3. p - q = 0
  <2>1. CASE p - q >= 1
    <3>1. \A a \in Int, c \in Nat : a >= 1 => a * c >= c OBVIOUS
    <3> QED BY <1>1, <1>2, <2>1, <3>1
  <2>2. CASE p - q <= -1
    <3>1. \A a \in Int, c \in Nat : a <= -1 => a * c <= -c OBVIOUS
    <3> QED BY <1>1, <1>2, <2>2, <3>1
  <2> QED BY <1>1, <2>1, <2>2
<1>4. p = q BY <1>1, <1>3
<1>5. s = r BY <1>1, <1>4
<1> QED BY <1>4, <1>5 DEF p, s

(* A step of a long division by hand: twice a number and some more.        *)
LEMMA LongDivision ==
  ASSUME NEW x \in Nat, NEW c \in Nat, NEW d \in Nat, d > 0
  PROVE  LET r == 2 * (x % d) + c
         IN  /\ (2 * x + c) \div d = 2 * (x \div d) + (r \div d)
             /\ (2 * x + c) % d = r % d
<1> DEFINE p == x \div d
           s == x % d
           r == 2 * s + c
           q == r \div d
           t == r % d
<1>1. p \in Nat /\ s \in 0..(d - 1) /\ x = p * d + s BY QuotientRest
<1> HIDE DEF p, s
<1>2. r \in Nat BY <1>1
<1> HIDE DEF r
<1>3. q \in Nat /\ t \in 0..(d - 1) /\ r = q * d + t BY <1>2, QuotientRest
<1> HIDE DEF q, t
<1>4. 2 * x + c = (2 * p + q) * d + t
  <2>1. \A a, b, e \in Nat : (2 * a + b) * e = 2 * (a * e) + b * e OBVIOUS
  <2>2. p * d \in Nat /\ q * d \in Nat BY <1>1, <1>3
  <2>3. (2 * p + q) * d = 2 * (p * d) + q * d BY <1>1, <1>3, <2>1
  <2>4. r = 2 * s + c BY DEF r
  <2> QED BY <1>1, <1>3, <2>2, <2>3, <2>4
<1>5. 2 * x + c \in Nat /\ 2 * p + q \in Int BY <1>1, <1>3
<1>6. (2 * x + c) \div d = 2 * p + q /\ (2 * x + c) % d = t BY <1>3, <1>4, <1>5, QuotientUnique
<1> QED BY <1>6 DEF p, s, r, q, t

(* The powers of two that pick the 20 bits.                                *)
LEMMA Powers ==
  ASSUME NEW m \in 0..19
  PROVE  2^m \in Nat /\ 2^m > 0 /\ 2^(m + 1) = 2 * 2^m
<1>0. CASE m = 0 BY <1>0
<1>1. CASE m = 1 BY <1>1
<1>2. CASE m = 2 BY <1>2
<1>3. CASE m = 3 BY <1>3
<1>4. CASE m = 4 BY <1>4
<1>5. CASE m = 5 BY <1>5
<1>6. CASE m = 6 BY <1>6
<1>7. CASE m = 7 BY <1>7
<1>8. CASE m = 8 BY <1>8
<1>9. CASE m = 9 BY <1>9
<1>10. CASE m = 10 BY <1>10
<1>11. CASE m = 11 BY <1>11
<1>12. CASE m = 12 BY <1>12
<1>13. CASE m = 13 BY <1>13
<1>14. CASE m = 14 BY <1>14
<1>15. CASE m = 15 BY <1>15
<1>16. CASE m = 16 BY <1>16
<1>17. CASE m = 17 BY <1>17
<1>18. CASE m = 18 BY <1>18
<1>19. CASE m = 19 BY <1>19
<1> QED BY <1>0, <1>1, <1>2, <1>3, <1>4, <1>5, <1>6, <1>7, <1>8, <1>9, <1>10, <1>11, <1>12,
           <1>13, <1>14, <1>15, <1>16, <1>17, <1>18, <1>19

(* The bits above one, and those from it on.                               *)
LEMMA TopBits ==
  ASSUME NEW a \in Nat, NEW n \in 1..20
  PROVE  /\ a \div 2^(20 - (n - 1)) \in Nat
         /\ a \div 2^(20 - n) = 2 * (a \div 2^(20 - (n - 1))) + (IF has_bit(a, 20 - n) THEN 1 ELSE 0)
<1> DEFINE m == 20 - n
           w == 2^m
           t == a \div w
<1>1. m \in 0..19 /\ 20 - (n - 1) = m + 1 OBVIOUS
<1>2. w \in Nat /\ w > 0 /\ 2^(20 - (n - 1)) = 2 * w BY <1>1, Powers
<1>3. has_bit(a, 20 - n) <=> t % 2 = 1 BY DEF has_bit
<1> HIDE DEF w
<1>4. t \in Nat /\ a % w \in 0..(w - 1) /\ a = t * w + (a % w) BY <1>2, QuotientRest
<1> HIDE DEF t
<1>5. t \div 2 \in Nat /\ t % 2 \in 0..1 /\ t = (t \div 2) * 2 + (t % 2) BY <1>4
<1>6. a \div (2 * w) = t \div 2
  <2> DEFINE h == t \div 2
             b == t % 2
             s == a % w
  <2>1. h \in Nat /\ b \in 0..1 /\ t = 2 * h + b /\ s \in 0..(w - 1) /\ a = t * w + s BY <1>4, <1>5
  <2> HIDE DEF h, b, s
  <2>2. \A x, y, z \in Nat : (2 * x + y) * z = x * (2 * z) + y * z OBVIOUS
  <2>3. a = h * (2 * w) + (b * w + s) BY <1>2, <2>1, <2>2
  <2>4. b * w + s \in 0..(2 * w - 1)
    <3>1. CASE b = 0 BY <1>2, <2>1, <3>1
    <3>2. CASE b = 1 BY <1>2, <2>1, <3>2
    <3> QED BY <2>1, <3>1, <3>2
  <2>5. 2 * w \in Nat /\ 2 * w > 0 /\ h \in Int BY <1>2, <2>1
  <2>6. a \div (2 * w) = h BY <2>3, <2>4, <2>5, QuotientUnique
  <2> QED BY <2>6 DEF h
<1>7. a \div 2^(20 - n) = t BY DEF t, w
<1> HIDE DEF m
<1>8. a \div 2^(20 - (n - 1)) = t \div 2 BY <1>2, <1>6
<1>9. t % 2 = IF has_bit(a, 20 - n) THEN 1 ELSE 0 BY <1>3, <1>5
<1> QED BY <1>5, <1>7, <1>8, <1>9

(* The product is divided exactly, although it is never computed.          *)
LEMMA MulDivExact ==
  ASSUME NEW a \in Nat, a < 1024 * 1024, NEW b \in Nat, NEW d \in Nat, d > 0
  PROVE  MulDiv(a, b, d) = (a * b) \div d
<1> DEFINE bits == 20
           Divide(p, n) == LET r == 2 * p[2] + (IF has_bit(a, bits - n) THEN b ELSE 0)
                         IN  <<2 * p[1] + r \div d, r % d>>
           Body(f) == [n \in 0..20 |-> IF n = 0 THEN <<0, 0>> ELSE Divide(f[n - 1], n)]
           top(n) == a \div 2^(20 - n)
           G == [n \in 0..20 |-> <<(top(n) * b) \div d, (top(n) * b) % d>>]
           F == CHOOSE f : f = Body(f)
<1>1. top(0) = 0 /\ top(20) = a
  <2>1. 20 - 0 = 20 /\ 20 - 20 = 0 /\ 2^0 = 1 OBVIOUS
  <2>2. a \div 2^20 = 0 /\ a \div 1 = a BY SMT
  <2> QED BY <2>1, <2>2
<1>2. ASSUME NEW n \in 1..20 PROVE G[n] = Divide(G[n - 1], n)
  <2> DEFINE x == top(n - 1) * b
             c == IF has_bit(a, 20 - n) THEN b ELSE 0
  <2>1. top(n - 1) \in Nat /\ top(n) = 2 * top(n - 1) + (IF has_bit(a, 20 - n) THEN 1 ELSE 0)
    BY TopBits
  <2>2. G[n] = <<(top(n) * b) \div d, (top(n) * b) % d>> OBVIOUS
  <2>3. G[n - 1] = <<x \div d, x % d>> OBVIOUS
  <2>4. x \in Nat /\ c \in Nat /\ top(n) * b = 2 * x + c
    <3> HIDE DEF top
    <3>1. \A y, z \in Nat : y * z \in Nat /\ (2 * y) * z = 2 * (y * z)
                            /\ (2 * y + 1) * z = 2 * (y * z) + z OBVIOUS
    <3> QED BY <2>1, <3>1
  <2>5. LET r == 2 * (x % d) + c
        IN  /\ (2 * x + c) \div d = 2 * (x \div d) + (r \div d)
            /\ (2 * x + c) % d = r % d
    <3> HIDE DEF x, c
    <3> QED BY <2>4, LongDivision
  <2>6. Divide(G[n - 1], n) = <<2 * (x \div d) + ((2 * (x % d) + c) \div d), (2 * (x % d) + c) % d>>
    <3> HIDE DEF G, x
    <3> QED BY <2>3
  <2> HIDE DEF G, Divide, x, c, top
  <2> QED BY <2>2, <2>4, <2>5, <2>6
<1>3. G[0] = <<0, 0>>
  <2>1. G[0] = <<(top(0) * b) \div d, (top(0) * b) % d>> OBVIOUS
  <2>2. 0 * b = 0 /\ 0 \div d = 0 /\ 0 % d = 0 OBVIOUS
  <2> HIDE DEF G, top
  <2> QED BY <1>1, <2>1, <2>2
<1>4. G[20] = <<(a * b) \div d, (a * b) % d>>
  <2>1. G[20] = <<(top(20) * b) \div d, (top(20) * b) % d>> OBVIOUS
  <2> HIDE DEF G, top
  <2> QED BY <1>1, <2>1
<1>5. G = Body(G)
  <2>1. \A n \in 0..20 : Body(G)[n] = IF n = 0 THEN <<0, 0>> ELSE Divide(G[n - 1], n)
    <3> HIDE DEF G, Divide
    <3> QED OBVIOUS
  <2>2. Body(G) = [n \in 0..20 |-> Body(G)[n]] OBVIOUS
  <2>3. G = [n \in 0..20 |-> G[n]] OBVIOUS
  <2> HIDE DEF G, Divide, Body
  <2>4. \A n \in 0..20 : G[n] = Body(G)[n]
    <3> SUFFICES ASSUME NEW n \in 0..20 PROVE G[n] = Body(G)[n] OBVIOUS
    <3>1. n = 0 \/ n \in 1..20 OBVIOUS
    <3> QED BY <1>2, <1>3, <2>1, <3>1
  <2> QED BY <2>2, <2>3, <2>4
<1>6. F = Body(F)
  <2> HIDE DEF Body, G
  <2>1. \E f : f = Body(f) BY <1>5
  <2> QED BY <2>1, Zenon
<1>7. MulDiv(a, b, d) = F[20][1] BY DEF MulDiv
<1> HIDE DEF F
<1>8. \A n \in 0..20 : F[n] = IF n = 0 THEN <<0, 0>> ELSE Divide(F[n - 1], n)
  <2>1. \A n \in 0..20 : F[n] = Body(F)[n] BY <1>6
  <2> HIDE DEF Divide
  <2> QED BY <2>1
<1> HIDE DEF G, Divide, Body
<1>9. F[20] = G[20]
  <2> DEFINE T == {n \in 0..20 : F[n] = G[n]}
  <2>1. 0 \in T BY <1>3, <1>8
  <2>2. ASSUME NEW n \in 1..20, n - 1 \in T PROVE n \in T BY <1>2, <1>8, <2>2
  <2>3. 0..20 \subseteq T
    <3> HIDE DEF T
    <3> QED BY <2>1, <2>2, UpTo
  <2> QED BY <2>3
<1> QED BY <1>4, <1>7, <1>9

-----------------------------------------------------------------------------
(* The formula of gtf.c.                                                   *)
(* What is rounded stays an integer, and does not change its sign.         *)
LEMMA RoundForm ==
  ASSUME NEW a \in Int, NEW b \in Nat, b > 0
  PROVE  Round(a, b) \in Int /\ (a >= 0 => Round(a, b) >= 0)
<1>1. \A n \in Nat : n \div b \in Nat /\ n % b \in Nat OBVIOUS
<1>2. CASE a >= 0 BY <1>1, <1>2 DEF Round
<1>3. CASE a < 0
  <2>1. -a \in Nat BY <1>3
  <2> QED BY <1>1, <1>3, <2>1 DEF Round
<1> QED BY <1>2, <1>3

(* Rounding a clock in Hz to kHz moves it by half a kHz at most.           *)
LEMMA RoundNear ==
  ASSUME NEW n \in Int
  PROVE  1000 * Round(n, 1000) \in (n - 500)..(n + 500)
<1>1. CASE n >= 0 BY <1>1 DEF Round
<1>2. CASE n < 0 BY <1>2 DEF Round
<1> QED BY <1>1, <1>2

(* A standard timing has a width, a height and a rate.                     *)
LEMMA VertVideo ==
  ASSUME NEW b0 \in Byte, NEW b1 \in Byte
  PROVE  LET t == StandardTiming(b0, b1)
         IN  /\ t.horiz_video \in Nat /\ t.refresh_rate_hz \in 60..123
             /\ get_vert_video(t) \in Nat
<1> DEFINE t == StandardTiming(b0, b1)
<1>1. t.horiz_video = (b0 + 31) * 8 /\ t.refresh_rate_hz = get_bit_range(b1, 5, 0) + 60
  BY DEF StandardTiming
<1>2. get_bit_range(b1, 5, 0) \in 0..63 BY DEF get_bit_range, Byte
<1>3. get_bit_range(b1, 7, 6) \in 0..3 BY DEF get_bit_range, Byte
<1>4. t.aspect_ratio = StandardAspects[1 + get_bit_range(b1, 7, 6)] BY DEF StandardTiming
<1>5. t.aspect_ratio \in {"16:10", "4:3", "5:4", "16:9"} BY <1>3, <1>4 DEF StandardAspects
<1>6. t.horiz_video \in Nat BY <1>1 DEF Byte
<1>7. /\ (t.horiz_video * 10) \div 16 \in Nat /\ (t.horiz_video * 3) \div 4 \in Nat
      /\ (t.horiz_video * 4) \div 5 \in Nat /\ (t.horiz_video * 9) \div 16 \in Nat BY <1>6
<1> HIDE DEF t
<1>8. get_vert_video(t) \in Nat BY <1>5, <1>7 DEF get_vert_video
<1> QED BY <1>1, <1>2, <1>6, <1>8 DEF t

(* The pixel clock of a timing makes for a rate, to half a kHz.            *)
Refreshes(t, hz) ==
  LET horiz_total == t.h_pixels + t.h_front_porch + t.h_sync + t.h_back_porch
      vert_total == t.v_lines + t.v_front_porch + t.v_sync + t.v_back_porch
      named == hz * horiz_total * vert_total
  IN  1000 * t.pixel_freq_khz \in (named - 500)..(named + 500)

(* A GTF timing refreshes at the rate it was asked for, to half a kHz of   *)
(* its pixel clock.                                                        *)
THEOREM GtfRate ==
  ASSUME NEW h \in Nat, NEW v \in Nat, NEW hz \in 1..1000
  PROVE  Refreshes(di_gtf_compute(h, v, hz), hz)
<1> DEFINE hp == 8 * Round(h, 8)
           bp == GtfVBack(v, hz)
           second == hz * (v + bp + 1)
           blank == Round(hp * (3 * second - 30000), 16 * (7 * second + 30000))
           clock == (hp + 16 * blank) * second
           t == GtfTiming(hp, 16 * blank, v, bp, Round(clock, 1000))
<1>1. di_gtf_compute(h, v, hz) = t BY DEF di_gtf_compute
<1>2. hp \in Int BY RoundForm
<1>3. bp \in Nat
  <2>1. 20000 - 11 * hz \in Nat /\ 20000 - 11 * hz > 0 OBVIOUS
  <2>2. 11 * hz * (v + 1) \in Int /\ 11 * hz * (v + 1) >= 0
    <3>1. 11 * hz \in Nat /\ v + 1 \in Nat OBVIOUS
    <3>2. \A x, y \in Nat : x * y \in Nat OBVIOUS
    <3> QED BY <3>1, <3>2
  <2> QED BY <2>1, <2>2, RoundForm DEF GtfVBack
<1> HIDE DEF hp, bp
<1>4. second \in Nat BY <1>3
<1> HIDE DEF second
<1>5. blank \in Int
  <2>1. 16 * (7 * second + 30000) \in Nat /\ 16 * (7 * second + 30000) > 0 BY <1>4
  <2>2. hp * (3 * second - 30000) \in Int BY <1>2, <1>4
  <2> QED BY <2>1, <2>2, RoundForm
<1> HIDE DEF blank
<1>6. clock \in Int BY <1>2, <1>4, <1>5
<1>7. 1000 * Round(clock, 1000) \in (clock - 500)..(clock + 500) BY <1>6, RoundNear
<1>8. /\ t.h_pixels = hp /\ t.v_lines = v /\ t.pixel_freq_khz = Round(clock, 1000)
      /\ t.v_sync = 3 /\ t.v_front_porch = 1 /\ t.v_back_porch = bp - 3
      /\ t.h_sync = 8 * Round(hp + 16 * blank, 100)
      /\ t.h_front_porch = (16 * blank) \div 2 - 8 * Round(hp + 16 * blank, 100)
      /\ t.h_back_porch = (16 * blank) \div 2
  BY DEF GtfTiming
<1> HIDE DEF t
<1>9. Round(hp + 16 * blank, 100) \in Int BY <1>2, <1>5, RoundForm
<1>10. (16 * blank) \div 2 = 8 * blank BY <1>5
<1>11. t.h_pixels + t.h_front_porch + t.h_sync + t.h_back_porch = hp + 16 * blank
  BY <1>2, <1>5, <1>8, <1>9, <1>10
<1>12. t.v_lines + t.v_front_porch + t.v_sync + t.v_back_porch = v + bp + 1 BY <1>3, <1>8
<1>13. hz * (hp + 16 * blank) * (v + bp + 1) = clock
  <2>1. hp + 16 * blank \in Int /\ v + bp + 1 \in Int BY <1>2, <1>3, <1>5
  <2>2. \A a, b, c \in Int : a * b * c = b * (a * c) OBVIOUS
  <2> QED BY <2>1, <2>2 DEF second
<1> QED BY <1>1, <1>7, <1>8, <1>11, <1>12, <1>13 DEF Refreshes

-----------------------------------------------------------------------------
(* The tables are long lists of rows, written as chunks that are appended. *)
Listing(s) == Len(s) \in Nat /\ s = [k \in 1..Len(s) |-> s[k]]
Chunk(s) == Listing(s) /\ NULL \notin Range(s)

(* Appending lists appends their rows.                                     *)
LEMMA Appended ==
  ASSUME NEW u, NEW v, Listing(u), Listing(v)
  PROVE  Listing(u \o v) /\ Range(u \o v) = Range(u) \cup Range(v)
<1> DEFINE A == Range(u) \cup Range(v)
<1>1. DOMAIN u = 1..Len(u) /\ DOMAIN v = 1..Len(v) BY DEF Listing
<1>2. u \in [1..Len(u) -> A] /\ v \in [1..Len(v) -> A] BY <1>1 DEF Range, Listing
<1>3. u \in Seq(A) /\ v \in Seq(A) BY <1>2 DEF Listing
<1> HIDE DEF A
<1>4. u \o v \in Seq(A) BY <1>3
<1>5. Joined(u \o v, u, v) BY <1>3, Concat
<1>6. Listing(u \o v)
  <2> DEFINE w == u \o v
  <2> HIDE DEF w
  <2>1. w \in Seq(A) BY <1>4 DEF w
  <2>2. Len(w) \in Nat /\ w \in [1..Len(w) -> A] BY <2>1
  <2>3. w = [k \in 1..Len(w) |-> w[k]] BY <2>2
  <2> QED BY <2>2, <2>3 DEF Listing, w
<1>7. Range(u) \subseteq Range(u \o v)
  <2> SUFFICES ASSUME NEW j \in 1..Len(u) PROVE u[j] \in Range(u \o v) BY <1>1 DEF Range
  <2>1. j \in 1..Len(u \o v) /\ (u \o v)[j] = u[j] BY <1>5 DEF Joined
  <2>2. DOMAIN (u \o v) = 1..Len(u \o v) BY <1>6 DEF Listing
  <2> QED BY <2>1, <2>2 DEF Range
<1>8. Range(v) \subseteq Range(u \o v)
  <2> SUFFICES ASSUME NEW k \in 1..Len(v) PROVE v[k] \in Range(u \o v) BY <1>1 DEF Range
  <2>1. Len(u) + k \in 1..Len(u \o v) /\ (u \o v)[Len(u) + k] = v[k] BY <1>5 DEF Joined
  <2>2. DOMAIN (u \o v) = 1..Len(u \o v) BY <1>6 DEF Listing
  <2> QED BY <2>1, <2>2 DEF Range
<1>9. Range(u \o v) \subseteq Range(u) \cup Range(v)
  <2> SUFFICES ASSUME NEW j \in 1..Len(u \o v) PROVE (u \o v)[j] \in Range(u) \cup Range(v)
    BY <1>6 DEF Range, Listing
  <2>1. CASE j \in 1..Len(u) BY <2>1, <1>1, <1>5 DEF Joined, Range
  <2>2. CASE j \notin 1..Len(u)
    <3>1. j - Len(u) \in 1..Len(v) BY <2>2, <1>5 DEF Joined
    <3>2. (u \o v)[Len(u) + (j - Len(u))] = v[j - Len(u)] BY <3>1, <1>5 DEF Joined
    <3>3. Len(u) + (j - Len(u)) = j BY <1>5 DEF Joined
    <3> QED BY <3>1, <3>2, <3>3, <1>1 DEF Range
  <2> QED BY <2>1, <2>2
<1> QED BY <1>6, <1>7, <1>8, <1>9

-----------------------------------------------------------------------------
(* The codes of the video formats, chunk by chunk.                         *)
Vics(s) == {r.vic : r \in Range(s)}

(* The rows from 60 on.                                                     *)
LEMMA Vic60Rows == Chunk(Vic60) /\ Vics(Vic60) = {60, 65, 61, 66, 62, 67, 108, 109, 32}
BY DEF Vic60, Vic, Vics, Chunk, Listing, Range, NULL

(* The rows from 72 on.                                                     *)
LEMMA Vic72Rows == Chunk(Vic72) /\ Vics(Vic72) = {72, 33, 73, 34, 74, 111, 112, 79, 80}
BY DEF Vic72, Vic, Vics, Chunk, Listing, Range, NULL

(* The rows from 81 on.                                                     *)
LEMMA Vic81Rows == Chunk(Vic81) /\ Vics(Vic81) = {81, 110, 86, 87, 88, 113, 93, 103, 94}
BY DEF Vic81, Vic, Vics, Chunk, Listing, Range, NULL

(* The rows from 104 on.                                                    *)
LEMMA Vic104Rows == Chunk(Vic104) /\ Vics(Vic104) = {104, 95, 105, 114, 116, 98, 99, 100, 115}
BY DEF Vic104, Vic, Vics, Chunk, Listing, Range, NULL

(* The rows from 121 on.                                                    *)
LEMMA Vic121Rows == Chunk(Vic121) /\ Vics(Vic121) = {121, 122, 123, 124, 194, 202, 195, 203, 196}
BY DEF Vic121, Vic, Vics, Chunk, Listing, Range, NULL

(* The rows from 204 on.                                                    *)
LEMMA Vic204Rows == Chunk(Vic204) /\ Vics(Vic204) = {204, 197, 205, 210, 211, 212, 213, 17, 18}
BY DEF Vic204, Vic, Vics, Chunk, Listing, Range, NULL

(* The rows from 19 on.                                                     *)
LEMMA Vic19Rows == Chunk(Vic19) /\ Vics(Vic19) = {19, 68, 20, 21, 22, 23, 24, 25, 26}
BY DEF Vic19, Vic, Vics, Chunk, Listing, Range, NULL

(* The rows from 27 on.                                                     *)
LEMMA Vic27Rows == Chunk(Vic27) /\ Vics(Vic27) = {27, 28, 29, 30, 31, 75, 37, 38, 39}
BY DEF Vic27, Vic, Vics, Chunk, Listing, Range, NULL

(* The rows from 82 on.                                                     *)
LEMMA Vic82Rows == Chunk(Vic82) /\ Vics(Vic82) = {82, 89, 96, 106, 101, 125, 198, 206, 214}
BY DEF Vic82, Vic, Vics, Chunk, Listing, Range, NULL

(* The rows from 1 on.                                                      *)
LEMMA Vic1Rows == Chunk(Vic1) /\ Vics(Vic1) = {1, 2, 3, 4, 69, 5, 6, 7, 8}
BY DEF Vic1, Vic, Vics, Chunk, Listing, Range, NULL

(* The rows from 9 on.                                                      *)
LEMMA Vic9Rows == Chunk(Vic9) /\ Vics(Vic9) = {9, 10, 11, 12, 13, 14, 15, 16, 76}
BY DEF Vic9, Vic, Vics, Chunk, Listing, Range, NULL

(* The rows from 35 on.                                                     *)
LEMMA Vic35Rows == Chunk(Vic35) /\ Vics(Vic35) = {35, 36, 83, 90, 97, 107, 102, 126, 199}
BY DEF Vic35, Vic, Vics, Chunk, Listing, Range, NULL

(* The rows from 207 on.                                                    *)
LEMMA Vic207Rows == Chunk(Vic207) /\ Vics(Vic207) = {207, 215, 40, 41, 70, 42, 43, 44, 45}
BY DEF Vic207, Vic, Vics, Chunk, Listing, Range, NULL

(* The rows from 64 on.                                                     *)
LEMMA Vic64Rows == Chunk(Vic64) /\ Vics(Vic64) = {64, 77, 84, 91, 117, 119, 127, 200, 208}
BY DEF Vic64, Vic, Vics, Chunk, Listing, Range, NULL

(* The rows from 216 on.                                                    *)
LEMMA Vic216Rows == Chunk(Vic216) /\ Vics(Vic216) = {216, 218, 46, 47, 71, 48, 49, 50, 51}
BY DEF Vic216, Vic, Vics, Chunk, Listing, Range, NULL

(* The rows from 63 on.                                                     *)
LEMMA Vic63Rows == Chunk(Vic63) /\ Vics(Vic63) = {63, 78, 85, 92, 118, 120, 193, 201, 209}
BY DEF Vic63, Vic, Vics, Chunk, Listing, Range, NULL

(* The rows from 217 on.                                                    *)
LEMMA Vic217Rows == Chunk(Vic217) /\ Vics(Vic217) = {217, 219, 52, 53, 54, 55, 56, 57, 58}
BY DEF Vic217, Vic, Vics, Chunk, Listing, Range, NULL

(* The rows from 59 on.                                                     *)
LEMMA Vic59Rows == Chunk(Vic59) /\ Vics(Vic59) = {59}
BY DEF Vic59, Vic, Vics, Chunk, Listing, Range, NULL

(* The table has a row for each known code, and no other rows.             *)
LEMMA VideoFormatCodes == Chunk(VideoFormatRows) /\ Vics(VideoFormatRows) = KnownVics
<1>1. Chunk(Vic60) /\ Chunk(Vic72) /\ Chunk(Vic81) /\ Chunk(Vic104) /\ Chunk(Vic121) /\
         Chunk(Vic204) /\ Chunk(Vic19) /\ Chunk(Vic27) /\ Chunk(Vic82) /\ Chunk(Vic1) /\
         Chunk(Vic9) /\ Chunk(Vic35) /\ Chunk(Vic207) /\ Chunk(Vic64) /\ Chunk(Vic216) /\
         Chunk(Vic63) /\ Chunk(Vic217) /\ Chunk(Vic59)
  BY Vic60Rows, Vic72Rows, Vic81Rows, Vic104Rows, Vic121Rows, Vic204Rows, Vic19Rows, Vic27Rows,
     Vic82Rows, Vic1Rows, Vic9Rows, Vic35Rows, Vic207Rows, Vic64Rows, Vic216Rows, Vic63Rows,
     Vic217Rows, Vic59Rows
<1>2. ASSUME NEW u, NEW v, Chunk(u), Chunk(v)
      PROVE  Chunk(u \o v) /\ Vics(u \o v) = Vics(u) \cup Vics(v)
  <2>1. Listing(u \o v) /\ Range(u \o v) = Range(u) \cup Range(v) BY <1>2, Appended DEF Chunk
  <2> QED BY <1>2, <2>1 DEF Chunk, Vics
<1>3. /\ Chunk(VideoFormatRows)
      /\ Vics(VideoFormatRows) =
           Vics(Vic60) \cup Vics(Vic72) \cup Vics(Vic81) \cup Vics(Vic104) \cup Vics(Vic121)
              \cup Vics(Vic204) \cup Vics(Vic19) \cup Vics(Vic27) \cup Vics(Vic82) \cup
              Vics(Vic1) \cup Vics(Vic9) \cup Vics(Vic35) \cup Vics(Vic207) \cup Vics(Vic64)
              \cup Vics(Vic216) \cup Vics(Vic63) \cup Vics(Vic217) \cup Vics(Vic59)
  BY <1>1, <1>2 DEF VideoFormatRows
<1>4. Vics(VideoFormatRows) =
        {60, 65, 61, 66, 62, 67, 108, 109, 32} \cup {72, 33, 73, 34, 74, 111, 112, 79, 80} \cup
           {81, 110, 86, 87, 88, 113, 93, 103, 94} \cup {104, 95, 105, 114, 116, 98, 99, 100,
           115} \cup {121, 122, 123, 124, 194, 202, 195, 203, 196} \cup {204, 197, 205, 210,
           211, 212, 213, 17, 18} \cup {19, 68, 20, 21, 22, 23, 24, 25, 26} \cup {27, 28, 29,
           30, 31, 75, 37, 38, 39} \cup {82, 89, 96, 106, 101, 125, 198, 206, 214} \cup {1, 2,
           3, 4, 69, 5, 6, 7, 8} \cup {9, 10, 11, 12, 13, 14, 15, 16, 76} \cup {35, 36, 83, 90,
           97, 107, 102, 126, 199} \cup {207, 215, 40, 41, 70, 42, 43, 44, 45} \cup {64, 77, 84,
           91, 117, 119, 127, 200, 208} \cup {216, 218, 46, 47, 71, 48, 49, 50, 51} \cup {63,
           78, 85, 92, 118, 120, 193, 201, 209} \cup {217, 219, 52, 53, 54, 55, 56, 57, 58} \cup
           {59}
  BY <1>3, Vic60Rows, Vic72Rows, Vic81Rows, Vic104Rows, Vic121Rows, Vic204Rows, Vic19Rows,
     Vic27Rows, Vic82Rows, Vic1Rows, Vic9Rows, Vic35Rows, Vic207Rows, Vic64Rows, Vic216Rows,
     Vic63Rows, Vic217Rows, Vic59Rows
<1> QED BY <1>3, <1>4 DEF KnownVics

(* A finite set of numbers has a greatest.                                 *)
LEMMA MaxIsGreatest ==
  ASSUME NEW N \in Nat, NEW S \in SUBSET (1..N), S # {}
  PROVE  Max(S) \in S /\ \A k \in S : Max(S) >= k
<1> DEFINE T == {N - k : k \in S}
<1>0. \A k \in S : N - k \in Nat OBVIOUS
<1>1. T \in SUBSET Nat /\ T # {} BY <1>0
<1>2. PICK m \in T : \A k \in T : m <= k BY <1>1, NatMin
<1>3. N - m \in S /\ \A k \in S : N - m >= k BY <1>2
<1> HIDE DEF T
<1>4. \E x \in S : \A k \in S : x >= k BY <1>3
<1> QED BY <1>4 DEF Max

(* The slot of a code holds its row, if the table has one, and is zero     *)
(* otherwise; the slot of code 0 is zero in any case.                      *)
LEMMA FormatSlot ==
  ASSUME NEW vic \in 0..(video_formats_len - 1)
  PROVE  /\ vic \in KnownVics => VideoFormats[vic] # NULL /\ VideoFormats[vic].vic = vic
         /\ vic \notin KnownVics => VideoFormats[vic].vic = 0
<1> DEFINE rows == {k \in DOMAIN VideoFormatRows : VideoFormatRows[k].vic = vic}
<1>1. VideoFormats[vic] = IF rows # {} THEN VideoFormatRows[Max(rows)] ELSE [vic |-> 0]
  BY DEF VideoFormats
<1>2. /\ Len(VideoFormatRows) \in Nat /\ DOMAIN VideoFormatRows = 1..Len(VideoFormatRows)
      /\ NULL \notin Range(VideoFormatRows)
      /\ {r.vic : r \in Range(VideoFormatRows)} = KnownVics
  BY VideoFormatCodes DEF Chunk, Listing, Vics
<1>3. CASE vic \in KnownVics
  <2>1. PICK r \in Range(VideoFormatRows) : r.vic = vic BY <1>2, <1>3
  <2>2. rows # {} BY <2>1 DEF Range
  <2>3. Max(rows) \in rows BY <1>2, <2>2, MaxIsGreatest
  <2>4. VideoFormats[vic] = VideoFormatRows[Max(rows)] BY <1>1, <2>2
  <2>5. VideoFormatRows[Max(rows)] \in Range(VideoFormatRows) BY <2>3 DEF Range
  <2> QED BY <1>2, <1>3, <2>3, <2>4, <2>5
<1>4. CASE vic \notin KnownVics
  <2>1. rows = {}
    <3> SUFFICES ASSUME NEW k \in DOMAIN VideoFormatRows, VideoFormatRows[k].vic = vic
                 PROVE FALSE OBVIOUS
    <3>1. VideoFormatRows[k] \in Range(VideoFormatRows) BY DEF Range
    <3> QED BY <3>1, <1>2, <1>4
  <2>2. VideoFormats[vic] = [vic |-> 0] BY <1>1, <2>1
  <2> QED BY <1>4, <2>2
<1> QED BY <1>3, <1>4

(* The sparse table of video formats answers each known code with its own  *)
(* row, and no other code with any.                                        *)
THEOREM VicExact == Spec => []VicLookupExact
<1>1. IInv => VicLookupExact
  <2> SUFFICES ASSUME IInv, kind = "vic", Seen, data < video_formats_len
               PROVE  LET known == result.value # NULL
                      IN  /\ known <=> data \in KnownVics
                          /\ known => result.value.vic = data
    BY DEF VicLookupExact
  <2>1. data \in Byte BY DEF IInv, Given, DataForm
  <2>2. data \in 0..(video_formats_len - 1) BY <2>1 DEF Byte, video_formats_len
  <2>3. PICK f \in di_cta_video_format_from_vic(data) : result = Kept(f, {})
    BY DEF IInv, Decoded, Seen
  <2>4. result.value = f BY <2>3 DEF Kept
  <2>5. f = IF VideoFormats[data].vic = 0 THEN NULL ELSE VideoFormats[data]
    BY <2>2, <2>3 DEF di_cta_video_format_from_vic, video_formats_len
  <2>6. data \in KnownVics => VideoFormats[data] # NULL /\ VideoFormats[data].vic = data
    BY <2>2, FormatSlot
  <2>7. data \notin KnownVics => VideoFormats[data].vic = 0 BY <2>2, FormatSlot
  <2>8. 0 \notin KnownVics BY DEF KnownVics
  <2> QED BY <2>4, <2>5, <2>6, <2>7, <2>8
<1> QED BY <1>1, Invariant, PTL

-----------------------------------------------------------------------------
(* What the DMT table names by a standard timing: code, width, height,     *)
(* rate, and id.                                                           *)
Named(s) ==
  {<<r.edid_std_id, r.horiz_video, r.vert_video, r.refresh_rate_hz, r.dmt_id>> :
     r \in {r \in Range(s) : r.edid_std_id # 0}}
Ids(s) == {r.dmt_id : r \in Range(s)}

(* The rows from 01h on.                                                 *)
LEMMA Dmt01Rows ==
  /\ Chunk(Dmt01)
  /\ Ids(Dmt01) = {1, 2, 3, 4, 5, 6, 7, 8}
  /\ Named(Dmt01) = {<<12569, 640, 400, 85, 2>>, <<12608, 640, 480, 60, 4>>,
       <<12620, 640, 480, 72, 5>>, <<12623, 640, 480, 75, 6>>, <<12633, 640, 480, 85, 7>>}
BY DEF Dmt01, Dmt, Ids, Named, Chunk, Listing, Range, NULL

(* The rows from 09h on.                                                 *)
LEMMA Dmt09Rows ==
  /\ Chunk(Dmt09)
  /\ Ids(Dmt09) = {9, 10, 11, 12, 13, 14, 15, 16}
  /\ Named(Dmt09) = {<<17728, 800, 600, 60, 9>>, <<17740, 800, 600, 72, 10>>,
       <<17743, 800, 600, 75, 11>>, <<17753, 800, 600, 85, 12>>, <<24896, 1024, 768, 60, 16>>}
BY DEF Dmt09, Dmt, Ids, Named, Chunk, Listing, Range, NULL

(* The rows from 11h on.                                                 *)
LEMMA Dmt11Rows ==
  /\ Chunk(Dmt11)
  /\ Ids(Dmt11) = {17, 18, 19, 20, 21, 85, 22, 23}
  /\ Named(Dmt11) = {<<24906, 1024, 768, 70, 17>>, <<24911, 1024, 768, 75, 18>>,
       <<24921, 1024, 768, 85, 19>>, <<29007, 1152, 864, 75, 21>>, <<33216, 1280, 720, 60, 85>>}
BY DEF Dmt11, Dmt, Ids, Named, Chunk, Listing, Range, NULL

(* The rows from 18h on.                                                 *)
LEMMA Dmt18Rows ==
  /\ Chunk(Dmt18)
  /\ Ids(Dmt18) = {24, 25, 26, 27, 28, 29, 30, 31}
  /\ Named(Dmt18) = {<<33024, 1280, 800, 60, 28>>, <<33039, 1280, 800, 75, 29>>,
       <<33049, 1280, 800, 85, 30>>}
BY DEF Dmt18, Dmt, Ids, Named, Chunk, Listing, Range, NULL

(* The rows from 20h on.                                                 *)
LEMMA Dmt20Rows ==
  /\ Chunk(Dmt20)
  /\ Ids(Dmt20) = {32, 33, 34, 35, 36, 37, 38, 39}
  /\ Named(Dmt20) = {<<33088, 1280, 960, 60, 32>>, <<33113, 1280, 960, 85, 33>>,
       <<33152, 1280, 1024, 60, 35>>, <<33167, 1280, 1024, 75, 36>>,
       <<33177, 1280, 1024, 85, 37>>}
BY DEF Dmt20, Dmt, Ids, Named, Chunk, Listing, Range, NULL

(* The rows from 28h on.                                                 *)
LEMMA Dmt28Rows ==
  /\ Chunk(Dmt28)
  /\ Ids(Dmt28) = {40, 81, 86, 41, 42, 43, 44, 45}
  /\ Named(Dmt28) = {<<36928, 1400, 1050, 60, 42>>, <<36943, 1400, 1050, 75, 43>>,
       <<36953, 1400, 1050, 85, 44>>}
BY DEF Dmt28, Dmt, Ids, Named, Chunk, Listing, Range, NULL

(* The rows from 2Eh on.                                                 *)
LEMMA Dmt2ERows ==
  /\ Chunk(Dmt2E)
  /\ Ids(Dmt2E) = {46, 47, 48, 49, 50, 83, 51, 52}
  /\ Named(Dmt2E) = {<<38144, 1440, 900, 60, 47>>, <<38159, 1440, 900, 75, 48>>,
       <<38169, 1440, 900, 85, 49>>, <<43456, 1600, 900, 60, 83>>,
       <<43328, 1600, 1200, 60, 51>>, <<43333, 1600, 1200, 65, 52>>}
BY DEF Dmt2E, Dmt, Ids, Named, Chunk, Listing, Range, NULL

(* The rows from 35h on.                                                 *)
LEMMA Dmt35Rows ==
  /\ Chunk(Dmt35)
  /\ Ids(Dmt35) = {53, 54, 55, 56, 57, 58, 59, 60}
  /\ Named(Dmt35) = {<<43338, 1600, 1200, 70, 53>>, <<43343, 1600, 1200, 75, 54>>,
       <<43353, 1600, 1200, 85, 55>>, <<45824, 1680, 1050, 60, 58>>,
       <<45839, 1680, 1050, 75, 59>>, <<45849, 1680, 1050, 85, 60>>}
BY DEF Dmt35, Dmt, Ids, Named, Chunk, Listing, Range, NULL

(* The rows from 3Dh on.                                                 *)
LEMMA Dmt3DRows ==
  /\ Chunk(Dmt3D)
  /\ Ids(Dmt3D) = {61, 62, 63, 64, 65, 66, 67, 82}
  /\ Named(Dmt3D) = {<<49472, 1792, 1344, 60, 62>>, <<49487, 1792, 1344, 75, 63>>,
       <<51520, 1856, 1392, 60, 65>>, <<51535, 1856, 1392, 75, 66>>,
       <<53696, 1920, 1080, 60, 82>>}
BY DEF Dmt3D, Dmt, Ids, Named, Chunk, Listing, Range, NULL

(* The rows from 44h on.                                                 *)
LEMMA Dmt44Rows ==
  /\ Chunk(Dmt44)
  /\ Ids(Dmt44) = {68, 69, 70, 71, 72, 73, 74, 75}
  /\ Named(Dmt44) = {<<53504, 1920, 1200, 60, 69>>, <<53519, 1920, 1200, 75, 70>>,
       <<53529, 1920, 1200, 85, 71>>, <<53568, 1920, 1440, 60, 73>>,
       <<53583, 1920, 1440, 75, 74>>}
BY DEF Dmt44, Dmt, Ids, Named, Chunk, Listing, Range, NULL

(* The rows from 54h on.                                                 *)
LEMMA Dmt54Rows ==
  /\ Chunk(Dmt54)
  /\ Ids(Dmt54) = {84, 76, 77, 78, 79, 80}
  /\ Named(Dmt54) = {<<57792, 2048, 1152, 60, 84>>}
BY DEF Dmt54, Dmt, Ids, Named, Chunk, Listing, Range, NULL

-----------------------------------------------------------------------------
(* The formula, for a picture that is not interlaced.                      *)
Standard(h, v, hz) == CvtStandard(h, v, hz, FALSE)
Reduced(h, v, hz) == CvtReduced(h, v, hz, FALSE)

(* The rows that have a CVT code, as tuples of numbers.                    *)
Computed(s) == {r \in Range(s) : r.cvt_id # 0}
RowNumbers(r) ==
  <<r.cvt_id, r.horiz_video, r.vert_video, r.refresh_rate_hz,
    r.horiz_blank, r.horiz_front_porch, r.horiz_sync_pulse,
    r.vert_blank, r.vert_front_porch, r.vert_sync_pulse, r.pixel_clock_khz>>
ReducedRows(s) == {RowNumbers(r) : r \in {r \in Computed(s) : r.reduced_blanking}}
StandardRows(s) == {RowNumbers(r) : r \in {r \in Computed(s) : ~r.reduced_blanking}}

(* Size and the first two bytes of the code of such a row belong together, *)
(* and the formula gives its numbers.                                      *)
CvtModes == {<<32540, 1280, 768>>, <<36632, 1280, 800>>, <<3104, 1400, 1050>>, <<49432, 1440, 900>>,
             <<3112, 1680, 1050>>, <<22312, 1920, 1200>>, <<7992, 2560, 1600>>}
ByFormula(t, timing) ==
  /\ <<t[1] \div 256, t[2], t[3]>> \in CvtModes
  /\ timing.total_active_pixels = t[2] /\ timing.v_lines_rnd = t[3]
  /\ timing.h_blank = t[5] /\ timing.h_front_porch = t[6] /\ timing.h_sync = t[7]
  /\ timing.v_blank = t[8] /\ timing.v_front_porch = t[9] /\ timing.v_sync = t[10]
  /\ timing.pixel_freq_khz = t[11]

(* The formula at 1280 by 768, reduced at 60 Hz, and at 60, 75 and 85 Hz.   *)
LEMMA Cvt1280x768 ==
  /\ Reduced(1280, 768, 60) = Cvt(1280, 768, 160, 32, 22, 7, 3, 273)
  /\ Standard(1280, 768, 60) = Cvt(1280, 768, 384, 128, 30, 7, 3, 318)
  /\ Standard(1280, 768, 75) = Cvt(1280, 768, 416, 128, 37, 7, 3, 409)
  /\ Standard(1280, 768, 85) = Cvt(1280, 768, 432, 136, 41, 7, 3, 470)
<1>1. Reduced(1280, 768, 60) = Cvt(1280, 768, 160, 32, 22, 7, 3, 273)
  <2>1. MulDiv(27600, 768, 972400) = 21 BY MulDivExact, SMT
  <2>2. MulDiv(1440, 94800, 500000) = 273 BY MulDivExact, SMT
  <2> QED BY <2>1, <2>2, SMT DEF Reduced, CvtReduced, CvtVsync, Larger
<1>2. Standard(1280, 768, 60) = Cvt(1280, 768, 384, 128, 30, 7, 3, 318)
  <2>1. MulDiv(660, 1542, 38680) = 26 BY MulDivExact, SMT
  <2>2. MulDiv(1280, 219540, 705660) = 398 BY MulDivExact, SMT
  <2>3. MulDiv(1664, 92520, 483500) = 318 BY MulDivExact, SMT
  <2> QED BY <2>1, <2>2, <2>3, SMT DEF Standard, CvtStandard, CvtVsync, Larger
<1>3. Standard(1280, 768, 75) = Cvt(1280, 768, 416, 128, 37, 7, 3, 409)
  <2>1. MulDiv(825, 1542, 38350) = 33 BY MulDivExact, SMT
  <2>2. MulDiv(1280, 289425, 867075) = 427 BY MulDivExact, SMT
  <2>3. MulDiv(1696, 115650, 479375) = 409 BY MulDivExact, SMT
  <2> QED BY <2>1, <2>2, <2>3, SMT DEF Standard, CvtStandard, CvtVsync, Larger
<1>4. Standard(1280, 768, 85) = Cvt(1280, 768, 432, 136, 41, 7, 3, 470)
  <2>1. MulDiv(935, 1542, 38130) = 37 BY MulDivExact, SMT
  <2>2. MulDiv(1280, 336015, 974685) = 441 BY MulDivExact, SMT
  <2>3. MulDiv(1712, 131070, 476625) = 470 BY MulDivExact, SMT
  <2> QED BY <2>1, <2>2, <2>3, SMT DEF Standard, CvtStandard, CvtVsync, Larger
<1> QED BY <1>1, <1>2, <1>3, <1>4

(* The formula at 1280 by 800, reduced at 60 Hz, and at 60, 75 and 85 Hz.   *)
LEMMA Cvt1280x800 ==
  /\ Reduced(1280, 800, 60) = Cvt(1280, 800, 160, 32, 23, 6, 3, 284)
  /\ Standard(1280, 800, 60) = Cvt(1280, 800, 400, 128, 31, 6, 3, 334)
  /\ Standard(1280, 800, 75) = Cvt(1280, 800, 416, 128, 38, 6, 3, 426)
  /\ Standard(1280, 800, 85) = Cvt(1280, 800, 432, 136, 43, 6, 3, 490)
<1>1. Reduced(1280, 800, 60) = Cvt(1280, 800, 160, 32, 23, 6, 3, 284)
  <2>1. MulDiv(27600, 800, 972400) = 22 BY MulDivExact, SMT
  <2>2. MulDiv(1440, 98760, 500000) = 284 BY MulDivExact, SMT
  <2> QED BY <2>1, <2>2, SMT DEF Reduced, CvtReduced, CvtVsync, Larger
<1>2. Standard(1280, 800, 60) = Cvt(1280, 800, 400, 128, 31, 6, 3, 334)
  <2>1. MulDiv(660, 1606, 38680) = 27 BY MulDivExact, SMT
  <2>2. MulDiv(1280, 231060, 732540) = 403 BY MulDivExact, SMT
  <2>3. MulDiv(1680, 96360, 483500) = 334 BY MulDivExact, SMT
  <2> QED BY <2>1, <2>2, <2>3, SMT DEF Standard, CvtStandard, CvtVsync, Larger
<1>3. Standard(1280, 800, 75) = Cvt(1280, 800, 416, 128, 38, 6, 3, 426)
  <2>1. MulDiv(825, 1606, 38350) = 34 BY MulDivExact, SMT
  <2>2. MulDiv(1280, 303825, 900675) = 431 BY MulDivExact, SMT
  <2>3. MulDiv(1696, 120450, 479375) = 426 BY MulDivExact, SMT
  <2> QED BY <2>1, <2>2, <2>3, SMT DEF Standard, CvtStandard, CvtVsync, Larger
<1>4. Standard(1280, 800, 85) = Cvt(1280, 800, 432, 136, 43, 6, 3, 490)
  <2>1. MulDiv(935, 1606, 38130) = 39 BY MulDivExact, SMT
  <2>2. MulDiv(1280, 352335, 1012765) = 445 BY MulDivExact, SMT
  <2>3. MulDiv(1712, 136510, 476625) = 490 BY MulDivExact, SMT
  <2> QED BY <2>1, <2>2, <2>3, SMT DEF Standard, CvtStandard, CvtVsync, Larger
<1> QED BY <1>1, <1>2, <1>3, <1>4

(* The formula at 1400 by 1050, reduced at 60 Hz, and at 60, 75 and 85 Hz.  *)
LEMMA Cvt1400x1050 ==
  /\ Reduced(1400, 1050, 60) = Cvt(1400, 1050, 160, 32, 30, 4, 3, 404)
  /\ Standard(1400, 1050, 60) = Cvt(1400, 1050, 464, 144, 39, 4, 3, 487)
  /\ Standard(1400, 1050, 75) = Cvt(1400, 1050, 496, 144, 49, 4, 3, 624)
  /\ Standard(1400, 1050, 85) = Cvt(1400, 1050, 512, 152, 55, 4, 3, 718)
<1>1. Reduced(1400, 1050, 60) = Cvt(1400, 1050, 160, 32, 30, 4, 3, 404)
  <2>1. MulDiv(27600, 1050, 972400) = 29 BY MulDivExact, SMT
  <2>2. MulDiv(1560, 129600, 500000) = 404 BY MulDivExact, SMT
  <2> QED BY <2>1, <2>2, SMT DEF Reduced, CvtReduced, CvtVsync, Larger
<1>2. Standard(1400, 1050, 60) = Cvt(1400, 1050, 464, 144, 39, 4, 3, 487)
  <2>1. MulDiv(660, 2106, 38680) = 35 BY MulDivExact, SMT
  <2>2. MulDiv(1400, 321060, 942540) = 476 BY MulDivExact, SMT
  <2>3. MulDiv(1864, 126360, 483500) = 487 BY MulDivExact, SMT
  <2> QED BY <2>1, <2>2, <2>3, SMT DEF Standard, CvtStandard, CvtVsync, Larger
<1>3. Standard(1400, 1050, 75) = Cvt(1400, 1050, 496, 144, 49, 4, 3, 624)
  <2>1. MulDiv(825, 2106, 38350) = 45 BY MulDivExact, SMT
  <2>2. MulDiv(1400, 416325, 1163175) = 501 BY MulDivExact, SMT
  <2>3. MulDiv(1896, 157950, 479375) = 624 BY MulDivExact, SMT
  <2> QED BY <2>1, <2>2, <2>3, SMT DEF Standard, CvtStandard, CvtVsync, Larger
<1>4. Standard(1400, 1050, 85) = Cvt(1400, 1050, 512, 152, 55, 4, 3, 718)
  <2>1. MulDiv(935, 2106, 38130) = 51 BY MulDivExact, SMT
  <2>2. MulDiv(1400, 479835, 1310265) = 512 BY MulDivExact, SMT
  <2>3. MulDiv(1912, 179010, 476625) = 718 BY MulDivExact, SMT
  <2> QED BY <2>1, <2>2, <2>3, SMT DEF Standard, CvtStandard, CvtVsync, Larger
<1> QED BY <1>1, <1>2, <1>3, <1>4

(* The formula at 1440 by 900, reduced at 60 Hz, and at 60, 75 and 85 Hz.   *)
LEMMA Cvt1440x900 ==
  /\ Reduced(1440, 900, 60) = Cvt(1440, 900, 160, 32, 26, 6, 3, 355)
  /\ Standard(1440, 900, 60) = Cvt(1440, 900, 464, 152, 34, 6, 3, 426)
  /\ Standard(1440, 900, 75) = Cvt(1440, 900, 496, 152, 42, 6, 3, 547)
  /\ Standard(1440, 900, 85) = Cvt(1440, 900, 512, 152, 48, 6, 3, 628)
<1>1. Reduced(1440, 900, 60) = Cvt(1440, 900, 160, 32, 26, 6, 3, 355)
  <2>1. MulDiv(27600, 900, 972400) = 25 BY MulDivExact, SMT
  <2>2. MulDiv(1600, 111120, 500000) = 355 BY MulDivExact, SMT
  <2> QED BY <2>1, <2>2, SMT DEF Reduced, CvtReduced, CvtVsync, Larger
<1>2. Standard(1440, 900, 60) = Cvt(1440, 900, 464, 152, 34, 6, 3, 426)
  <2>1. MulDiv(660, 1806, 38680) = 30 BY MulDivExact, SMT
  <2>2. MulDiv(1440, 267060, 816540) = 470 BY MulDivExact, SMT
  <2>3. MulDiv(1904, 108360, 483500) = 426 BY MulDivExact, SMT
  <2> QED BY <2>1, <2>2, <2>3, SMT DEF Standard, CvtStandard, CvtVsync, Larger
<1>3. Standard(1440, 900, 75) = Cvt(1440, 900, 496, 152, 42, 6, 3, 547)
  <2>1. MulDiv(825, 1806, 38350) = 38 BY MulDivExact, SMT
  <2>2. MulDiv(1440, 348825, 1005675) = 499 BY MulDivExact, SMT
  <2>3. MulDiv(1936, 135450, 479375) = 547 BY MulDivExact, SMT
  <2> QED BY <2>1, <2>2, <2>3, SMT DEF Standard, CvtStandard, CvtVsync, Larger
<1>4. Standard(1440, 900, 85) = Cvt(1440, 900, 512, 152, 48, 6, 3, 628)
  <2>1. MulDiv(935, 1806, 38130) = 44 BY MulDivExact, SMT
  <2>2. MulDiv(1440, 403335, 1131765) = 513 BY MulDivExact, SMT
  <2>3. MulDiv(1952, 153510, 476625) = 628 BY MulDivExact, SMT
  <2> QED BY <2>1, <2>2, <2>3, SMT DEF Standard, CvtStandard, CvtVsync, Larger
<1> QED BY <1>1, <1>2, <1>3, <1>4

(* The formula at 1680 by 1050, reduced at 60 Hz, and at 60, 75 and 85 Hz.  *)
LEMMA Cvt1680x1050 ==
  /\ Reduced(1680, 1050, 60) = Cvt(1680, 1050, 160, 32, 30, 6, 3, 476)
  /\ Standard(1680, 1050, 60) = Cvt(1680, 1050, 560, 176, 39, 6, 3, 585)
  /\ Standard(1680, 1050, 75) = Cvt(1680, 1050, 592, 176, 49, 6, 3, 748)
  /\ Standard(1680, 1050, 85) = Cvt(1680, 1050, 608, 176, 55, 6, 3, 859)
<1>1. Reduced(1680, 1050, 60) = Cvt(1680, 1050, 160, 32, 30, 6, 3, 476)
  <2>1. MulDiv(27600, 1050, 972400) = 29 BY MulDivExact, SMT
  <2>2. MulDiv(1840, 129600, 500000) = 476 BY MulDivExact, SMT
  <2> QED BY <2>1, <2>2, SMT DEF Reduced, CvtReduced, CvtVsync, Larger
<1>2. Standard(1680, 1050, 60) = Cvt(1680, 1050, 560, 176, 39, 6, 3, 585)
  <2>1. MulDiv(660, 2106, 38680) = 35 BY MulDivExact, SMT
  <2>2. MulDiv(1680, 321060, 942540) = 572 BY MulDivExact, SMT
  <2>3. MulDiv(2240, 126360, 483500) = 585 BY MulDivExact, SMT
  <2> QED BY <2>1, <2>2, <2>3, SMT DEF Standard, CvtStandard, CvtVsync, Larger
<1>3. Standard(1680, 1050, 75) = Cvt(1680, 1050, 592, 176, 49, 6, 3, 748)
  <2>1. MulDiv(825, 2106, 38350) = 45 BY MulDivExact, SMT
  <2>2. MulDiv(1680, 416325, 1163175) = 601 BY MulDivExact, SMT
  <2>3. MulDiv(2272, 157950, 479375) = 748 BY MulDivExact, SMT
  <2> QED BY <2>1, <2>2, <2>3, SMT DEF Standard, CvtStandard, CvtVsync, Larger
<1>4. Standard(1680, 1050, 85) = Cvt(1680, 1050, 608, 176, 55, 6, 3, 859)
  <2>1. MulDiv(935, 2106, 38130) = 51 BY MulDivExact, SMT
  <2>2. MulDiv(1680, 479835, 1310265) = 615 BY MulDivExact, SMT
  <2>3. MulDiv(2288, 179010, 476625) = 859 BY MulDivExact, SMT
  <2> QED BY <2>1, <2>2, <2>3, SMT DEF Standard, CvtStandard, CvtVsync, Larger
<1> QED BY <1>1, <1>2, <1>3, <1>4

(* The formula at 1920 by 1200, reduced at 60 Hz, and at 60, 75 and 85 Hz.  *)
LEMMA Cvt1920x1200 ==
  /\ Reduced(1920, 1200, 60) = Cvt(1920, 1200, 160, 32, 35, 6, 3, 616)
  /\ Standard(1920, 1200, 60) = Cvt(1920, 1200, 672, 200, 45, 6, 3, 773)
  /\ Standard(1920, 1200, 75) = Cvt(1920, 1200, 688, 208, 55, 6, 3, 981)
  /\ Standard(1920, 1200, 85) = Cvt(1920, 1200, 704, 208, 62, 6, 3, 1125)
<1>1. Reduced(1920, 1200, 60) = Cvt(1920, 1200, 160, 32, 35, 6, 3, 616)
  <2>1. MulDiv(27600, 1200, 972400) = 34 BY MulDivExact, SMT
  <2>2. MulDiv(2080, 148200, 500000) = 616 BY MulDivExact, SMT
  <2> QED BY <2>1, <2>2, SMT DEF Reduced, CvtReduced, CvtVsync, Larger
<1>2. Standard(1920, 1200, 60) = Cvt(1920, 1200, 672, 200, 45, 6, 3, 773)
  <2>1. MulDiv(660, 2406, 38680) = 41 BY MulDivExact, SMT
  <2>2. MulDiv(1920, 375060, 1068540) = 673 BY MulDivExact, SMT
  <2>3. MulDiv(2592, 144360, 483500) = 773 BY MulDivExact, SMT
  <2> QED BY <2>1, <2>2, <2>3, SMT DEF Standard, CvtStandard, CvtVsync, Larger
<1>3. Standard(1920, 1200, 75) = Cvt(1920, 1200, 688, 208, 55, 6, 3, 981)
  <2>1. MulDiv(825, 2406, 38350) = 51 BY MulDivExact, SMT
  <2>2. MulDiv(1920, 483825, 1320675) = 703 BY MulDivExact, SMT
  <2>3. MulDiv(2608, 180450, 479375) = 981 BY MulDivExact, SMT
  <2> QED BY <2>1, <2>2, <2>3, SMT DEF Standard, CvtStandard, CvtVsync, Larger
<1>4. Standard(1920, 1200, 85) = Cvt(1920, 1200, 704, 208, 62, 6, 3, 1125)
  <2>1. MulDiv(935, 2406, 38130) = 58 BY MulDivExact, SMT
  <2>2. MulDiv(1920, 556335, 1488765) = 717 BY MulDivExact, SMT
  <2>3. MulDiv(2624, 204510, 476625) = 1125 BY MulDivExact, SMT
  <2> QED BY <2>1, <2>2, <2>3, SMT DEF Standard, CvtStandard, CvtVsync, Larger
<1> QED BY <1>1, <1>2, <1>3, <1>4

(* The formula at 2560 by 1600, reduced at 60 Hz, and at 60, 75 and 85 Hz.  *)
LEMMA Cvt2560x1600 ==
  /\ Reduced(2560, 1600, 60) = Cvt(2560, 1600, 160, 32, 46, 6, 3, 1074)
  /\ Standard(2560, 1600, 60) = Cvt(2560, 1600, 944, 280, 58, 6, 3, 1394)
  /\ Standard(2560, 1600, 75) = Cvt(2560, 1600, 976, 280, 72, 6, 3, 1773)
  /\ Standard(2560, 1600, 85) = Cvt(2560, 1600, 976, 280, 82, 6, 3, 2021)
<1>1. Reduced(2560, 1600, 60) = Cvt(2560, 1600, 160, 32, 46, 6, 3, 1074)
  <2>1. MulDiv(27600, 1600, 972400) = 45 BY MulDivExact, SMT
  <2>2. MulDiv(2720, 197520, 500000) = 1074 BY MulDivExact, SMT
  <2> QED BY <2>1, <2>2, SMT DEF Reduced, CvtReduced, CvtVsync, Larger
<1>2. Standard(2560, 1600, 60) = Cvt(2560, 1600, 944, 280, 58, 6, 3, 1394)
  <2>1. MulDiv(660, 3206, 38680) = 54 BY MulDivExact, SMT
  <2>2. MulDiv(2560, 519060, 1404540) = 946 BY MulDivExact, SMT
  <2>3. MulDiv(3504, 192360, 483500) = 1394 BY MulDivExact, SMT
  <2> QED BY <2>1, <2>2, <2>3, SMT DEF Standard, CvtStandard, CvtVsync, Larger
<1>3. Standard(2560, 1600, 75) = Cvt(2560, 1600, 976, 280, 72, 6, 3, 1773)
  <2>1. MulDiv(825, 3206, 38350) = 68 BY MulDivExact, SMT
  <2>2. MulDiv(2560, 663825, 1740675) = 976 BY MulDivExact, SMT
  <2>3. MulDiv(3536, 240450, 479375) = 1773 BY MulDivExact, SMT
  <2> QED BY <2>1, <2>2, <2>3, SMT DEF Standard, CvtStandard, CvtVsync, Larger
<1>4. Standard(2560, 1600, 85) = Cvt(2560, 1600, 976, 280, 82, 6, 3, 2021)
  <2>1. MulDiv(935, 3206, 38130) = 78 BY MulDivExact, SMT
  <2>2. MulDiv(2560, 760335, 1964765) = 990 BY MulDivExact, SMT
  <2>3. MulDiv(3536, 272510, 476625) = 2021 BY MulDivExact, SMT
  <2> QED BY <2>1, <2>2, <2>3, SMT DEF Standard, CvtStandard, CvtVsync, Larger
<1> QED BY <1>1, <1>2, <1>3, <1>4

(* The CVT rows from 01h on.                                              *)
LEMMA Dmt01ByCvt == \A r \in Range(Dmt01) : r.cvt_id = 0
BY DEF Dmt01, Dmt, Range

(* The CVT rows from 09h on.                                              *)
LEMMA Dmt09ByCvt == \A r \in Range(Dmt09) : r.cvt_id = 0
BY DEF Dmt09, Dmt, Range

(* The CVT rows from 11h on.                                              *)
LEMMA Dmt11ByCvt ==
  (\A t \in ReducedRows(Dmt11) : ByFormula(t, Reduced(t[2], t[3], t[4])))
  /\ \A t \in StandardRows(Dmt11) : ByFormula(t, Standard(t[2], t[3], t[4]))
<1>1. ReducedRows(Dmt11) =
       {<<8330273, 1280, 768, 60, 160, 48, 32, 22, 3, 7, 68250>>}
  BY SMT DEF Dmt11, Dmt, ReducedRows, RowNumbers, Computed, Range
<1>2. StandardRows(Dmt11) =
       {<<8330280, 1280, 768, 60, 384, 64, 128, 30, 3, 7, 79500>>}
  BY SMT DEF Dmt11, Dmt, StandardRows, RowNumbers, Computed, Range
<1>3. \A t \in ReducedRows(Dmt11) : ByFormula(t, Reduced(t[2], t[3], t[4]))
  BY <1>1, Cvt1280x768, SMT DEF ByFormula, CvtModes, Cvt
<1>4. \A t \in StandardRows(Dmt11) : ByFormula(t, Standard(t[2], t[3], t[4]))
  BY <1>2, Cvt1280x768, SMT DEF ByFormula, CvtModes, Cvt
<1> QED BY <1>3, <1>4

(* The CVT rows from 18h on.                                              *)
LEMMA Dmt18ByCvt ==
  (\A t \in ReducedRows(Dmt18) : ByFormula(t, Reduced(t[2], t[3], t[4])))
  /\ \A t \in StandardRows(Dmt18) : ByFormula(t, Standard(t[2], t[3], t[4]))
<1>1. ReducedRows(Dmt18) =
       {<<9377825, 1280, 800, 60, 160, 48, 32, 23, 3, 6, 71000>>}
  BY SMT DEF Dmt18, Dmt, ReducedRows, RowNumbers, Computed, Range
<1>2. StandardRows(Dmt18) =
       {<<8330308, 1280, 768, 75, 416, 80, 128, 37, 3, 7, 102250>>,
        <<8330338, 1280, 768, 85, 432, 80, 136, 41, 3, 7, 117500>>,
        <<9377832, 1280, 800, 60, 400, 72, 128, 31, 3, 6, 83500>>,
        <<9377860, 1280, 800, 75, 416, 80, 128, 38, 3, 6, 106500>>,
        <<9377890, 1280, 800, 85, 432, 80, 136, 43, 3, 6, 122500>>}
  BY SMT DEF Dmt18, Dmt, StandardRows, RowNumbers, Computed, Range
<1>3. \A t \in ReducedRows(Dmt18) : ByFormula(t, Reduced(t[2], t[3], t[4]))
  BY <1>1, Cvt1280x768, Cvt1280x800, SMT DEF ByFormula, CvtModes, Cvt
<1>4. \A t \in StandardRows(Dmt18) : ByFormula(t, Standard(t[2], t[3], t[4]))
  BY <1>2, Cvt1280x768, Cvt1280x800, SMT DEF ByFormula, CvtModes, Cvt
<1> QED BY <1>3, <1>4

(* The CVT rows from 20h on.                                              *)
LEMMA Dmt20ByCvt == \A r \in Range(Dmt20) : r.cvt_id = 0
BY DEF Dmt20, Dmt, Range

(* The CVT rows from 28h on.                                              *)
LEMMA Dmt28ByCvt ==
  (\A t \in ReducedRows(Dmt28) : ByFormula(t, Reduced(t[2], t[3], t[4])))
  /\ \A t \in StandardRows(Dmt28) : ByFormula(t, Standard(t[2], t[3], t[4]))
<1>1. ReducedRows(Dmt28) =
       {<<794657, 1400, 1050, 60, 160, 48, 32, 30, 3, 4, 101000>>}
  BY SMT DEF Dmt28, Dmt, ReducedRows, RowNumbers, Computed, Range
<1>2. StandardRows(Dmt28) =
       {<<794664, 1400, 1050, 60, 464, 88, 144, 39, 3, 4, 121750>>,
        <<794692, 1400, 1050, 75, 496, 104, 144, 49, 3, 4, 156000>>,
        <<794722, 1400, 1050, 85, 512, 104, 152, 55, 3, 4, 179500>>}
  BY SMT DEF Dmt28, Dmt, StandardRows, RowNumbers, Computed, Range
<1>3. \A t \in ReducedRows(Dmt28) : ByFormula(t, Reduced(t[2], t[3], t[4]))
  BY <1>1, Cvt1400x1050, SMT DEF ByFormula, CvtModes, Cvt
<1>4. \A t \in StandardRows(Dmt28) : ByFormula(t, Standard(t[2], t[3], t[4]))
  BY <1>2, Cvt1400x1050, SMT DEF ByFormula, CvtModes, Cvt
<1> QED BY <1>3, <1>4

(* The CVT rows from 2Eh on.                                              *)
LEMMA Dmt2EByCvt ==
  (\A t \in ReducedRows(Dmt2E) : ByFormula(t, Reduced(t[2], t[3], t[4])))
  /\ \A t \in StandardRows(Dmt2E) : ByFormula(t, Standard(t[2], t[3], t[4]))
<1>1. ReducedRows(Dmt2E) =
       {<<12654625, 1440, 900, 60, 160, 48, 32, 26, 3, 6, 88750>>}
  BY SMT DEF Dmt2E, Dmt, ReducedRows, RowNumbers, Computed, Range
<1>2. StandardRows(Dmt2E) =
       {<<12654632, 1440, 900, 60, 464, 80, 152, 34, 3, 6, 106500>>,
        <<12654660, 1440, 900, 75, 496, 96, 152, 42, 3, 6, 136750>>,
        <<12654696, 1440, 900, 85, 512, 104, 152, 48, 3, 6, 157000>>}
  BY SMT DEF Dmt2E, Dmt, StandardRows, RowNumbers, Computed, Range
<1>3. \A t \in ReducedRows(Dmt2E) : ByFormula(t, Reduced(t[2], t[3], t[4]))
  BY <1>1, Cvt1440x900, SMT DEF ByFormula, CvtModes, Cvt
<1>4. \A t \in StandardRows(Dmt2E) : ByFormula(t, Standard(t[2], t[3], t[4]))
  BY <1>2, Cvt1440x900, SMT DEF ByFormula, CvtModes, Cvt
<1> QED BY <1>3, <1>4

(* The CVT rows from 35h on.                                              *)
LEMMA Dmt35ByCvt ==
  (\A t \in ReducedRows(Dmt35) : ByFormula(t, Reduced(t[2], t[3], t[4])))
  /\ \A t \in StandardRows(Dmt35) : ByFormula(t, Standard(t[2], t[3], t[4]))
<1>1. ReducedRows(Dmt35) =
       {<<796705, 1680, 1050, 60, 160, 48, 32, 30, 3, 6, 119000>>}
  BY SMT DEF Dmt35, Dmt, ReducedRows, RowNumbers, Computed, Range
<1>2. StandardRows(Dmt35) =
       {<<796712, 1680, 1050, 60, 560, 104, 176, 39, 3, 6, 146250>>,
        <<796740, 1680, 1050, 75, 592, 120, 176, 49, 3, 6, 187000>>,
        <<796776, 1680, 1050, 85, 608, 128, 176, 55, 3, 6, 214750>>}
  BY SMT DEF Dmt35, Dmt, StandardRows, RowNumbers, Computed, Range
<1>3. \A t \in ReducedRows(Dmt35) : ByFormula(t, Reduced(t[2], t[3], t[4]))
  BY <1>1, Cvt1680x1050, SMT DEF ByFormula, CvtModes, Cvt
<1>4. \A t \in StandardRows(Dmt35) : ByFormula(t, Standard(t[2], t[3], t[4]))
  BY <1>2, Cvt1680x1050, SMT DEF ByFormula, CvtModes, Cvt
<1> QED BY <1>3, <1>4

(* The CVT rows from 3Dh on.                                              *)
LEMMA Dmt3DByCvt == \A r \in Range(Dmt3D) : r.cvt_id = 0
BY DEF Dmt3D, Dmt, Range

(* The CVT rows from 44h on.                                              *)
LEMMA Dmt44ByCvt ==
  (\A t \in ReducedRows(Dmt44) : ByFormula(t, Reduced(t[2], t[3], t[4])))
  /\ \A t \in StandardRows(Dmt44) : ByFormula(t, Standard(t[2], t[3], t[4]))
<1>1. ReducedRows(Dmt44) =
       {<<5711905, 1920, 1200, 60, 160, 48, 32, 35, 3, 6, 154000>>}
  BY SMT DEF Dmt44, Dmt, ReducedRows, RowNumbers, Computed, Range
<1>2. StandardRows(Dmt44) =
       {<<5711912, 1920, 1200, 60, 672, 136, 200, 45, 3, 6, 193250>>,
        <<5711940, 1920, 1200, 75, 688, 136, 208, 55, 3, 6, 245250>>,
        <<5711970, 1920, 1200, 85, 704, 144, 208, 62, 3, 6, 281250>>}
  BY SMT DEF Dmt44, Dmt, StandardRows, RowNumbers, Computed, Range
<1>3. \A t \in ReducedRows(Dmt44) : ByFormula(t, Reduced(t[2], t[3], t[4]))
  BY <1>1, Cvt1920x1200, SMT DEF ByFormula, CvtModes, Cvt
<1>4. \A t \in StandardRows(Dmt44) : ByFormula(t, Standard(t[2], t[3], t[4]))
  BY <1>2, Cvt1920x1200, SMT DEF ByFormula, CvtModes, Cvt
<1> QED BY <1>3, <1>4

(* The CVT rows from 54h on.                                              *)
LEMMA Dmt54ByCvt ==
  (\A t \in ReducedRows(Dmt54) : ByFormula(t, Reduced(t[2], t[3], t[4])))
  /\ \A t \in StandardRows(Dmt54) : ByFormula(t, Standard(t[2], t[3], t[4]))
<1>1. ReducedRows(Dmt54) =
       {<<2045985, 2560, 1600, 60, 160, 48, 32, 46, 3, 6, 268500>>}
  BY SMT DEF Dmt54, Dmt, ReducedRows, RowNumbers, Computed, Range
<1>2. StandardRows(Dmt54) =
       {<<2045992, 2560, 1600, 60, 944, 192, 280, 58, 3, 6, 348500>>,
        <<2046020, 2560, 1600, 75, 976, 208, 280, 72, 3, 6, 443250>>,
        <<2046050, 2560, 1600, 85, 976, 208, 280, 82, 3, 6, 505250>>}
  BY SMT DEF Dmt54, Dmt, StandardRows, RowNumbers, Computed, Range
<1>3. \A t \in ReducedRows(Dmt54) : ByFormula(t, Reduced(t[2], t[3], t[4]))
  BY <1>1, Cvt2560x1600, SMT DEF ByFormula, CvtModes, Cvt
<1>4. \A t \in StandardRows(Dmt54) : ByFormula(t, Standard(t[2], t[3], t[4]))
  BY <1>2, Cvt2560x1600, SMT DEF ByFormula, CvtModes, Cvt
<1> QED BY <1>3, <1>4

-----------------------------------------------------------------------------
(* The rows that a standard timing names, decoded from their own codes.    *)
Mode(t) == <<t[2], t[3], t[4]>>
Key(t) == 5 * t[2] + t[3] + t[4]
Decodes(t) ==
  LET timing == StandardTiming(t[1] \div 256, t[1] % 256)
  IN  /\ timing.horiz_video = t[2] /\ get_vert_video(timing) = t[3]
      /\ timing.refresh_rate_hz = t[4]
Between(s, low, high) ==
  /\ \A t \in Named(s) : Decodes(t) /\ Key(t) \in low..high
  /\ \A t \in Named(s) : \A u \in Named(s) : Mode(t) = Mode(u) => t[5] = u[5]

(* The width, the height of the aspect ratio, and the rate, by arithmetic.  *)
ByBits(t) ==
  LET b1 == t[1] % 256
      h == (t[1] \div 256 + 31) * 8
  IN  /\ t[1] \in Nat /\ t[2] = h /\ t[4] = (b1 % 64) + 60
      /\ b1 \div 64 = 0 => t[3] = (h * 10) \div 16
      /\ b1 \div 64 = 1 => t[3] = (h * 3) \div 4
      /\ b1 \div 64 = 2 => t[3] = (h * 4) \div 5
      /\ b1 \div 64 = 3 => t[3] = (h * 9) \div 16

(* That arithmetic is the one of the decoder.                              *)
LEMMA BitsDecode == ASSUME NEW t, ByBits(t) PROVE Decodes(t)
<1> DEFINE b1 == t[1] % 256
           a == b1 \div 64
           timing == StandardTiming(t[1] \div 256, b1)
<1>1. b1 \in Byte BY DEF ByBits, Byte
<1> HIDE DEF b1
<1>2. get_bit_range(b1, 7, 6) = a /\ a \in 0..3 BY <1>1, Fields, Parts
<1>3. get_bit_range(b1, 5, 0) = b1 % 64 BY <1>1 DEF get_bit_range, Byte
<1>4. /\ timing.horiz_video = (t[1] \div 256 + 31) * 8
      /\ timing.refresh_rate_hz = (b1 % 64) + 60
      /\ timing.aspect_ratio = StandardAspects[1 + a] BY <1>2, <1>3 DEF StandardTiming
<1>5. timing.horiz_video = t[2] /\ timing.refresh_rate_hz = t[4]
  BY <1>4 DEF ByBits, b1
<1>6. /\ a = 0 => timing.aspect_ratio = "16:10" /\ t[3] = (t[2] * 10) \div 16
      /\ a = 1 => timing.aspect_ratio = "4:3" /\ t[3] = (t[2] * 3) \div 4
      /\ a = 2 => timing.aspect_ratio = "5:4" /\ t[3] = (t[2] * 4) \div 5
      /\ a = 3 => timing.aspect_ratio = "16:9" /\ t[3] = (t[2] * 9) \div 16
  BY <1>4 DEF ByBits, StandardAspects, b1
<1> HIDE DEF timing, a
<1>7. ASSUME a = 0 PROVE get_vert_video(timing) = t[3] BY <1>5, <1>6, <1>7 DEF get_vert_video
<1>8. ASSUME a = 1 PROVE get_vert_video(timing) = t[3] BY <1>5, <1>6, <1>8 DEF get_vert_video
<1>9. ASSUME a = 2 PROVE get_vert_video(timing) = t[3] BY <1>5, <1>6, <1>9 DEF get_vert_video
<1>10. ASSUME a = 3 PROVE get_vert_video(timing) = t[3] BY <1>5, <1>6, <1>10 DEF get_vert_video
<1>11. get_vert_video(timing) = t[3] BY <1>2, <1>7, <1>8, <1>9, <1>10
<1> QED BY <1>5, <1>11 DEF Decodes, timing, b1

(* The rows from 01h on decode to their sizes and rates.                 *)
LEMMA Dmt01Named == Between(Dmt01, 3685, 3765)
<1>1. \A t \in Named(Dmt01) : Decodes(t)
  <2>1. \A t \in Named(Dmt01) : ByBits(t) BY Dmt01Rows, SMT DEF ByBits
  <2> QED BY <2>1, BitsDecode
<1>2. \A t \in Named(Dmt01) : Key(t) \in 3685..3765 BY Dmt01Rows, SMT DEF Key
<1>3. \A t \in Named(Dmt01) : \A u \in Named(Dmt01) : Mode(t) = Mode(u) => t[5] = u[5]
  BY Dmt01Rows, SMT DEF Mode
<1> QED BY <1>1, <1>2, <1>3, SMT DEF Between

(* The rows from 09h on decode to their sizes and rates.                 *)
LEMMA Dmt09Named == Between(Dmt09, 4660, 5948)
<1>1. \A t \in Named(Dmt09) : Decodes(t)
  <2>1. \A t \in Named(Dmt09) : ByBits(t) BY Dmt09Rows, SMT DEF ByBits
  <2> QED BY <2>1, BitsDecode
<1>2. \A t \in Named(Dmt09) : Key(t) \in 4660..5948 BY Dmt09Rows, SMT DEF Key
<1>3. \A t \in Named(Dmt09) : \A u \in Named(Dmt09) : Mode(t) = Mode(u) => t[5] = u[5]
  BY Dmt09Rows, SMT DEF Mode
<1> QED BY <1>1, <1>2, <1>3, SMT DEF Between

(* The rows from 11h on decode to their sizes and rates.                 *)
LEMMA Dmt11Named == Between(Dmt11, 5958, 7180)
<1>1. \A t \in Named(Dmt11) : Decodes(t)
  <2>1. \A t \in Named(Dmt11) : ByBits(t) BY Dmt11Rows, SMT DEF ByBits
  <2> QED BY <2>1, BitsDecode
<1>2. \A t \in Named(Dmt11) : Key(t) \in 5958..7180 BY Dmt11Rows, SMT DEF Key
<1>3. \A t \in Named(Dmt11) : \A u \in Named(Dmt11) : Mode(t) = Mode(u) => t[5] = u[5]
  BY Dmt11Rows, SMT DEF Mode
<1> QED BY <1>1, <1>2, <1>3, SMT DEF Between

(* The rows from 18h on decode to their sizes and rates.                 *)
LEMMA Dmt18Named == Between(Dmt18, 7260, 7285)
<1>1. \A t \in Named(Dmt18) : Decodes(t)
  <2>1. \A t \in Named(Dmt18) : ByBits(t) BY Dmt18Rows, SMT DEF ByBits
  <2> QED BY <2>1, BitsDecode
<1>2. \A t \in Named(Dmt18) : Key(t) \in 7260..7285 BY Dmt18Rows, SMT DEF Key
<1>3. \A t \in Named(Dmt18) : \A u \in Named(Dmt18) : Mode(t) = Mode(u) => t[5] = u[5]
  BY Dmt18Rows, SMT DEF Mode
<1> QED BY <1>1, <1>2, <1>3, SMT DEF Between

(* The rows from 20h on decode to their sizes and rates.                 *)
LEMMA Dmt20Named == Between(Dmt20, 7420, 7509)
<1>1. \A t \in Named(Dmt20) : Decodes(t)
  <2>1. \A t \in Named(Dmt20) : ByBits(t) BY Dmt20Rows, SMT DEF ByBits
  <2> QED BY <2>1, BitsDecode
<1>2. \A t \in Named(Dmt20) : Key(t) \in 7420..7509 BY Dmt20Rows, SMT DEF Key
<1>3. \A t \in Named(Dmt20) : \A u \in Named(Dmt20) : Mode(t) = Mode(u) => t[5] = u[5]
  BY Dmt20Rows, SMT DEF Mode
<1> QED BY <1>1, <1>2, <1>3, SMT DEF Between

(* The rows from 28h on decode to their sizes and rates.                 *)
LEMMA Dmt28Named == Between(Dmt28, 8110, 8135)
<1>1. \A t \in Named(Dmt28) : Decodes(t)
  <2>1. \A t \in Named(Dmt28) : ByBits(t) BY Dmt28Rows, SMT DEF ByBits
  <2> QED BY <2>1, BitsDecode
<1>2. \A t \in Named(Dmt28) : Key(t) \in 8110..8135 BY Dmt28Rows, SMT DEF Key
<1>3. \A t \in Named(Dmt28) : \A u \in Named(Dmt28) : Mode(t) = Mode(u) => t[5] = u[5]
  BY Dmt28Rows, SMT DEF Mode
<1> QED BY <1>1, <1>2, <1>3, SMT DEF Between

(* The rows from 2Eh on decode to their sizes and rates.                 *)
LEMMA Dmt2ENamed == Between(Dmt2E, 8160, 9265)
<1>1. \A t \in Named(Dmt2E) : Decodes(t)
  <2>1. \A t \in Named(Dmt2E) : ByBits(t) BY Dmt2ERows, SMT DEF ByBits
  <2> QED BY <2>1, BitsDecode
<1>2. \A t \in Named(Dmt2E) : Key(t) \in 8160..9265 BY Dmt2ERows, SMT DEF Key
<1>3. \A t \in Named(Dmt2E) : \A u \in Named(Dmt2E) : Mode(t) = Mode(u) => t[5] = u[5]
  BY Dmt2ERows, SMT DEF Mode
<1> QED BY <1>1, <1>2, <1>3, SMT DEF Between

(* The rows from 35h on decode to their sizes and rates.                 *)
LEMMA Dmt35Named == Between(Dmt35, 9270, 9535)
<1>1. \A t \in Named(Dmt35) : Decodes(t)
  <2>1. \A t \in Named(Dmt35) : ByBits(t) BY Dmt35Rows, SMT DEF ByBits
  <2> QED BY <2>1, BitsDecode
<1>2. \A t \in Named(Dmt35) : Key(t) \in 9270..9535 BY Dmt35Rows, SMT DEF Key
<1>3. \A t \in Named(Dmt35) : \A u \in Named(Dmt35) : Mode(t) = Mode(u) => t[5] = u[5]
  BY Dmt35Rows, SMT DEF Mode
<1> QED BY <1>1, <1>2, <1>3, SMT DEF Between

(* The rows from 3Dh on decode to their sizes and rates.                 *)
LEMMA Dmt3DNamed == Between(Dmt3D, 10364, 10747)
<1>1. \A t \in Named(Dmt3D) : Decodes(t)
  <2>1. \A t \in Named(Dmt3D) : ByBits(t) BY Dmt3DRows, SMT DEF ByBits
  <2> QED BY <2>1, BitsDecode
<1>2. \A t \in Named(Dmt3D) : Key(t) \in 10364..10747 BY Dmt3DRows, SMT DEF Key
<1>3. \A t \in Named(Dmt3D) : \A u \in Named(Dmt3D) : Mode(t) = Mode(u) => t[5] = u[5]
  BY Dmt3DRows, SMT DEF Mode
<1> QED BY <1>1, <1>2, <1>3, SMT DEF Between

(* The rows from 44h on decode to their sizes and rates.                 *)
LEMMA Dmt44Named == Between(Dmt44, 10860, 11115)
<1>1. \A t \in Named(Dmt44) : Decodes(t)
  <2>1. \A t \in Named(Dmt44) : ByBits(t) BY Dmt44Rows, SMT DEF ByBits
  <2> QED BY <2>1, BitsDecode
<1>2. \A t \in Named(Dmt44) : Key(t) \in 10860..11115 BY Dmt44Rows, SMT DEF Key
<1>3. \A t \in Named(Dmt44) : \A u \in Named(Dmt44) : Mode(t) = Mode(u) => t[5] = u[5]
  BY Dmt44Rows, SMT DEF Mode
<1> QED BY <1>1, <1>2, <1>3, SMT DEF Between

(* The rows from 54h on decode to their sizes and rates.                 *)
LEMMA Dmt54Named == Between(Dmt54, 11452, 11452)
<1>1. \A t \in Named(Dmt54) : Decodes(t)
  <2>1. \A t \in Named(Dmt54) : ByBits(t) BY Dmt54Rows, SMT DEF ByBits
  <2> QED BY <2>1, BitsDecode
<1>2. \A t \in Named(Dmt54) : Key(t) \in 11452..11452 BY Dmt54Rows, SMT DEF Key
<1>3. \A t \in Named(Dmt54) : \A u \in Named(Dmt54) : Mode(t) = Mode(u) => t[5] = u[5]
  BY Dmt54Rows, SMT DEF Mode
<1> QED BY <1>1, <1>2, <1>3, SMT DEF Between

(* The table is its chunks appended, and the ids of its rows are 1 to 86.  *)
LEMMA DmtRows ==
  /\ Chunk(DmtTimings) /\ Ids(DmtTimings) = 1..86
  /\ Range(DmtTimings) = Range(Dmt01) \cup Range(Dmt09) \cup Range(Dmt11) \cup
       Range(Dmt18) \cup Range(Dmt20) \cup Range(Dmt28) \cup Range(Dmt2E) \cup
       Range(Dmt35) \cup Range(Dmt3D) \cup Range(Dmt44) \cup Range(Dmt54)
<1>1. ASSUME NEW u, NEW v, Chunk(u), Chunk(v)
      PROVE  /\ Chunk(u \o v) /\ Ids(u \o v) = Ids(u) \cup Ids(v)
             /\ Range(u \o v) = Range(u) \cup Range(v)
  <2>1. Listing(u \o v) /\ Range(u \o v) = Range(u) \cup Range(v) BY <1>1, Appended DEF Chunk
  <2> QED BY <1>1, <2>1 DEF Chunk, Ids
<1>2. Chunk(Dmt01) /\ Chunk(Dmt09) /\ Chunk(Dmt11) /\ Chunk(Dmt18) /\ Chunk(Dmt20) /\
         Chunk(Dmt28) /\ Chunk(Dmt2E) /\ Chunk(Dmt35) /\ Chunk(Dmt3D) /\ Chunk(Dmt44) /\
         Chunk(Dmt54)
  BY Dmt01Rows, Dmt09Rows, Dmt11Rows, Dmt18Rows, Dmt20Rows, Dmt28Rows, Dmt2ERows, Dmt35Rows,
     Dmt3DRows, Dmt44Rows, Dmt54Rows
<1>3. /\ Chunk(DmtTimings)
      /\ Range(DmtTimings) = Range(Dmt01) \cup Range(Dmt09) \cup Range(Dmt11) \cup
           Range(Dmt18) \cup Range(Dmt20) \cup Range(Dmt28) \cup Range(Dmt2E) \cup
           Range(Dmt35) \cup Range(Dmt3D) \cup Range(Dmt44) \cup Range(Dmt54)
      /\ Ids(DmtTimings) = Ids(Dmt01) \cup Ids(Dmt09) \cup Ids(Dmt11) \cup Ids(Dmt18) \cup
           Ids(Dmt20) \cup Ids(Dmt28) \cup Ids(Dmt2E) \cup Ids(Dmt35) \cup Ids(Dmt3D) \cup
           Ids(Dmt44) \cup Ids(Dmt54)
  BY <1>1, <1>2 DEF DmtTimings
<1>4. Ids(DmtTimings) = {1, 2, 3, 4, 5, 6, 7, 8} \cup {9, 10, 11, 12, 13, 14, 15, 16} \cup
       {17, 18, 19, 20, 21, 85, 22, 23} \cup {24, 25, 26, 27, 28, 29, 30, 31} \cup
       {32, 33, 34, 35, 36, 37, 38, 39} \cup {40, 81, 86, 41, 42, 43, 44, 45} \cup
       {46, 47, 48, 49, 50, 83, 51, 52} \cup {53, 54, 55, 56, 57, 58, 59, 60} \cup
       {61, 62, 63, 64, 65, 66, 67, 82} \cup {68, 69, 70, 71, 72, 73, 74, 75} \cup
       {84, 76, 77, 78, 79, 80}
  BY <1>3, Dmt01Rows, Dmt09Rows, Dmt11Rows, Dmt18Rows, Dmt20Rows, Dmt28Rows, Dmt2ERows,
     Dmt35Rows, Dmt3DRows, Dmt44Rows, Dmt54Rows
<1>5. Ids(DmtTimings) = 1..86 BY <1>4
<1> QED BY <1>3, <1>5

(* A row that a standard timing names decodes to its own size and rate,    *)
(* and no other row has these.                                             *)
LEMMA DmtNamed ==
  /\ \A t \in Named(DmtTimings) : Decodes(t)
  /\ \A t, u \in Named(DmtTimings) : Mode(t) = Mode(u) => t[5] = u[5]
<1>1. Named(DmtTimings) = Named(Dmt01) \cup Named(Dmt09) \cup Named(Dmt11) \cup
       Named(Dmt18) \cup Named(Dmt20) \cup Named(Dmt28) \cup Named(Dmt2E) \cup
       Named(Dmt35) \cup Named(Dmt3D) \cup Named(Dmt44) \cup Named(Dmt54)
  BY DmtRows DEF Named
<1>2. Between(Dmt01, 3685, 3765) /\ Between(Dmt09, 4660, 5948) /\
      Between(Dmt11, 5958, 7180) /\ Between(Dmt18, 7260, 7285) /\
      Between(Dmt20, 7420, 7509) /\ Between(Dmt28, 8110, 8135) /\
      Between(Dmt2E, 8160, 9265) /\ Between(Dmt35, 9270, 9535) /\
      Between(Dmt3D, 10364, 10747) /\ Between(Dmt44, 10860, 11115) /\
      Between(Dmt54, 11452, 11452)
  BY SMT, Dmt01Named, Dmt09Named, Dmt11Named, Dmt18Named, Dmt20Named, Dmt28Named,
     Dmt2ENamed, Dmt35Named, Dmt3DNamed, Dmt44Named, Dmt54Named
<1>3. \A t \in Named(DmtTimings) : Decodes(t) BY <1>1, <1>2, SMT DEF Between
<1>4. ASSUME NEW t \in Named(DmtTimings), NEW u \in Named(DmtTimings), Mode(t) = Mode(u)
      PROVE  t[5] = u[5]
  <2> DEFINE k == Key(t)
  <2>1. Key(t) = k /\ Key(u) = k BY <1>4, SMT DEF Mode, Key
  <2> HIDE DEF k
  <2>2. t \in Named(Dmt01) \/ u \in Named(Dmt01) =>
         k \in Int /\ 3685 <= k /\ k <= 3765
    BY Dmt01Named, <2>1, SMT DEF Between
  <2>3. t \in Named(Dmt09) \/ u \in Named(Dmt09) =>
         k \in Int /\ 4660 <= k /\ k <= 5948
    BY Dmt09Named, <2>1, SMT DEF Between
  <2>4. t \in Named(Dmt11) \/ u \in Named(Dmt11) =>
         k \in Int /\ 5958 <= k /\ k <= 7180
    BY Dmt11Named, <2>1, SMT DEF Between
  <2>5. t \in Named(Dmt18) \/ u \in Named(Dmt18) =>
         k \in Int /\ 7260 <= k /\ k <= 7285
    BY Dmt18Named, <2>1, SMT DEF Between
  <2>6. t \in Named(Dmt20) \/ u \in Named(Dmt20) =>
         k \in Int /\ 7420 <= k /\ k <= 7509
    BY Dmt20Named, <2>1, SMT DEF Between
  <2>7. t \in Named(Dmt28) \/ u \in Named(Dmt28) =>
         k \in Int /\ 8110 <= k /\ k <= 8135
    BY Dmt28Named, <2>1, SMT DEF Between
  <2>8. t \in Named(Dmt2E) \/ u \in Named(Dmt2E) =>
         k \in Int /\ 8160 <= k /\ k <= 9265
    BY Dmt2ENamed, <2>1, SMT DEF Between
  <2>9. t \in Named(Dmt35) \/ u \in Named(Dmt35) =>
         k \in Int /\ 9270 <= k /\ k <= 9535
    BY Dmt35Named, <2>1, SMT DEF Between
  <2>10. t \in Named(Dmt3D) \/ u \in Named(Dmt3D) =>
         k \in Int /\ 10364 <= k /\ k <= 10747
    BY Dmt3DNamed, <2>1, SMT DEF Between
  <2>11. t \in Named(Dmt44) \/ u \in Named(Dmt44) =>
         k \in Int /\ 10860 <= k /\ k <= 11115
    BY Dmt44Named, <2>1, SMT DEF Between
  <2>12. t \in Named(Dmt54) \/ u \in Named(Dmt54) =>
         k \in Int /\ 11452 <= k /\ k <= 11452
    BY Dmt54Named, <2>1, SMT DEF Between
  <2>13. u \in Named(Dmt01) \/ u \in Named(Dmt09) \/ u \in Named(Dmt11) \/
         u \in Named(Dmt18) \/ u \in Named(Dmt20) \/ u \in Named(Dmt28) \/
         u \in Named(Dmt2E) \/ u \in Named(Dmt35) \/ u \in Named(Dmt3D) \/
         u \in Named(Dmt44) \/ u \in Named(Dmt54)
    BY <1>1
  <2>14. CASE t \in Named(Dmt01)
    <3>1. u \in Named(Dmt01)
      BY <2>13, <2>2, <2>3, <2>4, <2>5, <2>6, <2>7, <2>8, <2>9,
         <2>10, <2>11, <2>12, <2>14, SMT
    <3> QED BY Dmt01Named, <1>4, <2>14, <3>1, SMT DEF Between
  <2>15. CASE t \in Named(Dmt09)
    <3>1. u \in Named(Dmt09)
      BY <2>13, <2>2, <2>3, <2>4, <2>5, <2>6, <2>7, <2>8, <2>9,
         <2>10, <2>11, <2>12, <2>15, SMT
    <3> QED BY Dmt09Named, <1>4, <2>15, <3>1, SMT DEF Between
  <2>16. CASE t \in Named(Dmt11)
    <3>1. u \in Named(Dmt11)
      BY <2>13, <2>2, <2>3, <2>4, <2>5, <2>6, <2>7, <2>8, <2>9,
         <2>10, <2>11, <2>12, <2>16, SMT
    <3> QED BY Dmt11Named, <1>4, <2>16, <3>1, SMT DEF Between
  <2>17. CASE t \in Named(Dmt18)
    <3>1. u \in Named(Dmt18)
      BY <2>13, <2>2, <2>3, <2>4, <2>5, <2>6, <2>7, <2>8, <2>9,
         <2>10, <2>11, <2>12, <2>17, SMT
    <3> QED BY Dmt18Named, <1>4, <2>17, <3>1, SMT DEF Between
  <2>18. CASE t \in Named(Dmt20)
    <3>1. u \in Named(Dmt20)
      BY <2>13, <2>2, <2>3, <2>4, <2>5, <2>6, <2>7, <2>8, <2>9,
         <2>10, <2>11, <2>12, <2>18, SMT
    <3> QED BY Dmt20Named, <1>4, <2>18, <3>1, SMT DEF Between
  <2>19. CASE t \in Named(Dmt28)
    <3>1. u \in Named(Dmt28)
      BY <2>13, <2>2, <2>3, <2>4, <2>5, <2>6, <2>7, <2>8, <2>9,
         <2>10, <2>11, <2>12, <2>19, SMT
    <3> QED BY Dmt28Named, <1>4, <2>19, <3>1, SMT DEF Between
  <2>20. CASE t \in Named(Dmt2E)
    <3>1. u \in Named(Dmt2E)
      BY <2>13, <2>2, <2>3, <2>4, <2>5, <2>6, <2>7, <2>8, <2>9,
         <2>10, <2>11, <2>12, <2>20, SMT
    <3> QED BY Dmt2ENamed, <1>4, <2>20, <3>1, SMT DEF Between
  <2>21. CASE t \in Named(Dmt35)
    <3>1. u \in Named(Dmt35)
      BY <2>13, <2>2, <2>3, <2>4, <2>5, <2>6, <2>7, <2>8, <2>9,
         <2>10, <2>11, <2>12, <2>21, SMT
    <3> QED BY Dmt35Named, <1>4, <2>21, <3>1, SMT DEF Between
  <2>22. CASE t \in Named(Dmt3D)
    <3>1. u \in Named(Dmt3D)
      BY <2>13, <2>2, <2>3, <2>4, <2>5, <2>6, <2>7, <2>8, <2>9,
         <2>10, <2>11, <2>12, <2>22, SMT
    <3> QED BY Dmt3DNamed, <1>4, <2>22, <3>1, SMT DEF Between
  <2>23. CASE t \in Named(Dmt44)
    <3>1. u \in Named(Dmt44)
      BY <2>13, <2>2, <2>3, <2>4, <2>5, <2>6, <2>7, <2>8, <2>9,
         <2>10, <2>11, <2>12, <2>23, SMT
    <3> QED BY Dmt44Named, <1>4, <2>23, <3>1, SMT DEF Between
  <2>24. CASE t \in Named(Dmt54)
    <3>1. u \in Named(Dmt54)
      BY <2>13, <2>2, <2>3, <2>4, <2>5, <2>6, <2>7, <2>8, <2>9,
         <2>10, <2>11, <2>12, <2>24, SMT
    <3> QED BY Dmt54Named, <1>4, <2>24, <3>1, SMT DEF Between
  <2> QED BY <1>1, <2>13, <2>14, <2>15, <2>16, <2>17, <2>18, <2>19, <2>20, <2>21,
            <2>22, <2>23, <2>24
<1> QED BY <1>3, <1>4

(* So do the rows that CVT computes.                                       *)
LEMMA DmtByCvt ==
  ASSUME NEW r \in Range(DmtTimings), r.cvt_id # 0, r.reduced_blanking \in BOOLEAN
  PROVE  ByFormula(RowNumbers(r),
                   IF r.reduced_blanking
                   THEN Reduced(r.horiz_video, r.vert_video, r.refresh_rate_hz)
                   ELSE Standard(r.horiz_video, r.vert_video, r.refresh_rate_hz))
<1> DEFINE t == RowNumbers(r)
<1>1. t[2] = r.horiz_video /\ t[3] = r.vert_video /\ t[4] = r.refresh_rate_hz BY DEF RowNumbers
<1>2. PICK s \in {Dmt01, Dmt09, Dmt11, Dmt18, Dmt20, Dmt28, Dmt2E, Dmt35, Dmt3D, Dmt44,
       Dmt54} : r \in Range(s) BY DmtRows
<1>3. r.reduced_blanking => t \in ReducedRows(s) BY <1>2 DEF ReducedRows, Computed
<1>4. ~r.reduced_blanking => t \in StandardRows(s) BY <1>2 DEF StandardRows, Computed
<1>5. /\ \A u \in ReducedRows(s) : ByFormula(u, Reduced(u[2], u[3], u[4]))
      /\ \A u \in StandardRows(s) : ByFormula(u, Standard(u[2], u[3], u[4]))
  <2>1. CASE s = Dmt01 BY <1>2, <2>1, Dmt01ByCvt DEF ReducedRows, StandardRows, Computed
  <2>2. CASE s = Dmt09 BY <1>2, <2>2, Dmt09ByCvt DEF ReducedRows, StandardRows, Computed
  <2>3. CASE s = Dmt11 BY <1>2, <2>3, Dmt11ByCvt
  <2>4. CASE s = Dmt18 BY <1>2, <2>4, Dmt18ByCvt
  <2>5. CASE s = Dmt20 BY <1>2, <2>5, Dmt20ByCvt DEF ReducedRows, StandardRows, Computed
  <2>6. CASE s = Dmt28 BY <1>2, <2>6, Dmt28ByCvt
  <2>7. CASE s = Dmt2E BY <1>2, <2>7, Dmt2EByCvt
  <2>8. CASE s = Dmt35 BY <1>2, <2>8, Dmt35ByCvt
  <2>9. CASE s = Dmt3D BY <1>2, <2>9, Dmt3DByCvt DEF ReducedRows, StandardRows, Computed
  <2>10. CASE s = Dmt44 BY <1>2, <2>10, Dmt44ByCvt
  <2>11. CASE s = Dmt54 BY <1>2, <2>11, Dmt54ByCvt
  <2> QED BY <1>2, <2>1, <2>2, <2>3, <2>4, <2>5, <2>6, <2>7, <2>8, <2>9, <2>10, <2>11
<1> HIDE DEF t
<1>6. CASE r.reduced_blanking BY <1>1, <1>3, <1>5, <1>6 DEF t
<1>7. CASE ~r.reduced_blanking BY <1>1, <1>4, <1>5, <1>7 DEF t
<1> QED BY <1>6, <1>7 DEF t

-----------------------------------------------------------------------------
(* Looking a timing up by its id finds it, for every id the table has.     *)
LEMMA DmtById ==
  ASSUME NEW id \in 1..86
  PROVE  get_dmt_timing(id) # NULL /\ get_dmt_timing(id).dmt_id = id
<1> DEFINE places == {k \in DOMAIN DmtTimings : DmtTimings[k].dmt_id = id}
           row == DmtTimings[Min(places)]
<1>1. /\ Len(DmtTimings) \in Nat /\ DOMAIN DmtTimings = 1..Len(DmtTimings)
      /\ NULL \notin Range(DmtTimings) /\ id \in Ids(DmtTimings)
  BY DmtRows DEF Chunk, Listing
<1>2. PICK k \in DOMAIN DmtTimings : DmtTimings[k].dmt_id = id BY <1>1 DEF Ids, Range
<1>3. places \in SUBSET Nat /\ places # {} BY <1>1, <1>2
<1>4. Min(places) \in places BY <1>3, MinIsLeast
<1>5. row \in Range(DmtTimings) /\ row.dmt_id = id BY <1>4 DEF Range
<1>6. get_dmt_timing(id) = row BY <1>3 DEF get_dmt_timing, FirstOf
<1> QED BY <1>1, <1>5, <1>6

(* A standard timing that fits a row of the table is given a row, and one  *)
(* of the same size and rate.                                              *)
LEMMA DmtByTiming ==
  ASSUME NEW t, NEW k \in DOMAIN DmtTimings,
         DmtTimings[k].edid_std_id # 0, DmtTimings[k].horiz_video = t.horiz_video,
         DmtTimings[k].vert_video = get_vert_video(t),
         DmtTimings[k].refresh_rate_hz = t.refresh_rate_hz
  PROVE  get_dmt(t) # NULL /\ get_dmt(t).dmt_id = DmtTimings[k].dmt_id
<1> DEFINE Fits(d) == /\ d.horiz_video = t.horiz_video
                      /\ d.vert_video = get_vert_video(t)
                      /\ d.refresh_rate_hz = t.refresh_rate_hz
                      /\ d.edid_std_id # 0
           places == {j \in DOMAIN DmtTimings : Fits(DmtTimings[j])}
           row == DmtTimings[Min(places)]
           Tuple(d) == <<d.edid_std_id, d.horiz_video, d.vert_video, d.refresh_rate_hz, d.dmt_id>>
<1>1. /\ Len(DmtTimings) \in Nat /\ DOMAIN DmtTimings = 1..Len(DmtTimings)
      /\ NULL \notin Range(DmtTimings)
  BY DmtRows DEF Chunk, Listing
<1>2. k \in places OBVIOUS
<1>3. places \in SUBSET Nat /\ places # {} BY <1>1, <1>2
<1>4. Min(places) \in places BY <1>3, MinIsLeast
<1>5. row \in Range(DmtTimings) /\ Fits(row) BY <1>4 DEF Range
<1>6. get_dmt(t) = row BY <1>3 DEF get_dmt, FirstOf
<1>7. DmtTimings[k] \in Range(DmtTimings) /\ Fits(DmtTimings[k]) BY DEF Range
<1> HIDE DEF row, places
<1>8. \A d \in Range(DmtTimings) : Fits(d) => Tuple(d) \in Named(DmtTimings) BY DEF Named
<1>9. \A d, e : Fits(d) /\ Fits(e) => Mode(Tuple(d)) = Mode(Tuple(e)) BY DEF Mode
<1>10. \A d : Tuple(d)[5] = d.dmt_id OBVIOUS
<1>11. row.dmt_id = DmtTimings[k].dmt_id
  <2> HIDE DEF Tuple, Fits
  <2> QED BY <1>5, <1>7, <1>8, <1>9, <1>10, DmtNamed
<1> QED BY <1>1, <1>5, <1>6, <1>11

(* What is decoded of a standard timing, and what is printed of it.        *)
LEMMA StandardSeen ==
  ASSUME IInv, kind = "standard", pc = "printed"
  PROVE  /\ data[1] \in 1..255 /\ data[2] \in Byte
         /\ result.value = StandardTiming(data[1], data[2])
         /\ lines = {StandardLine(StandardTiming(data[1], data[2]))}
<1>1. data \in Byte \X Byte BY DEF IInv, Given, DataForm
<1>2. result.kept = TRUE BY DEF IInv, Control, Seen
<1>3. result = parse_standard_timing(rev, data[1], data[2]) BY DEF IInv, Decoded
<1>4. data[1] # 0 /\ result.value = StandardTiming(data[1], data[2])
  BY <1>2, <1>3 DEF parse_standard_timing, Kept, Dropped
<1>5. lines = {StandardLine(result.value)} BY DEF IInv, Printed
<1> QED BY <1>1, <1>4, <1>5 DEF Byte

(* The code the table gives a timing, found in an EDID, is printed as that *)
(* timing.                                                                 *)
LEMMA StdIds == IInv => StdIdRoundTrip
<1> SUFFICES ASSUME IInv, kind = "standard", pc = "printed", NEW k \in DOMAIN DmtTimings,
                    DmtTimings[k].edid_std_id = Word(data[1], data[2]), NEW l \in lines
             PROVE  l[1] = "DMT" /\ l[2] = DmtTimings[k].dmt_id
  BY DEF StdIdRoundTrip
<1> DEFINE b0 == data[1]
           b1 == data[2]
           t == StandardTiming(b0, b1)
           row == DmtTimings[k]
           n == <<row.edid_std_id, row.horiz_video, row.vert_video, row.refresh_rate_hz, row.dmt_id>>
<1>1. b0 \in 1..255 /\ b1 \in Byte /\ l = StandardLine(t) BY StandardSeen
<1> HIDE DEF b0, b1
<1>2. /\ Word(b0, b1) # 0 /\ Word(b0, b1) \div 256 = b0 /\ Word(b0, b1) % 256 = b1
  BY <1>1 DEF Word, Byte
<1>3. row.edid_std_id = Word(b0, b1) BY DEF b0, b1
<1>4. n \in Named(DmtTimings) BY <1>2, <1>3 DEF Named, Range
<1>5. Decodes(n) BY <1>4, DmtNamed
<1>6. n[1] = Word(b0, b1) /\ n[2] = row.horiz_video /\ n[3] = row.vert_video
      /\ n[4] = row.refresh_rate_hz BY <1>3
<1> HIDE DEF n
<1>7. /\ t.horiz_video = row.horiz_video /\ get_vert_video(t) = row.vert_video
      /\ t.refresh_rate_hz = row.refresh_rate_hz
  BY <1>2, <1>5, <1>6 DEF Decodes
<1> HIDE DEF t
<1>8. get_dmt(t) # NULL /\ get_dmt(t).dmt_id = row.dmt_id BY <1>2, <1>3, <1>7, DmtByTiming
<1> QED BY <1>1, <1>8 DEF StandardLine

(* A standard timing without a row is printed as a timing of its own rate. *)
LEMMA GtfRates == IInv => GtfRateIsNamed
<1> SUFFICES ASSUME IInv, kind = "standard", pc = "printed", NEW l \in lines, l[1] = "GTF"
             PROVE  LET t == l[2]
                        horiz_total == t.h_pixels + t.h_front_porch + t.h_sync + t.h_back_porch
                        vert_total == t.v_lines + t.v_front_porch + t.v_sync + t.v_back_porch
                        named == result.value.refresh_rate_hz * horiz_total * vert_total
                    IN  1000 * t.pixel_freq_khz \in (named - 500)..(named + 500)
  BY DEF GtfRateIsNamed
<1> DEFINE s == StandardTiming(data[1], data[2])
           h == s.horiz_video
           v == get_vert_video(s)
           hz == s.refresh_rate_hz
<1>1. data[1] \in Byte /\ data[2] \in Byte /\ result.value = s /\ l = StandardLine(s)
  BY StandardSeen DEF Byte
<1>2. h \in Nat /\ hz \in 60..123 /\ v \in Nat BY <1>1, VertVideo
<1>3. result.value.refresh_rate_hz = hz BY <1>1
<1> HIDE DEF s
<1>4. l[2] = di_gtf_compute(h, v, hz) BY <1>1 DEF StandardLine
<1> HIDE DEF h, v, hz
<1>5. hz \in 1..1000 BY <1>2
<1>6. Refreshes(di_gtf_compute(h, v, hz), hz)
  <2>1. \A x, y \in Nat, r \in 1..1000 : Refreshes(di_gtf_compute(x, y, r), r) BY GtfRate
  <2> QED BY <1>2, <1>5, <2>1
<1>7. Refreshes(l[2], hz) BY <1>4, <1>6
<1> QED BY <1>3, <1>7 DEF Refreshes
(* The width and the height of a timing code of a mode of the table.       *)
LEMMA CvtModeSize ==
  ASSUME NEW b \in Byte \X Byte \X Byte, NEW h, NEW v, <<Word(b[1], b[2]), h, v>> \in CvtModes
  PROVE  CvtWidth(CvtTimingCode(b)) = h /\ CvtTimingCode(b).addressable_lines = v
<1> DEFINE code == CvtTimingCode(b)
           x == b[1]
           y == b[2]
<1>1. x \in Byte /\ y \in Byte OBVIOUS
<1> HIDE DEF x, y
<1>2. /\ code.addressable_lines = (x + 256 * get_bit_range(y, 7, 4) + 1) * 2
      /\ code.aspect_ratio = CvtAspects[1 + get_bit_range(y, 3, 2)]
  BY DEF CvtTimingCode, x, y
<1>3. get_bit_range(y, 7, 4) = y \div 16 /\ get_bit_range(y, 3, 2) = (y \div 4) % 4
  BY <1>1, Fields
<1>4. <<256 * x + y, h, v>> \in CvtModes BY DEF Word, x, y
<1>5. CvtWidth(code) =
        8 * (((code.addressable_lines * code.aspect_ratio[1]) \div code.aspect_ratio[2]) \div 8)
  BY DEF CvtWidth
<1> SUFFICES CvtWidth(code) = h /\ code.addressable_lines = v OBVIOUS
<1> HIDE DEF code
<1> USE DEF Byte, CvtAspects
<1>6. CASE 256 * x + y = 32540 /\ h = 1280 /\ v = 768
  <2>1. x = 127 /\ y = 28 BY <1>1, <1>6
  <2>2. code.addressable_lines = 768 /\ code.aspect_ratio = <<15, 9>> BY <1>2, <1>3, <2>1, SMT
  <2> QED BY <1>5, <1>6, <2>2, SMT
<1>7. CASE 256 * x + y = 36632 /\ h = 1280 /\ v = 800
  <2>1. x = 143 /\ y = 24 BY <1>1, <1>7
  <2>2. code.addressable_lines = 800 /\ code.aspect_ratio = <<16, 10>> BY <1>2, <1>3, <2>1, SMT
  <2> QED BY <1>5, <1>7, <2>2, SMT
<1>8. CASE 256 * x + y = 3104 /\ h = 1400 /\ v = 1050
  <2>1. x = 12 /\ y = 32 BY <1>1, <1>8
  <2>2. code.addressable_lines = 1050 /\ code.aspect_ratio = <<4, 3>> BY <1>2, <1>3, <2>1, SMT
  <2> QED BY <1>5, <1>8, <2>2, SMT
<1>9. CASE 256 * x + y = 49432 /\ h = 1440 /\ v = 900
  <2>1. x = 193 /\ y = 24 BY <1>1, <1>9
  <2>2. code.addressable_lines = 900 /\ code.aspect_ratio = <<16, 10>> BY <1>2, <1>3, <2>1, SMT
  <2> QED BY <1>5, <1>9, <2>2, SMT
<1>10. CASE 256 * x + y = 3112 /\ h = 1680 /\ v = 1050
  <2>1. x = 12 /\ y = 40 BY <1>1, <1>10
  <2>2. code.addressable_lines = 1050 /\ code.aspect_ratio = <<16, 10>> BY <1>2, <1>3, <2>1, SMT
  <2> QED BY <1>5, <1>10, <2>2, SMT
<1>11. CASE 256 * x + y = 22312 /\ h = 1920 /\ v = 1200
  <2>1. x = 87 /\ y = 40 BY <1>1, <1>11
  <2>2. code.addressable_lines = 1200 /\ code.aspect_ratio = <<16, 10>> BY <1>2, <1>3, <2>1, SMT
  <2> QED BY <1>5, <1>11, <2>2, SMT
<1>12. CASE 256 * x + y = 7992 /\ h = 2560 /\ v = 1600
  <2>1. x = 31 /\ y = 56 BY <1>1, <1>12
  <2>2. code.addressable_lines = 1600 /\ code.aspect_ratio = <<16, 10>> BY <1>2, <1>3, <2>1, SMT
  <2> QED BY <1>5, <1>12, <2>2, SMT
<1> QED BY <1>4, <1>6, <1>7, <1>8, <1>9, <1>10, <1>11, <1>12, SMT DEF CvtModes

(* The timing of a printed line is the formula's, reduced or not.          *)
LEMMA CvtLineTiming ==
  ASSUME NEW code, NEW line \in CvtLines(code), code.reduced_60hz \in BOOLEAN
  PROVE  /\ line.reduced \in BOOLEAN
         /\ line.timing = IF line.reduced
                          THEN Reduced(CvtWidth(code), code.addressable_lines, line.hz)
                          ELSE Standard(CvtWidth(code), code.addressable_lines, line.hz)
<1> DEFINE w == CvtWidth(code)
           n == code.addressable_lines
           std(hz, mark) == CvtLine(code, hz, FALSE, mark)
           red(mark) == CvtLine(code, 60, TRUE, mark)
<1>1. \A hz, mark : /\ std(hz, mark).hz = hz /\ std(hz, mark).reduced = FALSE
                    /\ std(hz, mark).timing = Standard(w, n, hz)
  BY DEF CvtLine, di_cvt_compute, Standard
<1>2. \A mark : /\ red(mark).hz = 60 /\ red(mark).reduced = TRUE
                /\ red(mark).timing = Reduced(w, n, 60)
  BY DEF CvtLine, di_cvt_compute, Reduced
<1>3. (\E hz, mark : line = std(hz, mark)) \/ \E mark : line = red(mark)
  BY Zenon DEF CvtLines, If
<1> HIDE DEF std, red
<1>4. ASSUME NEW hz, NEW mark, line = std(hz, mark)
      PROVE  /\ line.reduced \in BOOLEAN
             /\ line.timing = IF line.reduced THEN Reduced(w, n, line.hz)
                              ELSE Standard(w, n, line.hz)
  <2>1. line.hz = hz /\ line.reduced = FALSE /\ line.timing = Standard(w, n, hz) BY <1>1, <1>4
  <2> QED BY <2>1
<1>5. ASSUME NEW mark, line = red(mark)
      PROVE  /\ line.reduced \in BOOLEAN
             /\ line.timing = IF line.reduced THEN Reduced(w, n, line.hz)
                              ELSE Standard(w, n, line.hz)
  <2>1. line.hz = 60 /\ line.reduced = TRUE /\ line.timing = Reduced(w, n, 60) BY <1>2, <1>5
  <2> QED BY <2>1
<1> QED BY <1>3, <1>4, <1>5

(* The code the table gives a timing that CVT computes, found in an EDID,  *)
(* is printed with the numbers of the table.                               *)
LEMMA CvtIds == IInv => CvtIdAgrees
<1> SUFFICES ASSUME IInv, kind = "cvt", pc = "printed", NEW k \in DOMAIN DmtTimings,
                    DmtTimings[k].cvt_id = 256 * Word(data[1], data[2]) + data[3],
                    DmtTimings[k].cvt_id # 0, NEW l \in lines,
                    l[2].hz = DmtTimings[k].refresh_rate_hz,
                    l[2].reduced = DmtTimings[k].reduced_blanking
             PROVE  AgreesWithRow(l[2], DmtTimings[k])
  BY DEF CvtIdAgrees
<1> DEFINE row == DmtTimings[k]
           code == CvtTimingCode(data)
           t == RowNumbers(row)
<1>1. data \in Byte \X Byte \X Byte BY DEF IInv, Given, DataForm
<1>2. result.kept = TRUE BY DEF IInv, Control, Seen
<1>3. result = parse_cvt_timing_code(data, context) BY DEF IInv, Decoded
<1>4. result.value = code BY <1>2, <1>3 DEF parse_cvt_timing_code, Kept, Dropped
<1>5. lines = {<<"CVT", line>> : line \in CvtLines(code)} BY <1>4 DEF IInv, Printed
<1>6. code.reduced_60hz \in BOOLEAN BY DEF CvtTimingCode, has_bit
<1>7. l[2] \in CvtLines(code) BY <1>5
<1>8. row \in Range(DmtTimings) BY DEF Range
<1> HIDE DEF row
<1>9. /\ l[2].reduced \in BOOLEAN
      /\ l[2].timing = IF l[2].reduced THEN Reduced(CvtWidth(code), code.addressable_lines, l[2].hz)
                       ELSE Standard(CvtWidth(code), code.addressable_lines, l[2].hz)
  <2> HIDE DEF code
  <2> QED BY <1>6, <1>7, CvtLineTiming
<1>10. row.reduced_blanking \in BOOLEAN BY <1>9 DEF row
<1>11. ByFormula(t, IF row.reduced_blanking
                    THEN Reduced(row.horiz_video, row.vert_video, row.refresh_rate_hz)
                    ELSE Standard(row.horiz_video, row.vert_video, row.refresh_rate_hz))
  <2>1. row.cvt_id # 0 BY DEF row
  <2> QED BY <1>8, <1>10, <2>1, DmtByCvt
<1>12. t[1] = row.cvt_id /\ t[2] = row.horiz_video /\ t[3] = row.vert_video BY DEF RowNumbers
<1>13. t[1] \div 256 = Word(data[1], data[2])
  <2> DEFINE x == data[1]
             y == data[2]
             z == data[3]
             id == row.cvt_id
  <2>1. x \in Byte /\ y \in Byte /\ z \in Byte BY <1>1
  <2>2. id = 256 * Word(x, y) + z BY DEF row
  <2> HIDE DEF x, y, z, id
  <2>3. id \div 256 = Word(x, y)
    <3>1. Word(x, y) \in Nat BY <2>1, Halves
    <3> QED BY <2>1, <2>2, <3>1 DEF Byte
  <2> QED BY <1>12, <2>3 DEF x, y, id
<1>14. <<Word(data[1], data[2]), row.horiz_video, row.vert_video>> \in CvtModes
  BY <1>11, <1>12, <1>13 DEF ByFormula
<1>15. CvtWidth(code) = row.horiz_video /\ code.addressable_lines = row.vert_video
  BY <1>1, <1>14, CvtModeSize
<1> HIDE DEF t, code
<1>16. l[2].hz = row.refresh_rate_hz /\ l[2].reduced = row.reduced_blanking BY DEF row
<1>17. ByFormula(t, l[2].timing)
  BY <1>9, <1>10, <1>11, <1>15, <1>16
<1>18. AgreesWithRow(l[2], row) BY <1>17 DEF ByFormula, AgreesWithRow, t, RowNumbers
<1> QED BY <1>18 DEF row
(* The bits of established timings III stand for ids of the table, no two  *)
(* for the same.                                                           *)
LEMMA EstablishedIds ==
  /\ \A i \in 1..44 : established_timings_iii[i] \in 1..86
  /\ \A i, j \in 1..44 : established_timings_iii[i] = established_timings_iii[j] => i = j
<1>1. \A i \in 1..44 : established_timings_iii[i] \in 1..86 BY SMT DEF established_timings_iii
<1>2. \A i, j \in 1..44 : established_timings_iii[i] = established_timings_iii[j] => i = j
  BY SMT DEF established_timings_iii
<1> QED BY <1>1, <1>2

(* A table of N entries is a list of N entries.                            *)
LEMMA TableIsSeq ==
  ASSUME NEW N \in Nat, NEW A, NEW s \in [1..N -> A]
  PROVE  s \in Seq(A) /\ Len(s) = N
<1>1. s \in Seq(A) OBVIOUS
<1>2. DOMAIN s = 1..N /\ DOMAIN s = 1..Len(s) /\ Len(s) \in Nat BY <1>1
<1>3. Len(s) = N
  <2>1. CASE N = 0 BY <1>2, <2>1
  <2>2. CASE N > 0 BY <1>2, <2>2
  <2> QED BY <2>1, <2>2
<1> QED BY <1>1, <1>3

(* Each bit set gives a timing of its own.                                 *)
LEMMA EstablishedRows ==
  ASSUME NEW d
  PROVE  LET rows == EstablishedIii(d)
             bits == {k \in 0..43 : has_bit(d[6 + k \div 8], 7 - (k % 8))}
         IN  /\ \A k \in DOMAIN rows : rows[k] # NULL
             /\ Cardinality({rows[k].dmt_id : k \in DOMAIN rows}) = Cardinality(bits)
<1> DEFINE set == {i \in 1..44 : has_bit(d[6 + (i - 1) \div 8], 7 - ((i - 1) % 8))}
           id(i) == established_timings_iii[i]
           all == [i \in 1..44 |-> get_dmt_timing(id(i))]
           A == {get_dmt_timing(id(i)) : i \in 1..44}
           rows == Picked(all, set)
           bits == {k \in 0..43 : has_bit(d[6 + k \div 8], 7 - (k % 8))}
           ids == {rows[k].dmt_id : k \in DOMAIN rows}
<1>1. EstablishedIii(d) = rows BY DEF EstablishedIii
<1>2. all \in Seq(A) /\ Len(all) = 44
  <2>1. all \in [1..44 -> A] OBVIOUS
  <2> HIDE DEF all, A
  <2> QED BY <2>1, TableIsSeq
<1>3. \A i \in 1..44 : all[i] # NULL /\ all[i].dmt_id = id(i)
  BY EstablishedIds, DmtById
<1> HIDE DEF all, A
<1>4. /\ \A k \in DOMAIN rows : \E i \in 1..44 \cap set : rows[k] = all[i]
      /\ \A i \in 1..44 \cap set : \E k \in DOMAIN rows : rows[k] = all[i]
  <2> HIDE DEF set
  <2>1. (1..Len(all)) = 1..44 BY <1>2
  <2>2. /\ \A k \in DOMAIN rows : \E i \in (1..Len(all)) \cap set : rows[k] = all[i]
        /\ \A i \in (1..Len(all)) \cap set : \E k \in DOMAIN rows : rows[k] = all[i]
    <3>1. all \in Seq(A) BY <1>2
    <3>2. PICK p : p = Picked(all, set) OBVIOUS
    <3>3. /\ \A k \in DOMAIN p : \E i \in (1..Len(all)) \cap set : p[k] = all[i]
          /\ \A i \in (1..Len(all)) \cap set : \E k \in DOMAIN p : p[k] = all[i]
      <4> HIDE DEF rows, bits, ids, id
      <4> QED BY <3>1, <3>2, PickedElements
    <3> QED BY <3>2, <3>3
  <2> QED BY <2>1, <2>2
<1> HIDE DEF rows
<1>5. \A k \in DOMAIN rows : rows[k] # NULL BY <1>3, <1>4
<1>6. \A i \in 1..44, j \in 1..44 : id(i) = id(j) => i = j BY EstablishedIds
<1>7. \A k \in 0..43 : k + 1 \in 1..44 /\ (k \in bits <=> k + 1 \in set)
  <2> SUFFICES ASSUME NEW k \in 0..43 PROVE k + 1 \in 1..44 /\ (k \in bits <=> k + 1 \in set)
    OBVIOUS
  <2>1. (k + 1) - 1 = k /\ k + 1 \in 1..44 OBVIOUS
  <2> QED BY <2>1
<1>8. \A i \in set : i \in 1..44 /\ i - 1 \in bits /\ (i - 1) + 1 = i
  <2> SUFFICES ASSUME NEW i \in set PROVE i \in 1..44 /\ i - 1 \in bits /\ (i - 1) + 1 = i
    OBVIOUS
  <2>1. i \in 1..44 /\ i - 1 \in 0..43 /\ (i - 1) + 1 = i OBVIOUS
  <2> QED BY <1>7, <2>1
<1>9. bits \subseteq 0..43 OBVIOUS
<1> HIDE DEF set, bits, id
<1> DEFINE f == [k \in bits |-> id(k + 1)]
<1>10. \A k \in bits : f[k] \in ids
  <2> SUFFICES ASSUME NEW k \in bits PROVE f[k] \in ids OBVIOUS
  <2>1. k + 1 \in 1..44 \cap set BY <1>7, <1>9
  <2>2. PICK j \in DOMAIN rows : rows[j] = all[k + 1] BY <1>4, <2>1
  <2> QED BY <1>3, <2>1, <2>2
<1>11. \A x \in ids : \E k \in bits : f[k] = x
  <2> SUFFICES ASSUME NEW j \in DOMAIN rows PROVE \E k \in bits : f[k] = rows[j].dmt_id OBVIOUS
  <2>1. PICK i \in 1..44 \cap set : rows[j] = all[i] BY <1>4
  <2>2. i - 1 \in bits /\ f[i - 1] = id(i) BY <1>8, <2>1
  <2> QED BY <1>3, <2>1, <2>2
<1>12. \A k, j \in bits : f[k] = f[j] => k = j
  <2> SUFFICES ASSUME NEW k \in bits, NEW j \in bits, f[k] = f[j] PROVE k = j OBVIOUS
  <2>1. k + 1 \in 1..44 /\ j + 1 \in 1..44 /\ k \in 0..43 /\ j \in 0..43 BY <1>7, <1>9
  <2>2. k + 1 = j + 1 BY <1>6, <2>1
  <2> QED BY <2>1, <2>2
<1> HIDE DEF ids
<1>13. DOMAIN f = bits /\ f \in [bits -> ids] BY <1>10
<1> HIDE DEF f
<1>14. f \in Bijection(bits, ids)
  BY <1>11, <1>12, <1>13 DEF Bijection, Injection, Surjection, IsInjective
<1>15. IsFiniteSet(bits)
  <2>1. 0 \in Int /\ 43 \in Int OBVIOUS
  <2>2. IsFiniteSet(0..43) BY <2>1, FS_Interval
  <2> QED BY <1>9, <2>2, FS_Subset
<1>16. Cardinality(ids) = Cardinality(bits)
  BY <1>14, <1>15, FS_Bijection DEF ExistsBijection
<1> QED BY <1>1, <1>5, <1>16 DEF ids, bits

(* So the lookup of a bit never fails, whatever bits an EDID sets.         *)
LEMMA EstablishedKnown == IInv => EstablishedIiiKnown
<1> SUFFICES ASSUME IInv, kind = "established_iii", Seen
             PROVE  LET rows == result.value
                        bits == {k \in 0..43 : has_bit(data[6 + k \div 8], 7 - (k % 8))}
                    IN  /\ \A k \in DOMAIN rows : rows[k] # NULL
                        /\ Cardinality({rows[k].dmt_id : k \in DOMAIN rows}) = Cardinality(bits)
  BY DEF EstablishedIiiKnown
<1>1. result = parse_established_timings_iii_descriptor(rev, data) BY DEF IInv, Decoded, Seen
<1>2. result.value = EstablishedIii(data)
  BY <1>1 DEF parse_established_timings_iii_descriptor, Kept
<1> QED BY <1>2, EstablishedRows

(* The tables and the arithmetic of the parsers name the same timings.     *)
THEOREM TimingsAgree == Spec => []NamedTimingsAgree
<1>1. IInv => NamedTimingsAgree
  BY StdIds, CvtIds, EstablishedKnown, GtfRates DEF NamedTimingsAgree
<1> QED BY <1>1, Invariant, PTL
=============================================================================
