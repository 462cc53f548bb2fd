--------------------------- MODULE LibraryProofs ----------------------------
(***************************************************************************)
(* What is proved of the containers and of the strings holds in the        *)
(* library: each user steps its part by that part's own actions, and       *)
(* leaves the other parts alone.                                           *)
(*                                                                         *)
(* Its numbers: any that orderOfMagnitude can tell the length of has its   *)
(* digits in any message, for any size_t, type, base and sizes of buffers. *)
(* The powers of the base are a function g, and at each loop the machine's *)
(* word is the power it means; the digits are those of a prefix q of the   *)
(* number, and what is left of the number is below the next power.         *)
(***************************************************************************)
EXTENDS Library, ContainerProofs, StringProofs

(* The containers see a behaviour of their own specification. *)
LEMMA ContainersInLibrary == Spec => ContainersSpec
<1>1. Init => ContainersInit
  BY DEF Init
<1>2. [Next]_vars => [ContainersNext /\ UNCHANGED user]_<<containerVars, user>>
  <2> SUFFICES ASSUME [Next]_vars
               PROVE  \/ ContainersNext /\ UNCHANGED user
                      \/ UNCHANGED <<containerVars, user>>
    OBVIOUS
  <2>1. CASE UNCHANGED vars
    BY <2>1 DEF vars
  <2>2. CASE Next
    <3>1. UNCHANGED user
      BY <2>2 DEF Next
    <3>2. CASE ContainersNext
      BY <3>1, <3>2
    <3>3. CASE UNCHANGED containerVars
      BY <3>1, <3>3
    <3>4. CASE UNCHANGED vars
      BY <3>4 DEF vars
    <3> QED BY <2>2, <3>2, <3>3, <3>4 DEF Next, Halted, OutOfBlocks, Done
  <2> QED BY <2>1, <2>2
<1> QED BY <1>1, <1>2, PTL DEF Spec, ContainersSpec

(* And so do the strings. *)
LEMMA StringsInLibrary == Spec => StringSpec
<1>1. Init => StringInit
  BY DEF Init
<1>2. [Next]_vars => [StringNext]_stringVars
  <2> SUFFICES ASSUME [Next]_vars, ~UNCHANGED stringVars
               PROVE  StringNext
    OBVIOUS
  <2>1. ~UNCHANGED vars
    BY DEF vars
  <2> QED BY <2>1 DEF Next, Halted, OutOfBlocks, Done
<1> QED BY <1>1, <1>2, PTL DEF Spec, StringSpec

(* For any users, nodes, keys, blocks, texts and numbers: the deque's      *)
(* links are exact and it is a sequence, the map is a function, the scan   *)
(* of String::arg finds the numbers of the text, each block of a string    *)
(* has one owner, the move assignment alone loses one, and an operation    *)
(* gives its own string the text it should and no other string another.    *)
THEOREM LibrarySound ==
  Spec => /\ []ChainExact /\ ImplementsSequence /\ []MapRemembers /\ []ScanFills
          /\ []OneOwner /\ LostOnlyByMove /\ ImplementsValues
BY ContainersInLibrary, StringsInLibrary, LinksExact, DequeIsSequence, MapIsFunction, ScanExact,
   StringsOwn, MovesAloneLose, StringsAreValues

-----------------------------------------------------------------------------
(* Numbers.  Quotients and remainders, which the provers know by their     *)
(* types only.                                                             *)

LEMMA Divides ==
  ASSUME NEW x \in Nat, NEW b \in Nat, b > 0
  PROVE  \E q \in Nat, c \in 0 .. b - 1 : q = x \div b /\ c = x % b /\ x = b * q + c
<1>1. x \div b \in Nat /\ x % b \in 0 .. b - 1
  OBVIOUS
<1>2. x % b = x - b * (x \div b)
  BY Z3
<1>3. PICK q \in Nat : q = x \div b
  BY <1>1
<1>4. x % b = x - b * q
  BY <1>2, <1>3, Zenon
<1>5. PICK c \in 0 .. b - 1 : c = x % b
  BY <1>1
<1>6. b * q \in Nat
  BY <1>3
<1>7. c = x - b * q
  BY <1>4, <1>5, Zenon
<1>8. x = b * q + c
  BY <1>5, <1>6, <1>7
<1> QED BY <1>3, <1>5, <1>8

LEMMA DividesOnce ==
  ASSUME NEW x \in Nat, NEW b \in Nat, NEW q \in Nat, NEW c \in 0 .. b - 1, x = b * q + c
  PROVE  x % b = c /\ x \div b = q
BY Z3

LEMMA Small ==
  ASSUME NEW b \in Nat, NEW x \in 0 .. b - 1
  PROVE  x % b = x /\ x \div b = 0
BY Z3

(* The quotient of what is not less than the divisor.                      *)
LEMMA Less ==
  ASSUME NEW x \in Nat, NEW b \in Nat, b >= 2, x >= b
  PROVE  x \div b \in 1 .. x - 1
<1>1. PICK q \in Nat, c \in 0 .. b - 1 : q = x \div b /\ x = b * q + c
  BY Divides
<1>2. q # 0
  BY <1>1
<1>3. b * q >= 2 * q
  BY Z3
<1> QED BY <1>1, <1>2, <1>3

(* A quotient is not 0 if the divisor is not greater. *)
LEMMA QuotientZero ==
  ASSUME NEW x \in Nat, NEW b \in Nat, b > 0
  PROVE  x \div b = 0 <=> x < b
<1>1. PICK q \in Nat, c \in 0 .. b - 1 : q = x \div b /\ x = b * q + c
  BY Divides
<1>2. q >= 1 => b * q >= b
  BY Z3
<1> QED BY <1>1, <1>2, Small

(* The powers of b. *)
Powers(g, b, k) ==
  /\ g \in [0 .. k -> Nat] /\ g[0] = 1
  /\ \A j \in 1 .. k : g[j] = g[j - 1] * b

LEMMA PowersAgain ==
  ASSUME NEW b \in Nat, NEW k \in Nat, NEW g, Powers(g, b, k)
  PROVE  \E h : /\ Powers(h, b, k + 1) /\ \A j \in 0 .. k : h[j] = g[j]
                /\ h[k + 1] = g[k] * b
<1> DEFINE h == [j \in 0 .. k + 1 |-> IF j = k + 1 THEN g[k] * b ELSE g[j]]
<1>1. g[k] * b \in Nat /\ \A j \in 0 .. k : g[j] \in Nat
  BY DEF Powers
<1>2. h \in [0 .. k + 1 -> Nat] /\ h[0] = 1
  BY <1>1 DEF Powers
<1>3. \A j \in 0 .. k : h[j] = g[j]
  OBVIOUS
<1>4. h[k + 1] = g[k] * b
  OBVIOUS
<1> HIDE DEF h
<1>5. ASSUME NEW j \in 1 .. k + 1 PROVE h[j] = h[j - 1] * b
  <2>1. CASE j = k + 1
    BY <2>1, <1>3, <1>4
  <2>2. CASE j \in 1 .. k
    BY <2>2, <1>3 DEF Powers
  <2> QED BY <2>1, <2>2
<1> QED BY <1>2, <1>3, <1>4, <1>5 DEF Powers

LEMMA PowersPositive ==
  ASSUME NEW b \in Nat, b >= 2, NEW k \in Nat, NEW g, Powers(g, b, k)
  PROVE  \A j \in 0 .. k : g[j] \in Nat /\ g[j] >= 1
<1> DEFINE S == {j \in Nat : j <= k => g[j] >= 1}
<1>1. 0 \in S
  BY DEF Powers
<1>2. ASSUME NEW j \in Nat, j \in S PROVE j + 1 \in S
  <2> SUFFICES ASSUME j + 1 <= k PROVE g[j + 1] >= 1
    OBVIOUS
  <2>1. g[j] \in Nat /\ g[j] >= 1
    BY <1>2 DEF Powers
  <2>2. g[j + 1] = g[j] * b
    BY DEF Powers
  <2>3. g[j] * b >= 1
    BY <2>1, Z3
  <2> QED BY <2>2, <2>3
<1> HIDE DEF S
<1>3. Nat \subseteq S
  BY <1>1, <1>2, Induct
<1> QED BY <1>3 DEF S, Powers

(* The recursive functions of TopPower and Digits, which exist because     *)
(* they go to greater numbers up to W and to smaller ones.                 *)
Tops(h, b, a) == h = [p \in a .. W |-> IF p * b < W THEN h[p * b] ELSE p]

LEMMA TopsExist ==
  ASSUME NEW b \in Nat, b >= 2
  PROVE  \E h : Tops(h, b, 1)
<1> DEFINE S == {m \in Nat : m < W => \E h : Tops(h, b, W - m)}
<1>1. 0 \in S
  <2> SUFFICES \E h : Tops(h, b, W)
    BY Machine
  <2> DEFINE h == [p \in W .. W |-> p]
  <2>1. \A p \in W .. W : ~(p * b < W)
    BY Machine, Z3
  <2>2. Tops(h, b, W)
    BY <2>1 DEF Tops
  <2> QED BY <2>2
<1>2. ASSUME NEW m \in Nat, m \in S PROVE m + 1 \in S
  <2> SUFFICES ASSUME m + 1 < W PROVE \E h : Tops(h, b, W - (m + 1))
    OBVIOUS
  <2>1. PICK h : Tops(h, b, W - m)
    BY <1>2, Machine
  <2> DEFINE a == W - (m + 1)
             w == [p \in a .. W |-> IF p = a THEN IF a * b < W THEN h[a * b] ELSE a ELSE h[p]]
  <2>2. a \in Nat /\ a >= 1 /\ W \in Nat /\ W - m = a + 1
    BY Machine
  <2> HIDE DEF a
  <2>3. \A p \in a .. W : p * b \in Nat /\ p * b > p
    BY <2>2, Z3
  <2>4. \A p \in a + 1 .. W : h[p] = IF p * b < W THEN h[p * b] ELSE p
    BY <2>1, <2>2 DEF Tops
  <2>5. \A p \in a + 1 .. W : w[p] = h[p]
    BY <2>2
  <2>6. w[a] = IF a * b < W THEN h[a * b] ELSE a
    BY <2>2
  <2>7. ASSUME NEW p \in a .. W PROVE w[p] = IF p * b < W THEN w[p * b] ELSE p
    <3>1. p * b < W => p * b \in a + 1 .. W
      BY <2>2, <2>3
    <3>2. CASE p = a
      BY <3>1, <3>2, <2>5, <2>6
    <3>3. CASE p \in a + 1 .. W
      BY <3>1, <3>3, <2>4, <2>5
    <3> QED BY <3>2, <3>3, <2>2
  <2>8. w = [p \in a .. W |-> w[p]]
    OBVIOUS
  <2> HIDE DEF w
  <2>9. Tops(w, b, a)
    BY <2>7, <2>8, Zenon DEF Tops
  <2> QED BY <2>9 DEF a
<1> HIDE DEF S
<1>3. Nat \subseteq S
  BY <1>1, <1>2, Induct
<1>4. W - 1 \in Nat /\ W - 1 < W /\ W - (W - 1) = 1
  BY Machine
<1> QED BY <1>3, <1>4 DEF S

LEMMA TopPowerIs ==
  ASSUME call.base \in Nat, call.base >= 2
  PROVE  \E h : Tops(h, call.base, 1) /\ TopPower = h[1]
<1>1. \E h : h = [p \in 1 .. W |-> IF p * call.base < W THEN h[p * call.base] ELSE p]
  BY TopsExist DEF Tops
<1> QED BY <1>1 DEF TopPower, Tops

Written(h, b, z) ==
  h = [k \in 0 .. z |-> IF k < b THEN <<baseChar[k + 1]>>
                                 ELSE Append(h[k \div b], baseChar[(k % b) + 1])]

LEMMA WrittenExist ==
  ASSUME NEW b \in Nat, b >= 2, NEW z \in Nat
  PROVE  \E h : Written(h, b, z)
<1> DEFINE S == {m \in Nat : \E h : Written(h, b, m)}
<1>1. 0 \in S
  <2> DEFINE h == [k \in 0 .. 0 |-> <<baseChar[k + 1]>>]
  <2>1. Written(h, b, 0)
    BY DEF Written
  <2> QED BY <2>1
<1>2. ASSUME NEW m \in Nat, m \in S PROVE m + 1 \in S
  <2>1. PICK h : Written(h, b, m)
    BY <1>2
  <2> DEFINE a == m + 1
             Made(u, k) == IF k < b THEN <<baseChar[k + 1]>>
                                    ELSE Append(u[k \div b], baseChar[(k % b) + 1])
             w == [k \in 0 .. a |-> IF k = a THEN Made(h, a) ELSE h[k]]
  <2>2. \A k \in 0 .. m : h[k] = Made(h, k)
    BY <2>1 DEF Written
  <2>3. \A k \in 0 .. m : w[k] = h[k]
    OBVIOUS
  <2>4. w[a] = Made(h, a)
    OBVIOUS
  <2>5. ASSUME NEW k \in 0 .. a PROVE w[k] = Made(w, k)
    <3>1. k >= b => k \div b \in 0 .. m
      BY Less
    <3>2. Made(w, k) = Made(h, k)
      BY <3>1, <2>3
    <3>3. CASE k = a
      <4>1. w[k] = Made(h, k)
        BY <3>3, <2>4
      <4> QED BY <4>1, <3>2
    <3>4. CASE k \in 0 .. m
      <4>1. w[k] = h[k] /\ h[k] = Made(h, k)
        BY <3>4, <2>2, <2>3
      <4> QED BY <4>1, <3>2
    <3> QED BY <3>3, <3>4
  <2>6. w = [k \in 0 .. a |-> w[k]]
    OBVIOUS
  <2> HIDE DEF w
  <2>7. Written(w, b, a)
    BY <2>5, <2>6, Zenon DEF Written
  <2> QED BY <2>7
<1> HIDE DEF S
<1>3. Nat \subseteq S
  BY <1>1, <1>2, Induct
<1> QED BY <1>3 DEF S

LEMMA DigitsAre ==
  ASSUME call.base \in Nat, call.base >= 2, Size \in Nat
  PROVE  \E h : Written(h, call.base, Size) /\ Digits = h[Size]
<1>1. \E h : Written(h, call.base, Size)
  BY WrittenExist
<1> QED BY <1>1 DEF Digits, Written

(* The characters of digits. *)
Figures == {baseChar[k] : k \in 1 .. 16}

LEMMA FiguresAre ==
  /\ Nul \notin Figures
  /\ \A k \in 0 .. 15 : CharOf(k) = baseChar[k + 1] /\ baseChar[k + 1] \in Figures
<1>1. \A k \in 1 .. 16 : baseChar[k] # Nul
  <2>1. /\ baseChar[1] = "0" /\ baseChar[2] = "1" /\ baseChar[3] = "2" /\ baseChar[4] = "3"
        /\ baseChar[5] = "4" /\ baseChar[6] = "5" /\ baseChar[7] = "6" /\ baseChar[8] = "7"
        /\ baseChar[9] = "8" /\ baseChar[10] = "9" /\ baseChar[11] = "A" /\ baseChar[12] = "B"
        /\ baseChar[13] = "C" /\ baseChar[14] = "D" /\ baseChar[15] = "E" /\ baseChar[16] = "F"
    BY DEF baseChar
  <2> DEFINE Hex == {"0", "1", "2", "3", "4", "5", "6", "7", "8", "9", "A", "B", "C", "D", "E", "F"}
  <2>2. ASSUME NEW k \in 1 .. 16 PROVE baseChar[k] \in Hex
    <3>1. CASE k \in 1 .. 8
      <4>1. \/ k = 1 \/ k = 2 \/ k = 3 \/ k = 4 \/ k = 5 \/ k = 6 \/ k = 7 \/ k = 8
        BY <3>1
      <4> QED BY <2>1, <4>1, Zenon
    <3>2. CASE k \in 9 .. 16
      <4>1. \/ k = 9 \/ k = 10 \/ k = 11 \/ k = 12 \/ k = 13 \/ k = 14 \/ k = 15 \/ k = 16
        BY <3>2
      <4> QED BY <2>1, <4>1, Zenon
    <3> QED BY <3>1, <3>2
  <2>3. \A c \in Hex : c # Nul
    BY Zenon DEF Nul
  <2> QED BY <2>2, <2>3, Zenon
<1>2. \A k \in 0 .. 15 : CharOf(k) = baseChar[k + 1]
  BY DEF CharOf
<1>3. \A k \in 0 .. 15 : k + 1 \in 1 .. 16
  OBVIOUS
<1> QED BY <1>1, <1>2, <1>3 DEF Figures

(* A number's digits are those of its quotient and one more. *)
LEMMA OneMore ==
  ASSUME NEW b \in Nat, b >= 2, NEW z \in Nat, NEW h, Written(h, b, z), NEW k \in 0 .. z
  PROVE  h[k] = IF k \div b = 0 THEN <<baseChar[(k % b) + 1]>>
                                ELSE Append(h[k \div b], baseChar[(k % b) + 1])
<1>1. k \div b = 0 <=> k < b
  BY QuotientZero
<1>2. k < b => k % b = k
  BY Small
<1>3. h[k] = IF k < b THEN <<baseChar[k + 1]>> ELSE Append(h[k \div b], baseChar[(k % b) + 1])
  BY DEF Written
<1>4. CASE k < b
  BY <1>1, <1>2, <1>3, <1>4, Zenon
<1>5. CASE ~(k < b)
  BY <1>1, <1>3, <1>5, Zenon
<1> QED BY <1>4, <1>5

LEMMA WrittenInFigures ==
  ASSUME NEW b \in 2 .. 16, NEW z \in Nat, NEW h, Written(h, b, z)
  PROVE  \A k \in 0 .. z : h[k] \in Seq(Figures)
<1> DEFINE S == {m \in Nat : \A k \in 0 .. z : k <= m => h[k] \in Seq(Figures)}
<1>1. ASSUME NEW k \in 0 .. z, \A w \in 0 .. k - 1 : h[w] \in Seq(Figures)
      PROVE  h[k] \in Seq(Figures)
  <2>1. PICK q \in Nat, c \in 0 .. b - 1 : q = k \div b /\ c = k % b /\ k = b * q + c
    BY Divides
  <2>2. h[k] = IF q = 0 THEN <<baseChar[c + 1]>> ELSE Append(h[q], baseChar[c + 1])
    <3>1. h[k] = IF k \div b = 0 THEN <<baseChar[(k % b) + 1]>>
                                 ELSE Append(h[k \div b], baseChar[(k % b) + 1])
      BY OneMore
    <3> QED BY <2>1, <3>1
  <2>3. baseChar[c + 1] \in Figures
    BY FiguresAre
  <2>4. q # 0 => q \in 0 .. k - 1
    <3>1. b * q >= 2 * q
      BY Z3
    <3>2. b * q \in Nat
      OBVIOUS
    <3> QED BY <2>1, <3>1, <3>2
  <2> QED BY <1>1, <2>2, <2>3, <2>4
<1>2. 0 \in S
  BY <1>1
<1>3. ASSUME NEW m \in Nat, m \in S PROVE m + 1 \in S
  <2> SUFFICES ASSUME NEW k \in 0 .. z, k <= m + 1 PROVE h[k] \in Seq(Figures)
    OBVIOUS
  <2> QED BY <1>1, <1>3
<1> HIDE DEF S
<1>4. Nat \subseteq S
  BY <1>2, <1>3, Induct
<1> QED BY <1>4 DEF S

(* A number below the m-th power and not below the one before it has m     *)
(* digits.                                                                 *)
LEMMA WrittenLength ==
  ASSUME NEW b \in 2 .. 16, NEW z \in Nat, NEW h, Written(h, b, z),
         NEW w \in Nat, NEW g, Powers(g, b, w)
  PROVE  \A m \in 1 .. w : \A k \in 0 .. z : k < g[m] /\ (m = 1 \/ g[m - 1] <= k) => Len(h[k]) = m
<1> DEFINE S == {m \in Nat : m + 1 <= w =>
                   \A k \in 0 .. z : k < g[m + 1] /\ (m = 0 \/ g[m] <= k) => Len(h[k]) = m + 1}
<1>1. 0 \in S
  <2> SUFFICES ASSUME 1 <= w, NEW k \in 0 .. z, k < g[1] PROVE Len(h[k]) = 1
    OBVIOUS
  <2>1. g[1] = b
    BY DEF Powers
  <2>2. h[k] = <<baseChar[k + 1]>>
    BY <2>1 DEF Written
  <2> QED BY <2>2
<1>2. ASSUME NEW m \in Nat, m \in S PROVE m + 1 \in S
  <2> SUFFICES ASSUME m + 2 <= w, NEW k \in 0 .. z, k < g[m + 2], g[m + 1] <= k
               PROVE  Len(h[k]) = m + 2
    OBVIOUS
  <2>1. PICK q \in Nat, c \in 0 .. b - 1 : q = k \div b /\ c = k % b /\ k = b * q + c
    <3>1. b \in Nat /\ b > 0 /\ k \in Nat
      OBVIOUS
    <3> QED BY <3>1, Divides
  <2>2. /\ g[m] \in Nat /\ g[m] >= 1 /\ g[m + 1] \in Nat
        /\ g[m + 1] = g[m] * b /\ g[m + 2] = g[m + 1] * b
    BY PowersPositive DEF Powers
  <2> DEFINE u == g[m]
             v == g[m + 1]
  <2>3. u \in Nat /\ v \in Nat /\ v = u * b /\ k < v * b /\ v <= k /\ u >= 1
    BY <2>2
  <2> HIDE DEF u, v
  <2>4. q < v
    <3> SUFFICES ASSUME q >= v PROVE FALSE
      BY <2>3
    <3>1. b * q >= v * b
      BY <2>3, Z3
    <3>2. b * q \in Nat /\ v * b \in Nat
      BY <2>3
    <3> QED BY <2>1, <2>3, <3>1, <3>2
  <2>5. u <= q
    <3> SUFFICES ASSUME q + 1 <= u PROVE FALSE
      BY <2>3
    <3>1. u * b >= b * q + b
      BY <2>3, Z3
    <3>2. b * q \in Nat /\ u * b \in Nat
      BY <2>3
    <3> QED BY <2>1, <2>3, <3>1, <3>2
  <2>6. q # 0 /\ q \in 0 .. z
    <3>1. b * q >= q /\ b * q \in Nat
      BY Z3
    <3> QED BY <2>1, <2>3, <2>5, <3>1
  <2>7. h[k] = Append(h[q], baseChar[c + 1])
    <3>1. h[k] = IF k \div b = 0 THEN <<baseChar[(k % b) + 1]>>
                                 ELSE Append(h[k \div b], baseChar[(k % b) + 1])
      BY OneMore
    <3> QED BY <2>1, <2>6, <3>1
  <2>8. Len(h[q]) = m + 1
    BY <1>2, <2>4, <2>5, <2>6 DEF u, v
  <2>9. h[q] \in Seq(Figures)
    BY <2>6, WrittenInFigures
  <2> QED BY <2>7, <2>8, <2>9
<1> HIDE DEF S
<1>3. Nat \subseteq S
  BY <1>1, <1>2, Induct
<1>4. \A m \in 1 .. w : m - 1 \in S
  BY <1>3
<1> SUFFICES ASSUME NEW m \in 1 .. w, NEW k \in 0 .. z, k < g[m], m = 1 \/ g[m - 1] <= k
             PROVE  Len(h[k]) = m
  OBVIOUS
<1>5. (m - 1) + 1 = m /\ (m = 1 <=> m - 1 = 0)
  OBVIOUS
<1> QED BY <1>4, <1>5 DEF S

-----------------------------------------------------------------------------
(* The number of the call, in machine arithmetic. *)
TypedCall ==
  call.type \in Types /\ call.base \in Bases /\ call.n \in ValuesOf(call.type)

LEMMA CallFacts ==
  ASSUME TypedCall
  PROVE  /\ call.base \in 2 .. 16 /\ call.base < W /\ W \in Nat /\ W > 0
         /\ BufSize \in Nat /\ BufSize > 0
         /\ call.type.mod \in 1 .. W /\ call.type.signed \in BOOLEAN
         /\ call.n \in Int /\ Size \in Nat
         /\ ~call.type.signed => call.n \in 0 .. call.type.mod - 1
         /\ call.type.signed => /\ call.n >= -(call.type.mod \div 2)
                                /\ call.n <= call.type.mod \div 2 - 1
         /\ call.n < 0 => call.type.signed /\ Size = -call.n
         /\ call.n >= 0 => Size = call.n
<1>1. /\ call.base \in 2 .. 16 /\ call.base < W /\ W \in Nat /\ W > 0
      /\ BufSize \in Nat /\ BufSize > 0
  <2>1. Bases \subseteq {b \in 2 .. 16 : b < W} /\ W \in Nat \ {0} /\ BufSize \in Nat \ {0}
    BY Machine
  <2>2. call.base \in Bases
    BY DEF TypedCall
  <2>3. call.base \in {b \in 2 .. 16 : b < W}
    BY <2>1, <2>2, Zenon
  <2> QED BY <2>1, <2>3
<1>2. call.type \in [signed : BOOLEAN, mod : {m \in 1 .. W : m % 2 = 0}]
  BY Zenon, Machine DEF TypedCall
<1>3. call.type.mod \in 1 .. W /\ call.type.signed \in BOOLEAN
  BY <1>2
<1>4. call.type.mod \div 2 \in Nat
  BY <1>1, <1>3
<1>5. CASE call.type.signed
  <2>1. call.n \in -(call.type.mod \div 2) .. call.type.mod \div 2 - 1
    BY <1>5 DEF TypedCall, ValuesOf
  <2> QED BY <1>1, <1>3, <1>4, <1>5, <2>1 DEF Size
<1>6. CASE ~call.type.signed
  <2>1. call.n \in 0 .. call.type.mod - 1
    BY <1>6 DEF TypedCall, ValuesOf
  <2> QED BY <1>1, <1>3, <1>6, <2>1 DEF Size
<1> QED BY <1>5, <1>6

(* A readable number and all smaller ones stay what they are when they are *)
(* converted to its type and back.                                         *)
LEMMA ReadsBack ==
  ASSUME TypedCall, Readable, NEW x \in 0 .. Size
  PROVE  ToSize(ToType(x, call.type)) = x
<1> DEFINE mod == call.type.mod
           half == call.type.mod \div 2
<1>1. /\ W \in Nat /\ W > 0 /\ mod \in 1 .. W /\ half \in Nat /\ half < mod
      /\ call.n \in Int /\ Size \in Nat
      /\ call.type.signed \in BOOLEAN
  BY CallFacts
<1>2. /\ ~call.type.signed => Size < mod
      /\ call.type.signed => Size < half \/ (call.n < 0 /\ Size = half)
      /\ call.n < 0 => Size = -call.n
  BY CallFacts
<1>3. call.n < 0 => Size = ToSize(ToType(-call.n, call.type))
  BY DEF Readable
<1>4. x < mod => x % mod = x
  <2>1. mod \in Nat /\ (x < mod => x \in 0 .. mod - 1)
    BY <1>1
  <2> QED BY <2>1, Small, Zenon
<1>5. x < mod => x % W = x
  <2>1. W \in Nat /\ (x < mod => x \in 0 .. W - 1)
    BY <1>1
  <2> QED BY <2>1, Small, Zenon
<1>6. CASE ~call.type.signed
  BY <1>1, <1>2, <1>4, <1>5, <1>6 DEF ToType, ToSize
<1>7. CASE call.type.signed /\ x < half
  BY <1>1, <1>4, <1>5, <1>7 DEF ToType, ToSize
<1>8. CASE call.n < 0 /\ x = Size
  BY <1>2, <1>3, <1>8
<1> QED BY <1>1, <1>2, <1>6, <1>7, <1>8

(* The number as size_t, before the sign is taken off and after. *)
LEMMA SizeIs ==
  ASSUME TypedCall, Readable
  PROVE  /\ Size < W
         /\ call.n >= 0 => ToSize(call.n) = Size
         /\ call.n < 0  => ToSize(ToType(-call.n, call.type)) = Size
<1>1. /\ W \in Nat /\ W > 0 /\ call.type.mod \in 1 .. W /\ call.type.mod \div 2 \in Nat
      /\ call.type.mod \div 2 < call.type.mod
      /\ call.n \in Int /\ Size \in Nat
      /\ call.type.signed \in BOOLEAN
  BY CallFacts
<1>2. /\ ~call.type.signed => Size < call.type.mod
      /\ call.type.signed => Size <= call.type.mod \div 2
      /\ call.n >= 0 => Size = call.n
  BY CallFacts
<1>3. Size < W
  BY <1>1, <1>2
<1>4. Size % W = Size
  BY <1>1, <1>3, Small
<1> QED BY <1>1, <1>2, <1>3, <1>4 DEF Readable, ToSize

(* The recursive functions of the call. *)
Tower == CHOOSE h : Tops(h, call.base, 1) /\ TopPower = h[1]

Figured == CHOOSE h : Written(h, call.base, Size) /\ Digits = h[Size]

LEMMA TowerIs == ASSUME TypedCall PROVE Tops(Tower, call.base, 1) /\ TopPower = Tower[1]
<1>1. \E h : Tops(h, call.base, 1) /\ TopPower = h[1]
  BY CallFacts, TopPowerIs
<1> QED BY <1>1 DEF Tower

LEMMA FiguredIs ==
  ASSUME TypedCall PROVE Written(Figured, call.base, Size) /\ Digits = Figured[Size]
<1>1. \E h : Written(h, call.base, Size) /\ Digits = h[Size]
  BY CallFacts, DigitsAre
<1> QED BY <1>1 DEF Figured

SignPart == IF call.n < 0 THEN <<"-">> ELSE <<>>

(* All this stays as it is during a conversion. *)
LEMMA CallKept ==
  ASSUME call' = call
  PROVE  /\ TypedCall' <=> TypedCall
         /\ Readable' <=> Readable
         /\ Size' = Size /\ TopPower' = TopPower /\ Digits' = Digits /\ Numeral' = Numeral
         /\ Tower' = Tower /\ Figured' = Figured /\ SignPart' = SignPart
<1>1. Size' = Size
  BY DEF Size
<1>2. TopPower' = TopPower
  BY DEF TopPower
<1>3. Digits' = Digits
  BY <1>1 DEF Digits
<1>4. Tower' = Tower
  BY <1>2 DEF Tower
<1>5. Figured' = Figured
  BY <1>1, <1>3 DEF Figured
<1> QED BY <1>1, <1>2, <1>3, <1>4, <1>5 DEF TypedCall, Readable, Numeral, SignPart

-----------------------------------------------------------------------------
(* A conversion of a readable number.  The buffer begins with t.           *)
Begins(t) == Len(t) <= BufSize /\ \A j \in 1 .. Len(t) : buff[j - 1] = t[j]

(* The powers g of the base, all but the last of which a size_t can be.    *)
Scale(g) ==
  /\ r \in Nat /\ r >= 1 /\ Powers(g, call.base, r)
  /\ \A j \in 0 .. r - 1 : g[j] < W
  /\ r > 1 => g[r - 1] <= Size

AtMagnitude(g) ==
  Scale(g) /\ f = ToSize(g[r]) /\ ToSize(n) = Size /\ TopPower = Tower[g[r - 1]]

AtPow(g) ==
  /\ Scale(g) /\ Size < g[r] /\ ToSize(n) = Size /\ left = r
  /\ to \in 1 .. r - 1 /\ val = g[r - to]

(* What is written are the digits of q, what is left to be is less than    *)
(* the power that comes before the next digit's.                           *)
SoFar(q) == IF left = r THEN <<>> ELSE Figured[q]

AtDigits(g, q) ==
  /\ Scale(g) /\ Size < g[r]
  /\ left \in 0 .. r /\ (left > 0 => disc = g[left - 1])
  /\ q \in Nat /\ ToSize(n) \in Nat /\ ToSize(n) < g[left] /\ Size = g[left] * q + ToSize(n)
  /\ (left = r => q = 0) /\ (left < r /\ r > 1 => q >= 1)
  /\ Len(SoFar(q)) = r - left
  /\ Begins(SignPart \o SoFar(q))

AtDone == Begins(Numeral) /\ Len(Numeral) < BufSize /\ buff[Len(Numeral)] = Nul

Converts ==
  /\ at # "trapped"
  /\ buff = [j \in 0 .. BufSize - 1 |-> buff[j]]
  /\ off = IF at = "sign" THEN 0 ELSE Len(SignPart)
  /\ at = "sign" => n = call.n
  /\ at \in {"magnitude", "pow"} => Begins(SignPart)
  /\ at = "magnitude" => \E g : AtMagnitude(g)
  /\ at = "pow" => \E g : AtPow(g)
  /\ at = "digits" => \E g, q : AtDigits(g, q)
  /\ at = "done" => AtDone
  /\ at = "broken" => BufSize < Len(Numeral) + 1

Converting ==
  /\ at = "idle" => off = 0
  /\ at # "idle" => TypedCall
  /\ at # "idle" /\ Readable => Converts

(* The call. *)
LEMMA CallConverts ==
  ASSUME Converting, NEW type \in Types, NEW b \in Bases, NEW x \in ValuesOf(type), number(x, b, type)
  PROVE  Converting'
<1>1. call'.n = x /\ call'.base = b /\ call'.type = type /\ n' = x /\ at' = "sign" /\ off' = 0
  BY DEF number, Converting
<1>2. TypedCall'
  BY <1>1 DEF TypedCall
<1>3. buff' = [j \in 0 .. BufSize - 1 |-> Nul]
  BY DEF number
<1>4. buff' = [j \in 0 .. BufSize - 1 |-> buff'[j]]
  BY <1>3
<1> QED BY <1>1, <1>2, <1>4 DEF Converting, Converts

(* What a step of a conversion has before it. *)
LEMMA Midway ==
  ASSUME Converting, at # "idle", call' = call, at' # "idle", Readable' => Converts'
  PROVE  Converting'
BY CallKept DEF Converting

LEMMA SignLength ==
  ASSUME TypedCall
  PROVE  /\ SignPart \in Seq({"-"})
         /\ Len(SignPart) = IF call.n < 0 THEN 1 ELSE 0
         /\ call.n < 0 => SignPart[1] = "-"
<1>1. CASE call.n < 0
  BY <1>1 DEF SignPart
<1>2. CASE ~(call.n < 0)
  BY <1>2 DEF SignPart
<1> QED BY <1>1, <1>2

LEMMA SignConverts ==
  ASSUME Converting, Sign
  PROVE  Converting'
<1>1. at = "sign" /\ call' = call /\ at' = "magnitude" /\ f' = call.base /\ r' = 1 /\ TypedCall
  BY DEF Sign, Converting
<1> SUFFICES ASSUME Readable PROVE Converts'
  BY <1>1, Midway, CallKept
<1>2. Converts /\ n = call.n /\ off = 0
  BY <1>1 DEF Converting, Converts
<1>3. Negative <=> call.n < 0
  BY <1>1, <1>2, CallFacts DEF Negative
<1>4. /\ IF call.n < 0 THEN buff' = [buff EXCEPT ![0] = "-"] /\ off' = 1
                       ELSE buff' = buff /\ off' = 0
      /\ n' = IF call.n < 0 THEN ToType(-call.n, call.type) ELSE call.n
  BY <1>2, <1>3 DEF Sign
<1>5. BufSize \in Nat /\ BufSize > 0 /\ buff = [j \in 0 .. BufSize - 1 |-> buff[j]] /\ call.n \in Int
  BY <1>1, <1>2, CallFacts DEF Converts
<1>6. buff' = [j \in 0 .. BufSize - 1 |-> buff'[j]] /\ (call.n < 0 => buff'[0] = "-")
  BY <1>4, <1>5
<1>7. off' = Len(SignPart) /\ Begins(SignPart)'
  <2>1. SignPart' = SignPart
    BY <1>1, CallKept
  <2>2. SignPart \in Seq({"-"}) /\ Len(SignPart) = IF call.n < 0 THEN 1 ELSE 0
    BY <1>1, SignLength
  <2>3. \A j \in 1 .. Len(SignPart) : j = 1 /\ call.n < 0 /\ SignPart[j] = "-"
    BY <1>1, <2>2, SignLength
  <2>4. \A j \in 1 .. Len(SignPart) : buff'[j - 1] = SignPart[j]
    BY <1>6, <2>3
  <2>5. Len(SignPart) <= BufSize /\ off' = Len(SignPart)
    BY <1>4, <1>5, <2>2
  <2> QED BY <2>1, <2>4, <2>5 DEF Begins
<1>8. ToSize(n') = Size
  BY <1>1, <1>4, <1>5, SizeIs
<1>9. \E g : AtMagnitude(g)'
  <2>1. PICK b \in 2 .. 16 : b = call.base /\ b < W
    BY <1>1, CallFacts
  <2>2. PICK g \in [0 .. 1 -> Nat] : g[0] = 1 /\ g[1] = b
    <3> DEFINE g == [j \in 0 .. 1 |-> IF j = 0 THEN 1 ELSE b]
    <3>1. g[0] = 1 /\ g[1] = b /\ g \in [0 .. 1 -> Nat]
      OBVIOUS
    <3> QED BY <3>1
  <2>3. Powers(g, b, 1)
    BY <2>1, <2>2 DEF Powers
  <2>4. ToSize(b) = b
    <3>1. W \in Nat /\ b \in 0 .. W - 1
      BY <1>1, <2>1, CallFacts
    <3> QED BY <3>1, Small DEF ToSize
  <2>5. TopPower = Tower[1] /\ TopPower' = TopPower /\ Tower' = Tower /\ Size' = Size
    BY <1>1, TowerIs, CallKept
  <2>6. \A j \in 0 .. 0 : g[j] < W
    BY <2>1, <2>2, Machine
  <2>7. Scale(g)'
    BY <1>1, <2>1, <2>3, <2>6 DEF Scale
  <2>8. AtMagnitude(g)'
    BY <1>1, <1>8, <2>1, <2>2, <2>4, <2>5, <2>7 DEF AtMagnitude
  <2> QED BY <2>8
<1> QED BY <1>1, <1>6, <1>7, <1>9, CallKept DEF Converts

(* The power orderOfMagnitude has is the one it means, or is greater than  *)
(* the number though it wrapped; it is never 0.                            *)
LEMMA Fits ==
  ASSUME TypedCall, Readable, NEW g, AtMagnitude(g)
  PROVE  /\ f \in Nat /\ f # 0
         /\ f <= Size => g[r] < W /\ f = g[r] /\ TopPower = Tower[g[r]]
         /\ f > Size => g[r] > Size
<1>1. PICK b \in 2 .. 16 : b = call.base /\ b < W
  BY CallFacts
<1>2. W \in Nat /\ W > 0 /\ Size \in Nat
  BY CallFacts
<1>3. r \in Nat /\ r >= 1 /\ Powers(g, b, r) /\ g[r - 1] < W /\ (r > 1 => g[r - 1] <= Size)
      /\ f = g[r] % W /\ TopPower = Tower[g[r - 1]]
  BY <1>1 DEF AtMagnitude, Scale, ToSize
<1>4. PICK p \in Nat, m \in Nat : p = g[r - 1] /\ p >= 1 /\ m = g[r] /\ m >= 1
  BY <1>3, PowersPositive
<1>5. m = p * b /\ (r = 1 => p = 1)
  BY <1>3, <1>4 DEF Powers
<1>6. Tower[p] = IF p * b < W THEN Tower[p * b] ELSE p
  <2>1. Tops(Tower, b, 1) /\ p \in 1 .. W
    BY <1>1, <1>2, <1>3, <1>4, TowerIs
  <2> QED BY <2>1 DEF Tops
<1>7. m % W \in Nat /\ m % W <= m
  <2>1. PICK q \in Nat, c \in 0 .. W - 1 : c = m % W /\ m = W * q + c
    BY <1>2, Divides
  <2>2. W * q \in Nat
    BY <1>2
  <2> QED BY <2>1, <2>2
<1>8. CASE m < W
  <2>1. m % W = m
    BY <1>2, <1>8, Small
  <2>2. TopPower = Tower[m]
    BY <1>3, <1>4, <1>5, <1>6, <1>8
  <2> QED BY <1>2, <1>3, <1>4, <1>8, <2>1, <2>2
<1>9. CASE m >= W
  <2>1. TopPower = p
    BY <1>3, <1>4, <1>5, <1>6, <1>9, <1>2
  <2>2. Size < p \/ Size < m % W
    BY <1>1, <1>5, <2>1 DEF Readable, ToSize
  <2>3. r # 1
    BY <1>1, <1>2, <1>5, <1>9
  <2>4. p <= Size
    BY <1>3, <1>4, <2>3
  <2> QED BY <1>2, <1>3, <1>4, <1>7, <2>2, <2>4
<1> QED BY <1>2, <1>4, <1>8, <1>9

(* What a turn has, and what it has to show. *)
LEMMA Turns ==
  ASSUME Converting, at \in {"magnitude", "pow", "digits"}, call' = call, at' # "idle",
         TypedCall /\ Readable /\ Converts /\ off = Len(SignPart) => Converts'
  PROVE  Converting'
BY CallKept DEF Converting, Converts

LEMMA MagnitudeNeverTraps ==
  ASSUME Converting, MagnitudeTraps
  PROVE  Converting'
<1>1. at = "magnitude" /\ f = 0 /\ call' = call /\ at' = "trapped"
  BY DEF MagnitudeTraps, Trap
<1> SUFFICES ASSUME TypedCall, Readable, Converts PROVE FALSE
  BY <1>1, Turns
<1>2. PICK g : AtMagnitude(g)
  BY <1>1 DEF Converts
<1> QED BY <1>1, <1>2, Fits

LEMMA GrowsConverts ==
  ASSUME Converting, MagnitudeGrows
  PROVE  Converting'
<1>1. /\ at = "magnitude" /\ f # 0 /\ ToSize(n) \div f # 0 /\ call' = call /\ at' = at /\ n' = n
      /\ f' = ToSize(f * call.base) /\ r' = r + 1 /\ off' = off /\ buff' = buff
  BY DEF MagnitudeGrows
<1> SUFFICES ASSUME TypedCall, Readable, Converts, off = Len(SignPart) PROVE Converts'
  BY <1>1, Turns
<1>2. PICK g : AtMagnitude(g)
  BY <1>1 DEF Converts
<1>3. PICK b \in 2 .. 16 : b = call.base /\ b < W
  BY CallFacts
<1>4. Size \in Nat /\ ToSize(n) = Size /\ f \in Nat
  BY <1>2, CallFacts, Fits DEF AtMagnitude
<1>5. f <= Size
  BY <1>1, <1>4, QuotientZero
<1>6. g[r] < W /\ f = g[r] /\ TopPower = Tower[g[r]]
  BY <1>2, <1>5, Fits
<1>7. r \in Nat /\ r >= 1 /\ Powers(g, b, r) /\ \A j \in 0 .. r - 1 : g[j] < W
  BY <1>2, <1>3 DEF AtMagnitude, Scale
<1>8. PICK h : /\ Powers(h, b, r + 1) /\ \A j \in 0 .. r : h[j] = g[j]
               /\ h[r + 1] = g[r] * b
  BY <1>7, PowersAgain
<1>9. TopPower' = TopPower /\ Tower' = Tower /\ Size' = Size /\ SignPart' = SignPart
  BY <1>1, CallKept
<1>10. Scale(h)'
  <2>1. \A j \in 0 .. r : h[j] < W
    BY <1>6, <1>7, <1>8
  <2>2. h[r] <= Size
    BY <1>5, <1>6, <1>7, <1>8
  <2>3. r' - 1 = r /\ r' \in Nat /\ r' >= 1
    BY <1>1, <1>7
  <2> QED BY <1>1, <1>3, <1>8, <1>9, <2>1, <2>2, <2>3 DEF Scale
<1>11. AtMagnitude(h)'
  <2>1. r' - 1 = r /\ h[r] = g[r]
    BY <1>1, <1>7, <1>8
  <2> QED BY <1>1, <1>3, <1>4, <1>6, <1>8, <1>9, <1>10, <2>1 DEF AtMagnitude
<1> QED BY <1>1, <1>9, <1>11 DEF Converts, Begins

(* Where the digits begin, after a step. *)
LEMMA Starts ==
  ASSUME NEW g, Scale(g)', Size' \in Nat, (ToSize(n) = Size)', (Size < g[r])',
         SignPart' \in Seq({"-"}), Begins(SignPart)', left' = r', disc' = g[r' - 1]
  PROVE  AtDigits(g, 0)'
<1>1. r' \in Nat /\ r' >= 1 /\ g[r'] \in Nat
  BY DEF Scale, Powers
<1>2. Size' = g[left'] * 0 + ToSize(n)'
  <2>1. g[left'] * 0 = 0
    BY <1>1
  <2> QED BY <2>1
<1>3. SoFar(0)' = <<>>
  BY Zenon DEF SoFar
<1>7. (Len(SoFar(0)) = r - left)'
  <2>1. Len(<<>>) = 0
    OBVIOUS
  <2>2. r' - left' = 0
    <3>1. \A k \in Nat : k - k = 0
      OBVIOUS
    <3> QED BY <1>1, <3>1, Zenon
  <2> QED BY <1>3, <2>1, <2>2, Zenon
<1>4. SignPart' \o SoFar(0)' = SignPart'
  BY <1>3
<1>5. Begins(SignPart \o SoFar(0))'
  BY <1>4 DEF Begins
<1>6. left' \in 0 .. r' /\ disc' = g[left' - 1] /\ ToSize(n)' \in Nat /\ ToSize(n)' < g[left']
  BY <1>1
<1>8. ~(left' < r') /\ 0 \in Nat
  BY <1>1
<1> QED BY <1>2, <1>5, <1>6, <1>7, <1>8, Zenon DEF AtDigits

LEMMA KnownConverts ==
  ASSUME Converting, MagnitudeKnown
  PROVE  Converting'
<1>1. /\ at = "magnitude" /\ f # 0 /\ ToSize(n) \div f = 0 /\ call' = call /\ n' = n /\ r' = r
      /\ left' = r /\ val' = call.base /\ to' = r - 1 /\ off' = off /\ buff' = buff
      /\ IF r = 1 THEN disc' = 1 /\ at' = "digits" ELSE at' = "pow"
  BY DEF MagnitudeKnown
<1> SUFFICES ASSUME TypedCall, Readable, Converts, off = Len(SignPart) PROVE Converts'
  BY <1>1, Turns
<1>2. PICK g : AtMagnitude(g)
  BY <1>1 DEF Converts
<1>3. PICK b \in 2 .. 16 : b = call.base /\ b < W
  BY CallFacts
<1>4. Size \in Nat /\ ToSize(n) = Size /\ f \in Nat
  BY <1>2, CallFacts, Fits DEF AtMagnitude
<1>5. f > Size
  BY <1>1, <1>4, QuotientZero
<1>6. g[r] > Size
  BY <1>2, <1>5, Fits
<1>7. r \in Nat /\ r >= 1 /\ Powers(g, b, r) /\ Scale(g)
  BY <1>2, <1>3 DEF AtMagnitude, Scale
<1>8. Tower' = Tower /\ Size' = Size /\ SignPart' = SignPart /\ TypedCall'
  BY <1>1, CallKept
<1>9. Scale(g)'
  BY <1>1, <1>7, <1>8 DEF Scale
<1>10. Begins(SignPart)' /\ (ToSize(n) = Size)' /\ (Size < g[r])'
  BY <1>1, <1>4, <1>6, <1>8 DEF Converts, Begins, ToSize
<1>11. CASE r = 1
  <2>1. g[0] = 1
    BY <1>7 DEF Powers
  <2>2. disc' = g[r' - 1] /\ left' = r'
    BY <1>1, <1>11, <2>1
  <2>3. AtDigits(g, 0)'
    BY <1>4, <1>8, <1>9, <1>10, <2>2, SignLength, Starts
  <2> QED BY <1>1, <1>8, <1>11, <2>3 DEF Converts
<1>12. CASE r # 1
  <2>1. g[1] = b
    BY <1>7 DEF Powers
  <2>2. to' \in 1 .. r' - 1 /\ val' = g[r' - to'] /\ left' = r'
    BY <1>1, <1>3, <1>7, <1>12, <2>1
  <2>3. AtPow(g)'
    BY <1>9, <1>10, <2>2 DEF AtPow
  <2> QED BY <1>1, <1>8, <1>10, <1>12, <2>3 DEF Converts
<1> QED BY <1>11, <1>12

LEMMA PowerConverts ==
  ASSUME Converting, Power
  PROVE  Converting'
<1>1. /\ at = "pow" /\ call' = call /\ n' = n /\ r' = r /\ left' = left /\ off' = off /\ buff' = buff
      /\ IF to = 1 THEN disc' = val /\ at' = "digits"
                   ELSE val' = ToSize(val * call.base) /\ to' = to - 1 /\ at' = at
  BY DEF Power
<1> SUFFICES ASSUME TypedCall, Readable, Converts, off = Len(SignPart) PROVE Converts'
  BY <1>1, Turns
<1>2. PICK g : AtPow(g)
  BY <1>1 DEF Converts
<1>3. PICK b \in 2 .. 16 : b = call.base /\ b < W
  BY CallFacts
<1>4. /\ r \in Nat /\ r >= 1 /\ Powers(g, b, r) /\ Scale(g) /\ \A j \in 0 .. r - 1 : g[j] < W
      /\ to \in 1 .. r - 1 /\ val = g[r - to] /\ left = r /\ Size < g[r] /\ ToSize(n) = Size
  BY <1>2, <1>3 DEF AtPow, Scale
<1>5. Tower' = Tower /\ Size' = Size /\ SignPart' = SignPart /\ TypedCall'
  BY <1>1, CallKept
<1>6. Scale(g)'
  BY <1>1, <1>4, <1>5 DEF Scale
<1>7. Begins(SignPart)' /\ (ToSize(n) = Size)' /\ (Size < g[r])'
  BY <1>1, <1>4, <1>5 DEF Converts, Begins, ToSize
<1>8. CASE to = 1
  <2>1. disc' = g[r' - 1] /\ left' = r'
    BY <1>1, <1>4, <1>8
  <2>2. AtDigits(g, 0)'
    BY <1>5, <1>6, <1>7, <2>1, CallFacts, SignLength, Starts
  <2> QED BY <1>1, <1>5, <1>8, <2>2 DEF Converts
<1>9. CASE to # 1
  <2>1. PICK k \in 1 .. r - 1 : k = r - to + 1
    BY <1>4, <1>9
  <2>2. k - 1 = r - to
    BY <1>4, <2>1
  <2>7. g[k] = g[k - 1] * b /\ g[k] \in Nat /\ g[k] < W
    <3>1. k \in 1 .. r /\ k \in 0 .. r - 1
      BY <1>4
    <3>2. /\ \A j \in 1 .. r : g[j] = g[j - 1] * b
          /\ \A j \in 0 .. r : g[j] \in Nat
      BY <1>4 DEF Powers
    <3> QED BY <1>4, <3>1, <3>2
  <2>3. val' = g[k] % W
    BY <1>1, <1>3, <1>4, <1>9, <2>2, <2>7 DEF ToSize
  <2>4. g[k] % W = g[k]
    <3>1. W \in Nat /\ W > 0 /\ g[k] \in 0 .. W - 1
      BY <2>7, Machine
    <3> QED BY <3>1, Small
  <2>5. to' \in 1 .. r' - 1 /\ val' = g[r' - to'] /\ left' = r'
    BY <1>1, <1>4, <1>9, <2>1, <2>3, <2>4
  <2>6. AtPow(g)'
    BY <1>6, <1>7, <2>5 DEF AtPow
  <2> QED BY <1>1, <1>5, <1>7, <1>9, <2>6 DEF Converts
<1> QED BY <1>8, <1>9

LEMMA NumeralLength ==
  ASSUME TypedCall, NEW g, Scale(g), Size < g[r]
  PROVE  /\ Digits \in Seq(Figures) /\ Len(Digits) = r
         /\ Numeral = SignPart \o Digits /\ Len(Numeral) = Len(SignPart) + r
<1>1. PICK b \in 2 .. 16, z \in Nat : b = call.base /\ z = Size
  BY CallFacts
<1>2. Written(Figured, b, z) /\ Digits = Figured[z]
  BY <1>1, FiguredIs
<1>3. r \in Nat /\ r >= 1 /\ Powers(g, b, r) /\ z < g[r] /\ (r = 1 \/ g[r - 1] <= z)
  BY <1>1 DEF Scale
<1>4. z \in 0 .. z /\ r \in 1 .. r
  BY <1>3
<1>5. Len(Figured[z]) = r
  <2>1. \A m \in 1 .. r : \A k \in 0 .. z :
           k < g[m] /\ (m = 1 \/ g[m - 1] <= k) => Len(Figured[k]) = m
    <3>1. b \in 2 .. 16 /\ z \in Nat
      BY <1>1
    <3>2. Written(Figured, b, z) /\ r \in Nat /\ Powers(g, b, r)
      BY <1>2, <1>3
    <3>3. PICK w \in Nat : w = r
      BY <3>2
    <3>6. PICK h : h = Figured
      OBVIOUS
    <3>4. Written(h, b, z) /\ Powers(g, b, w) /\ w \in Nat
      BY <3>2, <3>3, <3>6
    <3>5. \A m \in 1 .. w : \A k \in 0 .. z :
            k < g[m] /\ (m = 1 \/ g[m - 1] <= k) => Len(h[k]) = m
      BY <3>1, <3>4, WrittenLength
    <3> QED BY <3>3, <3>5, <3>6
  <2> QED BY <1>3, <1>4, <2>1
<1>6. Figured[z] \in Seq(Figures)
  BY <1>2, <1>4, WrittenInFigures
<1>7. Numeral = SignPart \o Digits
  BY DEF Numeral, SignPart
<1>8. SignPart \in Seq(Figures \cup {"-"}) /\ Digits \in Seq(Figures \cup {"-"})
  BY <1>2, <1>6, SignLength
<1>9. Len(SignPart \o Digits) = Len(SignPart) + Len(Digits)
  BY <1>8
<1> QED BY <1>2, <1>5, <1>6, <1>7, <1>9

(* A store after what the buffer begins with. *)
LEMMA BeginsMore ==
  ASSUME NEW S, NEW s \in Seq(S), NEW t \in Seq(S), NEW x \in S,
         NEW p \in Nat, Len(s \o t) = p, BufSize \in Nat, p < BufSize, Begins(s \o t),
         buff = [j \in 0 .. BufSize - 1 |-> buff[j]], buff' = [buff EXCEPT ![p] = x]
  PROVE  Begins(s \o Append(t, x))' /\ buff' = [j \in 0 .. BufSize - 1 |-> buff'[j]]
<1>1. /\ Len(s \o Append(t, x)) = p + 1
      /\ \A j \in 1 .. p : (s \o Append(t, x))[j] = (s \o t)[j]
      /\ (s \o Append(t, x))[p + 1] = x
  OBVIOUS
<1>2. p \in 0 .. BufSize - 1
  BY <1>1
<1>3. buff' = [j \in 0 .. BufSize - 1 |-> IF j = p THEN x ELSE buff[j]]
  BY <1>2
<1>4. \A j \in 1 .. p : buff'[j - 1] = buff[j - 1]
  BY <1>2, <1>3
<1>5. \A j \in 1 .. p : buff[j - 1] = (s \o t)[j]
  BY <1>1 DEF Begins
<1>6. buff'[p] = x
  BY <1>2, <1>3
<1>7. ASSUME NEW j \in 1 .. p + 1 PROVE buff'[j - 1] = (s \o Append(t, x))[j]
  <2>1. CASE j \in 1 .. p
    BY <1>1, <1>4, <1>5, <2>1
  <2>2. CASE j = p + 1
    BY <1>1, <1>6, <2>2
  <2> QED BY <2>1, <2>2
<1>8. buff' = [j \in 0 .. BufSize - 1 |-> buff'[j]]
  BY <1>3
<1>9. Len(s \o Append(t, x)) <= BufSize
  BY <1>1
<1> QED BY <1>1, <1>7, <1>8, <1>9 DEF Begins

LEMMA Regrouped ==
  ASSUME NEW u \in Nat, NEW b \in Nat, NEW q \in Nat, NEW c \in Nat, NEW m \in Nat
  PROVE  (u * b) * q + (u * c + m) = u * (b * q + c) + m
BY Z3

LEMMA DigitNeverTraps ==
  ASSUME Converting, DigitTraps
  PROVE  Converting'
<1>1. at = "digits" /\ left > 0 /\ disc = 0 /\ call' = call /\ at' = "trapped"
  BY DEF DigitTraps, Trap
<1> SUFFICES ASSUME TypedCall, Readable, Converts PROVE FALSE
  BY <1>1, Turns
<1>2. PICK g, q : AtDigits(g, q)
  BY <1>1 DEF Converts
<1>3. PICK b \in 2 .. 16 : b = call.base
  BY CallFacts
<1>4. r \in Nat /\ Powers(g, b, r) /\ left \in 0 .. r /\ disc = g[left - 1]
  BY <1>1, <1>2, <1>3 DEF AtDigits, Scale
<1>5. left - 1 \in 0 .. r
  BY <1>1, <1>4
<1>6. g[left - 1] >= 1 /\ g[left - 1] \in Nat
  BY <1>4, <1>5, PowersPositive
<1> QED BY <1>1, <1>4, <1>6

LEMMA BreaksConverts ==
  ASSUME Converting, Breaks
  PROVE  Converting'
<1>1. /\ at = "digits" /\ Place >= BufSize /\ call' = call /\ at' = "broken"
      /\ off' = off /\ buff' = buff
  BY DEF Breaks
<1> SUFFICES ASSUME TypedCall, Readable, Converts, off = Len(SignPart) PROVE Converts'
  BY <1>1, Turns
<1>2. PICK g, q : AtDigits(g, q)
  BY <1>1 DEF Converts
<1>3. r \in Nat /\ left \in 0 .. r /\ Len(Numeral) = Len(SignPart) + r
  BY <1>2, NumeralLength DEF AtDigits, Scale
<1>4. Len(SignPart) \in Nat /\ BufSize \in Nat
  BY SignLength, CallFacts
<1>5. BufSize < Len(Numeral) + 1
  BY <1>1, <1>3, <1>4 DEF Place
<1>6. SignPart' = SignPart /\ Numeral' = Numeral
  BY <1>1, CallKept
<1> QED BY <1>1, <1>5, <1>6 DEF Converts

LEMMA TerminateConverts ==
  ASSUME Converting, Terminate
  PROVE  Converting'
<1>1. /\ at = "digits" /\ left = 0 /\ Place < BufSize /\ buff' = [buff EXCEPT ![Place] = Nul]
      /\ at' = "done" /\ call' = call /\ off' = off
  BY DEF Terminate
<1> SUFFICES ASSUME TypedCall, Readable, Converts, off = Len(SignPart) PROVE Converts'
  BY <1>1, Turns
<1>2. PICK g, q : AtDigits(g, q)
  BY <1>1 DEF Converts
<1>3. /\ Digits \in Seq(Figures) /\ Len(Digits) = r /\ r \in Nat /\ r >= 1
      /\ Numeral = SignPart \o Digits /\ Len(Numeral) = Len(SignPart) + r
  BY <1>2, NumeralLength DEF AtDigits, Scale
<1>4. q = Size
  <2>1. g[0] = 1 /\ ToSize(n) \in Nat /\ ToSize(n) < g[0] /\ Size = g[0] * q + ToSize(n) /\ q \in Nat
    BY <1>1, <1>2 DEF AtDigits, Scale, Powers
  <2>2. ToSize(n) = 0 /\ Size = 1 * q + ToSize(n)
    BY <2>1
  <2> QED BY <2>1, <2>2
<1>5. Begins(Numeral)
  <2>1. left # r
    BY <1>1, <1>3
  <2>2. SoFar(q) = Digits
    BY <1>4, <2>1, FiguredIs DEF SoFar
  <2> QED BY <1>2, <1>3, <2>2 DEF AtDigits
<1>6. PICK p \in Nat : p = Place /\ p = Len(Numeral) /\ p < BufSize
  BY <1>1, <1>3, SignLength DEF Place
<1>7. BufSize \in Nat /\ buff = [j \in 0 .. BufSize - 1 |-> buff[j]]
  BY CallFacts DEF Converts
<1>8. buff' = [j \in 0 .. BufSize - 1 |-> IF j = p THEN Nul ELSE buff[j]]
  BY <1>1, <1>6, <1>7
<1>9. buff' = [j \in 0 .. BufSize - 1 |-> buff'[j]]
  BY <1>8
<1>10. SignPart' = SignPart /\ Numeral' = Numeral
  BY <1>1, CallKept
<1>11. Begins(Numeral)'
  <2>1. \A j \in 1 .. p : j - 1 \in 0 .. BufSize - 1 /\ j - 1 # p
    BY <1>6, <1>7
  <2>2. \A j \in 1 .. p : buff'[j - 1] = buff[j - 1]
    BY <1>8, <2>1
  <2> QED BY <1>5, <1>6, <1>10, <2>2 DEF Begins
<1>12. buff'[p] = Nul
  BY <1>6, <1>7, <1>8
<1>13. AtDone'
  BY <1>6, <1>10, <1>11, <1>12 DEF AtDone
<1> QED BY <1>1, <1>9, <1>10, <1>13 DEF Converts

(* The next digit and what it leaves: c is the quotient, m the remainder.  *)
LEMMA DigitFound ==
  ASSUME TypedCall, NEW g, NEW q, AtDigits(g, q), left > 0
  PROVE  \E b \in 2 .. 16, u \in Nat, c \in Nat, m \in Nat :
           /\ b = call.base /\ u = disc /\ u = g[left - 1] /\ u >= 1 /\ c < b /\ m < u
           /\ c = ToSize(n) \div u /\ m = ToSize(n) % u
           /\ Size = u * (b * q + c) + m
           /\ (left = r /\ r > 1 => c >= 1)
<1>1. PICK b \in 2 .. 16 : b = call.base
  BY CallFacts
<1>2. /\ r \in Nat /\ r >= 1 /\ Powers(g, b, r) /\ left \in 1 .. r /\ disc = g[left - 1]
      /\ q \in Nat /\ ToSize(n) \in Nat /\ ToSize(n) < g[left] /\ Size = g[left] * q + ToSize(n)
      /\ (left = r => q = 0) /\ (r > 1 => g[r - 1] <= Size)
  BY <1>1 DEF AtDigits, Scale
<1>3. left - 1 \in 0 .. r /\ left \in 1 .. r
  BY <1>2
<1>4. PICK u \in Nat : u = g[left - 1] /\ u >= 1
  BY <1>1, <1>2, <1>3, PowersPositive
<1>5. g[left] = u * b
  BY <1>2, <1>3, <1>4 DEF Powers
<1>6. PICK t \in Nat : t = ToSize(n)
  BY <1>2
<1>7. PICK c \in Nat, m \in Nat : c = t \div u /\ m = t % u /\ t = u * c + m /\ m < u
  <2>1. u > 0
    BY <1>4
  <2>2. \E c \in Nat, m \in 0 .. u - 1 : c = t \div u /\ m = t % u /\ t = u * c + m
    BY <1>4, <1>6, <2>1, Divides, Zenon
  <2>3. PICK x \in Nat, y \in 0 .. u - 1 : x = t \div u /\ y = t % u /\ t = u * x + y
    BY <2>2
  <2>4. y \in Nat /\ y < u
    BY <1>4, <2>3
  <2> QED BY <2>3, <2>4, Zenon
<1>14. u \in Nat /\ c \in Nat /\ m \in Nat /\ q \in Nat /\ t \in Nat /\ b \in 2 .. 16
  BY <1>1, <1>2, <1>4, <1>6, <1>7, Zenon
<1>15. u * c \in Nat /\ u * b \in Nat /\ (u * b) * q \in Nat
  BY <1>14
<1>8. t < u * b /\ Size = (u * b) * q + (u * c + m)
  BY <1>2, <1>5, <1>6, <1>7
<1>9. c < b
  <2> SUFFICES ASSUME c >= b PROVE FALSE
    BY <1>1, <1>7
  <2>1. u * c >= u * b
    BY <1>14, Z3
  <2>2. u * c <= t
    BY <1>7, <1>14, <1>15
  <2> QED BY <1>8, <1>14, <1>15, <2>1, <2>2
<1>10. Size = u * (b * q + c) + m
  <2>1. b \in Nat /\ q \in Nat /\ c \in Nat /\ m \in Nat /\ u \in Nat
    BY <1>14
  <2>2. (u * b) * q + (u * c + m) = u * (b * q + c) + m
    BY <2>1, Regrouped
  <2> QED BY <1>8, <2>2, Zenon
<1>11. left = r /\ r > 1 => c >= 1
  <2> SUFFICES ASSUME left = r, r > 1, c = 0 PROVE FALSE
    BY <1>7
  <2>1. u * c = 0 /\ (u * b) * q = 0
    <3>1. q = 0
      BY <1>2
    <3>2. \A k \in Nat : k * 0 = 0
      OBVIOUS
    <3> QED BY <1>14, <1>15, <3>1, <3>2
  <2>2. Size = m
    BY <1>7, <1>8, <2>1
  <2>3. u <= Size
    BY <1>2, <1>4
  <2> QED BY <1>4, <1>7, <2>2, <2>3
<1>12. m \in Nat /\ m < u
  BY <1>4, <1>7
<1>13. c = ToSize(n) \div u /\ m = ToSize(n) % u /\ disc = u
  BY <1>2, <1>4, <1>6, <1>7
<1> QED BY <1>1, <1>4, <1>7, <1>9, <1>10, <1>11, <1>12, <1>13

LEMMA WriteConverts ==
  ASSUME Converting, WriteDigit
  PROVE  Converting'
<1>1. /\ at = "digits" /\ left > 0 /\ Place < BufSize
      /\ buff' = [buff EXCEPT ![Place] = CharOf(ToSize(n) \div disc)]
      /\ n' = ToType(ToSize(n) % disc, call.type)
      /\ disc' = disc \div call.base /\ left' = left - 1
      /\ at' = at /\ call' = call /\ r' = r /\ off' = off
  BY DEF WriteDigit
<1> SUFFICES ASSUME TypedCall, Readable, Converts, off = Len(SignPart) PROVE Converts'
  BY <1>1, Turns
<1>2. PICK g, q : AtDigits(g, q)
  BY <1>1 DEF Converts
<1>3. PICK b \in 2 .. 16, u \in Nat, c \in Nat, m \in Nat :
        /\ b = call.base /\ u = disc /\ u = g[left - 1] /\ u >= 1 /\ c < b /\ m < u
        /\ c = ToSize(n) \div u /\ m = ToSize(n) % u
        /\ Size = u * (b * q + c) + m
        /\ (left = r /\ r > 1 => c >= 1)
  BY <1>1, <1>2, DigitFound
<1>21. b \in 2 .. 16 /\ u \in Nat /\ c \in Nat /\ m \in Nat /\ c < b /\ m < u /\ u >= 1
  BY <1>3, Zenon
<1>22. b \in Nat /\ b >= 2 /\ c \in 0 .. b - 1 /\ c \in 0 .. 15
  BY <1>21
<1>4. /\ r \in Nat /\ r >= 1 /\ Powers(g, b, r) /\ left \in 1 .. r /\ Scale(g) /\ Size < g[r]
      /\ q \in Nat /\ (left = r => q = 0) /\ (left < r /\ r > 1 => q >= 1)
      /\ Len(SoFar(q)) = r - left /\ Begins(SignPart \o SoFar(q)) /\ Size = g[left] * q + ToSize(n)
      /\ g[left] \in Nat /\ g[left] >= 1 /\ ToSize(n) \in Nat
  <2>1. r \in Nat /\ Powers(g, b, r) /\ left \in 0 .. r
    BY <1>2, <1>3 DEF AtDigits, Scale
  <2>2. g[left] \in Nat /\ g[left] >= 1
    BY <1>22, <2>1, PowersPositive
  <2>3. left \in 1 .. r
    BY <1>1, <2>1
  <2> QED BY <1>2, <2>1, <2>2, <2>3 DEF AtDigits, Scale
<1>5. PICK w \in Nat : w = b * q + c
  <2>1. q \in Nat
    BY <1>4
  <2> QED BY <1>21, <1>22, <2>1
<1>6. w % b = c /\ w \div b = q
  BY <1>4, <1>5, <1>22, DividesOnce
<1>7. Size = u * w + m /\ Size \in Nat /\ w \in 0 .. Size /\ m \in 0 .. Size /\ q \in 0 .. Size
  <2>1. Size = u * w + m /\ Size \in Nat
    BY <1>3, <1>5, CallFacts, Zenon
  <2>2. u * w >= w /\ u * w \in Nat
    BY <1>5, <1>21, Z3
  <2>3. g[left] * q >= q /\ g[left] * q \in Nat
    <3>1. \A k \in Nat : k >= 1 => k * q >= q /\ k * q \in Nat
      <4>1. q \in Nat
        BY <1>4
      <4> QED BY <4>1, Z3
    <3> QED BY <1>4, <3>1, Zenon
  <2>4. u * w <= Size /\ m <= Size
    BY <1>5, <1>21, <2>1, <2>2
  <2>5. q <= Size /\ q \in Nat
    <3>1. PICK k \in Nat : k = g[left] * q
      BY <2>3
    <3>2. Size = k + ToSize(n) /\ q \in Nat /\ ToSize(n) \in Nat /\ k >= q
      BY <1>4, <2>3, <3>1
    <3> QED BY <3>1, <3>2
  <2>6. w <= Size
    BY <1>5, <2>1, <2>2, <2>4
  <2> QED BY <1>5, <1>21, <2>1, <2>4, <2>5, <2>6
<1>8. ToSize(n') = m
  BY <1>1, <1>3, <1>7, ReadsBack
<1>9. PICK x \in Figures : x = CharOf(ToSize(n) \div disc) /\ x = baseChar[c + 1]
  <2>1. CharOf(c) = baseChar[c + 1] /\ baseChar[c + 1] \in Figures
    BY <1>22, FiguresAre
  <2> QED BY <1>3, <2>1, Zenon
<1>10. SignPart' = SignPart /\ Size' = Size /\ Figured' = Figured /\ call'.base = b
  BY <1>1, <1>3, CallKept
<1>11. Written(Figured, b, Size)
  BY <1>3, FiguredIs
<1>12. SoFar(q) \in Seq(Figures) /\ Figured[w] = Append(SoFar(q), x)
  <2>2. Figured[w] = IF w \div b = 0 THEN <<baseChar[(w % b) + 1]>>
                                     ELSE Append(Figured[w \div b], baseChar[(w % b) + 1])
    BY <1>7, <1>11, <1>22, OneMore
  <2>3. Figured[w] = IF q = 0 THEN <<x>> ELSE Append(Figured[q], x)
    BY <1>6, <1>9, <2>2
  <2>4. CASE left = r
    <3>1. q = 0 /\ SoFar(q) = <<>>
      BY <1>4, <2>4 DEF SoFar
    <3>2. <<x>> = Append(<<>>, x) /\ <<>> \in Seq(Figures)
      OBVIOUS
    <3> QED BY <2>3, <3>1, <3>2, Zenon
  <2>5. CASE left # r
    <3>1. q # 0
      BY <1>4, <2>5
    <3>2. SoFar(q) = Figured[q] /\ Figured[q] \in Seq(Figures)
      BY <1>7, <1>11, <1>21, <2>5, WrittenInFigures DEF SoFar
    <3> QED BY <2>3, <3>1, <3>2, Zenon
  <2> QED BY <2>4, <2>5
<1>13. left' \in 0 .. r' /\ left' # r'
  BY <1>1, <1>4
<1>14. SoFar(w)' = Append(SoFar(q), x)
  BY <1>10, <1>12, <1>13 DEF SoFar
<1>15. Len(SoFar(w))' = r' - left'
  <2>1. Len(Append(SoFar(q), x)) = Len(SoFar(q)) + 1
    BY <1>9, <1>12
  <2>2. r - left + 1 = r' - left'
    BY <1>1, <1>4
  <2> QED BY <1>4, <1>14, <2>1, <2>2
<1>16. Begins(SignPart \o SoFar(w))' /\ buff' = [j \in 0 .. BufSize - 1 |-> buff'[j]]
  <2> DEFINE Signs == Figures \cup {"-"}
  <2>1. PICK s \in Seq(Signs), t \in Seq(Signs) : s = SignPart /\ t = SoFar(q)
    BY <1>12, SignLength
  <2>2. PICK p \in Nat : p = Place /\ p = Len(s) + Len(t)
    <3>1. Len(s) = off /\ Len(t) = r - left /\ Len(s) \in Nat
      BY <1>4, <2>1
    <3>2. Len(s) + Len(t) \in Nat /\ Place = Len(s) + Len(t)
      BY <1>4, <3>1 DEF Place
    <3> QED BY <3>2
  <2>3. Len(s \o t) = p /\ x \in Signs
    BY <1>9, <2>1, <2>2
  <2>4. /\ BufSize \in Nat /\ p < BufSize /\ Begins(s \o t)
        /\ buff = [j \in 0 .. BufSize - 1 |-> buff[j]] /\ buff' = [buff EXCEPT ![p] = x]
    BY <1>1, <1>4, <1>9, <2>1, <2>2, CallFacts DEF Converts
  <2>5. Begins(s \o Append(t, x))' /\ buff' = [j \in 0 .. BufSize - 1 |-> buff'[j]]
    BY <2>1, <2>2, <2>3, <2>4, BeginsMore
  <2>6. (SignPart \o SoFar(w))' = s \o Append(t, x)
    BY <1>10, <1>14, <2>1
  <2> QED BY <2>5, <2>6 DEF Begins
<1>17. left' > 0 => disc' = g[left' - 1]
  <2> SUFFICES ASSUME left' > 0 PROVE disc' = g[left' - 1]
    OBVIOUS
  <2>1. left - 1 \in 1 .. r /\ left' - 1 = left - 2
    BY <1>1, <1>4
  <2>2. PICK v \in Nat : v = g[left - 2] /\ u = v * b
    <3>1. left - 2 \in 0 .. r /\ (left - 1) - 1 = left - 2
      BY <1>4, <2>1
    <3>2. g[left - 2] \in Nat /\ g[left - 1] = g[left - 2] * b
      BY <1>4, <2>1, <3>1 DEF Powers
    <3> QED BY <1>3, <3>2, Zenon
  <2>3. u = b * v + 0 /\ 0 \in 0 .. b - 1
    BY <1>21, <1>22, <2>2
  <2>4. u \div b = v
    BY <1>21, <1>22, <2>2, <2>3, DividesOnce
  <2> QED BY <1>1, <1>3, <2>1, <2>2, <2>4
<1>18. left' < r' /\ r' > 1 => w >= 1
  <2> SUFFICES ASSUME r > 1 PROVE w >= 1
    BY <1>1
  <2>1. CASE left = r
    BY <1>3, <1>4, <1>5, <2>1
  <2>2. CASE left # r
    <3>1. q >= 1
      BY <1>4, <2>2
    <3>2. b * q >= 1 /\ b * q \in Nat
      <4>1. q \in Nat
        BY <1>4
      <4> QED BY <1>22, <3>1, <4>1, Z3
    <3> QED BY <1>5, <1>21, <3>2
  <2> QED BY <2>1, <2>2
<1>19. Scale(g)'
  BY <1>1, <1>4, <1>10 DEF Scale
<1>20. AtDigits(g, w)'
  <2>1. left' = left - 1 /\ g[left'] = u /\ ToSize(n)' = m /\ (Size < g[r])'
    BY <1>1, <1>3, <1>4, <1>8, <1>10 DEF ToSize
  <2>2. ToSize(n)' \in Nat /\ ToSize(n)' < g[left'] /\ (Size = g[left] * w + ToSize(n))'
    BY <1>3, <1>7, <1>10, <2>1
  <2> QED BY <1>5, <1>13, <1>15, <1>16, <1>17, <1>18, <1>19, <2>1, <2>2, Zenon DEF AtDigits
<1> QED BY <1>1, <1>10, <1>16, <1>20 DEF Converts

(* The conversion does not notice what becomes of its result. *)
LEMMA ConvertingKept ==
  ASSUME Converting, UNCHANGED numVars
  PROVE  Converting'
<1>1. /\ at' = at /\ call' = call /\ n' = n /\ f' = f /\ r' = r /\ val' = val /\ to' = to
      /\ disc' = disc /\ left' = left /\ off' = off /\ buff' = buff
  BY DEF numVars
<1>2. CASE at = "idle"
  BY <1>1, <1>2 DEF Converting
<1>3. CASE at # "idle"
  <2> SUFFICES ASSUME Readable, Converts PROVE Converts'
    BY <1>1, <1>3, Midway, CallKept DEF Converting
  <2>1. Size' = Size /\ TopPower' = TopPower /\ Tower' = Tower /\ Figured' = Figured
        /\ SignPart' = SignPart /\ Numeral' = Numeral
    BY <1>1, CallKept
  <2>2. \A g : Scale(g) => Scale(g)'
    BY <1>1, <2>1 DEF Scale
  <2>3. \A g : AtMagnitude(g) => AtMagnitude(g)'
    BY <1>1, <2>1, <2>2 DEF AtMagnitude, ToSize
  <2>4. \A g : AtPow(g) => AtPow(g)'
    BY <1>1, <2>1, <2>2 DEF AtPow, ToSize
  <2>5. \A g, q : AtDigits(g, q) => AtDigits(g, q)'
    BY <1>1, <2>1, <2>2 DEF AtDigits, SoFar, Begins, ToSize
  <2>6. AtDone => AtDone'
    BY <1>1, <2>1 DEF AtDone, Begins
  <2>7. Begins(SignPart) => Begins(SignPart)'
    BY <1>1, <2>1 DEF Begins
  <2> QED BY <1>1, <2>1, <2>3, <2>4, <2>5, <2>6, <2>7 DEF Converts
<1> QED BY <1>2, <1>3

LEMMA NumberConverts ==
  ASSUME Converting, NumberNext
  PROVE  Converting'
BY CallConverts, SignConverts, MagnitudeNeverTraps, GrowsConverts, KnownConverts, PowerConverts,
   DigitNeverTraps, BreaksConverts, WriteConverts, TerminateConverts DEF NumberNext

-----------------------------------------------------------------------------
(* Messages: a static string made in a stack full of s has the text t, and *)
(* s after it.                                                             *)
Letters == (STRING \ {Nul}) \cup Figures \cup {"-"}

StringOf(t, s) ==
  [d |-> [j \in 0 .. Cap - 1 |-> IF j < Len(t) THEN t[j + 1] ELSE s], len |-> Len(t)]

LEMMA NoNul == Nul \notin Letters
BY FiguresAre DEF Letters, Nul

LEMMA LeastIs ==
  ASSUME NEW S \in SUBSET Int, NEW p \in S, \A j \in S : p <= j
  PROVE  Min(S) = p
<1>1. \A j \in S : (\A k \in S : j <= k) => j = p
  OBVIOUS
<1> QED BY <1>1 DEF Min

LEMMA ReadsTo0 ==
  ASSUME NEW w, NEW k \in Nat, NEW t \in Seq(Letters), Len(t) < k,
         \A j \in 1 .. Len(t) : w[j - 1] = t[j], w[Len(t)] = Nul
  PROVE  UpToNul(w, k) = t
<1> DEFINE nuls == {j \in 0 .. k - 1 : w[j] = Nul}
<1>1. Len(t) \in nuls /\ nuls \subseteq Int
  OBVIOUS
<1>2. ASSUME NEW j \in nuls PROVE Len(t) <= j
  <2> SUFFICES ASSUME j < Len(t) PROVE FALSE
    OBVIOUS
  <2>1. j + 1 \in 1 .. Len(t) /\ (j + 1) - 1 = j
    OBVIOUS
  <2>2. w[j] = t[j + 1] /\ t[j + 1] \in Letters
    BY <2>1
  <2> QED BY <2>2, NoNul
<1>3. Min(nuls) = Len(t) /\ nuls # {}
  BY <1>1, <1>2, LeastIs
<1> HIDE DEF nuls
<1>4. [j \in 1 .. Len(t) |-> w[j - 1]] = t
  OBVIOUS
<1>5. t \o <<>> = t
  OBVIOUS
<1>6. UpToNul(w, k) = [j \in 1 .. Min(nuls) |-> w[j - 1]] \o <<>>
  BY <1>3, Zenon DEF UpToNul, nuls
<1> QED BY <1>3, <1>4, <1>5, <1>6

LEMMA ReadsPast ==
  ASSUME NEW w, NEW k \in Nat, \A j \in 0 .. k - 1 : w[j] # Nul
  PROVE  UpToNul(w, k) = [j \in 1 .. k |-> w[j - 1]] \o <<NoChar>>
<1>1. {j \in 0 .. k - 1 : w[j] = Nul} = {}
  OBVIOUS
<1> QED BY <1>1, Zenon DEF UpToNul

LEMMA CopiedIs ==
  ASSUME NEW S, NEW t \in Seq(S), Len(t) <= Cap
  PROVE  Copied(t) = t
<1>1. Cap \in Nat
  BY Buffers
<1>2. Min({Len(t), Cap}) = Len(t)
  <2>1. /\ {Len(t), Cap} \in SUBSET Int /\ Len(t) \in {Len(t), Cap}
        /\ \A j \in {Len(t), Cap} : Len(t) <= j
    BY <1>1
  <2> QED BY <2>1, LeastIs
<1>3. SubSeq(t, 1, Len(t)) = t
  OBVIOUS
<1> QED BY <1>2, <1>3 DEF Copied

LEMMA StaticStringIs ==
  ASSUME NEW S, NEW t \in Seq(S), NEW s
  PROVE  StaticString(s, t) = StringOf(t, s)
<1> DEFINE w == [j \in 0 .. Cap - 1 |-> s]
<1>1. Cap \in Nat
  BY Buffers
<1>2. Stored(w, 0, t) = [j \in 0 .. Cap - 1 |-> IF j < Len(t) THEN t[j + 1] ELSE s]
  <2>1. ASSUME NEW j \in 0 .. Cap - 1
        PROVE  (IF j \in 0 .. 0 + Len(t) - 1 THEN t[j - 0 + 1] ELSE w[j]) = IF j < Len(t) THEN t[j + 1] ELSE s
    BY <1>1
  <2> QED BY <2>1 DEF Stored
<1> QED BY <1>2 DEF StaticString, StringOf

LEMMA AppendedIs ==
  ASSUME NEW S, NEW t \in Seq(S), NEW m \in Seq(S), NEW s, Len(m) <= Cap
  PROVE  Appended(StringOf(t, s), m) = StringOf(t \o m, s)
<1> DEFINE w == [j \in 0 .. Cap - 1 |-> IF j < Len(t) THEN t[j + 1] ELSE s]
<1>1. Cap \in Nat /\ Len(t \o m) = Len(t) + Len(m) /\ Copied(m) = m
  BY Buffers, CopiedIs
<1>2. ASSUME NEW j \in 0 .. Cap - 1
      PROVE  (IF j \in Len(t) .. Len(t) + Len(m) - 1 THEN m[j - Len(t) + 1] ELSE w[j])
               = IF j < Len(t \o m) THEN (t \o m)[j + 1] ELSE s
  <2>1. CASE j < Len(t)
    BY <1>1, <2>1
  <2>2. CASE j \in Len(t) .. Len(t) + Len(m) - 1
    <3>1. (t \o m)[j + 1] = m[j + 1 - Len(t)] /\ j + 1 - Len(t) = j - Len(t) + 1
      BY <1>1, <2>2
    <3> QED BY <1>1, <2>2, <3>1
  <2>3. CASE j >= Len(t) + Len(m)
    BY <1>1, <2>3
  <2> QED BY <2>1, <2>2, <2>3
<1>3. Stored(w, Len(t), m)
        = [j \in 0 .. Cap - 1 |-> IF j < Len(t \o m) THEN (t \o m)[j + 1] ELSE s]
  BY <1>2 DEF Stored
<1>4. StringOf(t, s).d = w /\ StringOf(t, s).len = Len(t)
  BY DEF StringOf
<1> HIDE DEF w
<1> QED BY <1>1, <1>3, <1>4 DEF Appended, StringOf

LEMMA CountedIs ==
  ASSUME NEW S, NEW t \in Seq(S), NEW s, Len(t) <= Cap
  PROVE  Counted(StringOf(t, s)) = t
<1>1. Cap \in Nat
  BY Buffers
<1>2. \A j \in 1 .. Len(t) : StringOf(t, s).d[j - 1] = t[j]
  BY <1>1 DEF StringOf
<1>3. StringOf(t, s).len = Len(t)
  BY DEF StringOf
<1> QED BY <1>2, <1>3 DEF Counted

(* What kprint shows of such a string. *)
Shows(t, s, w) ==
  /\ IsPrefix(t, w)
  /\ \A j \in Len(t) + 1 .. Len(w) : w[j] \in {s, NoChar}
  /\ s = Nul /\ Len(t) < Cap => w = t

LEMMA ShownIs ==
  ASSUME NEW t \in Seq(Letters), Len(t) <= Cap, NEW s
  PROVE  Shows(t, s, UpToNul(StringOf(t, s).d, Cap))
<1> DEFINE w == StringOf(t, s).d
<1>1. Cap \in Nat /\ Len(t) \in Nat
  BY Buffers
<1>2. \A j \in 0 .. Cap - 1 : w[j] = IF j < Len(t) THEN t[j + 1] ELSE s
  BY <1>1 DEF StringOf
<1> HIDE DEF w
<1>3. \A j \in 1 .. Len(t) : w[j - 1] = t[j]
  BY <1>1, <1>2
<1>4. CASE s = Nul /\ Len(t) < Cap
  <2>1. w[Len(t)] = Nul
    BY <1>1, <1>2, <1>4
  <2>2. UpToNul(w, Cap) = t
    BY <1>1, <1>3, <1>4, <2>1, ReadsTo0
  <2>3. IsPrefix(t, t) /\ \A j \in Len(t) + 1 .. Len(t) : FALSE
    BY <1>1 DEF IsPrefix
  <2> QED BY <2>2, <2>3 DEF Shows, w
<1>5. CASE ~(s = Nul /\ Len(t) < Cap)
  <2>1. ASSUME NEW j \in 0 .. Cap - 1 PROVE w[j] # Nul
    <3>1. CASE j < Len(t)
      <4>1. j + 1 \in 1 .. Len(t)
        BY <3>1
      <4>2. t[j + 1] \in Letters
        BY <4>1
      <4> QED BY <1>2, <3>1, <4>2, NoNul
    <3>2. CASE ~(j < Len(t))
      BY <1>1, <1>2, <1>5, <3>2
    <3> QED BY <3>1, <3>2
  <2> DEFINE u == [j \in 1 .. Cap |-> w[j - 1]] \o <<NoChar>>
  <2>2. UpToNul(w, Cap) = u
    BY <1>1, <2>1, ReadsPast
  <2>3. PICK S : \A j \in 1 .. Cap : w[j - 1] \in S
    <3>1. \A j \in 1 .. Cap : w[j - 1] \in {w[k - 1] : k \in 1 .. Cap}
      OBVIOUS
    <3> QED BY <3>1
  <2>4. [j \in 1 .. Cap |-> w[j - 1]] \in Seq(S \cup {NoChar}) /\ <<NoChar>> \in Seq(S \cup {NoChar})
    BY <1>1, <2>3
  <2>5. /\ u \in Seq(S \cup {NoChar}) /\ Len(u) = Cap + 1 /\ u[Cap + 1] = NoChar
        /\ \A j \in 1 .. Cap : u[j] = w[j - 1]
    BY <1>1, <2>4
  <2> HIDE DEF u
  <2>6. ASSUME NEW j \in Len(t) + 1 .. Len(u) PROVE u[j] \in {s, NoChar}
    <3>1. CASE j = Cap + 1
      BY <2>5, <3>1
    <3>2. CASE j \in Len(t) + 1 .. Cap
      <4>1. j - 1 \in 0 .. Cap - 1 /\ ~(j - 1 < Len(t)) /\ j \in 1 .. Cap
        BY <1>1, <3>2
      <4> QED BY <1>2, <2>5, <4>1
    <3> QED BY <1>1, <2>5, <3>1, <3>2
  <2>7. IsPrefix(t, u)
    <3>1. Len(t) <= Len(u) /\ \A j \in 1 .. Len(t) : u[j] = t[j]
      BY <1>1, <1>3, <2>5
    <3>2. SubSeq(t, 1, Len(t)) = t
      OBVIOUS
    <3>3. SubSeq(u, 1, Len(t)) = t
      <4>1. SubSeq(u, 1, Len(t)) = [j \in 1 .. Len(t) |-> u[j]]
        BY <1>1, <2>5, <3>1
      <4>2. t = [j \in 1 .. Len(t) |-> t[j]]
        OBVIOUS
      <4> QED BY <3>1, <4>1, <4>2
    <3> QED BY <3>1, <3>2, <3>3 DEF IsPrefix
  <2> QED BY <1>5, <2>2, <2>6, <2>7 DEF Shows, w
<1> QED BY <1>4, <1>5

(* The strings are made of what is said. *)
Telling ==
  /\ stage # "converting" => at = "done"
  /\ Readable /\ at = "done" => 
       /\ stage = "number" => static = [number |-> StringOf(Numeral, stack)]
       /\ stage = "message" =>
            /\ static = [number |-> StringOf(Numeral, stack), message |-> StringOf(said, stack)]
            /\ said \in Seq(Letters) /\ Len(said) <= Cap
       /\ stage = "broken" => Len(said) > Cap
       /\ stage = "shown" => Shows(said, stack, shown)

MessageInv == Converting /\ Telling

(* The number is a text that fits. *)
LEMMA NumeralIs ==
  ASSUME Converting, at = "done", Readable
  PROVE  /\ Numeral \in Seq(Letters) /\ Len(Numeral) < BufSize /\ Len(Numeral) <= Cap
         /\ Begins(Numeral) /\ buff[Len(Numeral)] = Nul /\ BufSize \in Nat
<1>1. TypedCall /\ AtDone
  BY DEF Converting, Converts
<1>2. Numeral \in Seq(Letters)
  <2>1. PICK b \in 2 .. 16, z \in Nat : b = call.base /\ z = Size
    BY <1>1, CallFacts
  <2>2. Written(Figured, b, z) /\ Digits = Figured[z]
    BY <1>1, <2>1, FiguredIs
  <2>3. b \in 2 .. 16 /\ z \in Nat /\ z \in 0 .. z
    BY <2>1
  <2>4. Digits \in Seq(Figures)
    BY <2>2, <2>3, WrittenInFigures
  <2>5. Digits \in Seq(Letters) /\ SignPart \in Seq(Letters)
    BY <1>1, <2>4, SignLength DEF Letters
  <2>6. Numeral = SignPart \o Digits
    BY DEF Numeral, SignPart
  <2> QED BY <2>5, <2>6
<1>3. Cap \in Nat /\ BufSize \in Nat /\ BufSize <= Cap
  BY <1>1, CallFacts, Buffers
<1> QED BY <1>1, <1>2, <1>3 DEF AtDone

LEMMA TextsAre ==
  ASSUME NEW m \in Texts PROVE m \in Seq(Letters) /\ Len(m) <= Cap
<1>1. m \in Seq(STRING \ {Nul})
  BY Literal
<1>2. m \in Seq(Letters)
  BY <1>1 DEF Letters
<1> QED BY <1>2, Buffers

LEMMA NumberKept ==
  ASSUME UNCHANGED numVars
  PROVE  at' = at /\ Numeral' = Numeral /\ (Readable' <=> Readable)
BY CallKept DEF numVars

LEMMA ReturnsTells ==
  ASSUME MessageInv, NumberReturns
  PROVE  MessageInv'
<1>1. /\ at = "done" /\ stage' = "number" /\ UNCHANGED numVars /\ said' = said
      /\ static' = [number |-> StaticString(stack', UpToNul(buff, BufSize))]
  BY DEF NumberReturns
<1>2. at' = at /\ Numeral' = Numeral /\ (Readable' <=> Readable) /\ Converting'
  BY <1>1, NumberKept, ConvertingKept DEF MessageInv
<1>3. ASSUME Readable PROVE static' = [number |-> StringOf(Numeral, stack')]
  <2>1. /\ Numeral \in Seq(Letters) /\ Len(Numeral) < BufSize
        /\ Begins(Numeral) /\ buff[Len(Numeral)] = Nul /\ BufSize \in Nat
    BY <1>1, <1>3, NumeralIs DEF MessageInv
  <2>2. UpToNul(buff, BufSize) = Numeral
    BY <2>1, ReadsTo0 DEF Begins
  <2>3. StaticString(stack', Numeral) = StringOf(Numeral, stack')
    BY <2>1, StaticStringIs
  <2> QED BY <1>1, <2>2, <2>3
<1>4. Telling'
  BY <1>1, <1>2, <1>3 DEF Telling
<1> QED BY <1>2, <1>4 DEF MessageInv

LEMMA ConstructTells ==
  ASSUME MessageInv, NEW m \in Texts, Construct(m)
  PROVE  MessageInv'
<1>1. /\ stage = "number" /\ stage' = "message" /\ UNCHANGED numVars /\ stack' = stack /\ said' = m
      /\ static' = [number |-> static.number, message |-> StaticString(stack, m)]
  BY DEF Construct
<1>2. at' = at /\ Numeral' = Numeral /\ (Readable' <=> Readable) /\ Converting' /\ at = "done"
  BY <1>1, NumberKept, ConvertingKept DEF MessageInv, Telling
<1>3. m \in Seq(Letters) /\ Len(m) <= Cap
  BY TextsAre
<1>4. StaticString(stack, m) = StringOf(m, stack)
  BY <1>3, StaticStringIs
<1>5. Readable => static' = [number |-> StringOf(Numeral, stack), message |-> StringOf(m, stack)]
  BY <1>1, <1>2, <1>4 DEF MessageInv, Telling
<1>6. Telling'
  BY <1>1, <1>2, <1>3, <1>5 DEF Telling
<1> QED BY <1>2, <1>6 DEF MessageInv

(* Text or number, extend appends it or runs over the buffer. *)
LEMMA ExtendTells ==
  ASSUME MessageInv, stage = "message", UNCHANGED numVars, stack' = stack, NEW m,
         extend(m), said' = said \o m, Readable => m \in Seq(Letters) /\ Len(m) <= Cap
  PROVE  MessageInv'
<1>1. at' = at /\ Numeral' = Numeral /\ (Readable' <=> Readable) /\ Converting' /\ at = "done"
  BY NumberKept, ConvertingKept DEF MessageInv, Telling
<1>2. stage' \in {"message", "broken"}
  BY DEF extend
<1>3. CASE ~Readable
  BY <1>1, <1>2, <1>3 DEF Telling, MessageInv
<1>4. CASE Readable
  <2>1. PICK t \in Seq(Letters) : t = said /\ Len(t) <= Cap
    BY <1>1, <1>4 DEF MessageInv, Telling
  <2>2. static = [number |-> StringOf(Numeral, stack), message |-> StringOf(t, stack)]
    BY <1>1, <1>4, <2>1 DEF MessageInv, Telling
  <2>3. m \in Seq(Letters) /\ Len(m) <= Cap /\ Copied(m) = m /\ Cap \in Nat
    BY <1>4, CopiedIs, Buffers
  <2>4. t \o m \in Seq(Letters) /\ Len(t \o m) = Len(t) + Len(m)
    BY <2>1, <2>3
  <2>5. static.message = StringOf(t, stack) /\ static.message.len = Len(t)
    BY <2>2 DEF StringOf
  <2>6. CASE Len(t) + Len(m) > Cap
    <3>1. stage' = "broken"
      BY <2>3, <2>5, <2>6 DEF extend
    <3>2. Len(said') > Cap
      BY <2>1, <2>4, <2>6
    <3> QED BY <1>1, <3>1, <3>2 DEF Telling, MessageInv
  <2>7. CASE ~(Len(t) + Len(m) > Cap)
    <3>1. static' = [static EXCEPT !.message = Appended(@, m)] /\ stage' = stage
      BY <2>3, <2>5, <2>7 DEF extend
    <3>2. Appended(StringOf(t, stack), m) = StringOf(t \o m, stack)
      BY <2>1, <2>3, AppendedIs
    <3>3. static' = [number |-> StringOf(Numeral, stack), message |-> StringOf(t \o m, stack)]
      BY <2>2, <3>1, <3>2
    <3>4. said' = t \o m /\ Len(t \o m) <= Cap
      BY <2>1, <2>3, <2>4, <2>7
    <3> QED BY <1>1, <2>4, <3>1, <3>3, <3>4 DEF Telling, MessageInv
  <2> QED BY <2>6, <2>7
<1> QED BY <1>3, <1>4

LEMMA TextTells ==
  ASSUME MessageInv, NEW m \in Texts, AppendText(m)
  PROVE  MessageInv'
BY TextsAre, ExtendTells DEF AppendText

LEMMA NumberTells ==
  ASSUME MessageInv, AppendNumber
  PROVE  MessageInv'
<1> DEFINE m == Counted(static.number)
<1>1. /\ stage = "message" /\ UNCHANGED numVars /\ stack' = stack /\ extend(m)
      /\ said' = said \o Numeral /\ at = "done" /\ Converting
  BY DEF AppendNumber, MessageInv, Telling
<1>2. ASSUME Readable PROVE m = Numeral /\ Numeral \in Seq(Letters) /\ Len(Numeral) <= Cap
  <2>1. Numeral \in Seq(Letters) /\ Len(Numeral) <= Cap
    BY <1>1, <1>2, NumeralIs
  <2>2. static.number = StringOf(Numeral, stack)
    BY <1>1, <1>2 DEF MessageInv, Telling
  <2> QED BY <2>1, <2>2, CountedIs
<1> HIDE DEF m
<1>3. CASE Readable
  BY <1>1, <1>2, <1>3, ExtendTells
<1>4. CASE ~Readable
  <2>1. at' = at /\ (Readable' <=> Readable) /\ Converting'
    BY <1>1, NumberKept, ConvertingKept
  <2> QED BY <1>1, <1>4, <2>1 DEF Telling, MessageInv
<1> QED BY <1>3, <1>4

LEMMA ShowTells ==
  ASSUME MessageInv, NEW t, NEW o, Show(o), said' = t, stage \in {"number", "message"},
         Readable => o = StringOf(t, stack) /\ t \in Seq(Letters) /\ Len(t) <= Cap
  PROVE  MessageInv'
<1>1. stage' = "shown" /\ stack' = stack /\ UNCHANGED numVars /\ shown' = UpToNul(o.d, Cap)
  BY DEF Show
<1>2. at' = at /\ (Readable' <=> Readable) /\ Converting' /\ at = "done"
  BY <1>1, NumberKept, ConvertingKept DEF MessageInv, Telling
<1>3. Readable => Shows(t, stack, shown')
  BY <1>1, ShownIs
<1>4. Telling'
  BY <1>1, <1>2, <1>3 DEF Telling
<1> QED BY <1>2, <1>4 DEF MessageInv

LEMMA NumberShows ==
  ASSUME MessageInv, ShowNumber
  PROVE  MessageInv'
<1>1. Show(static.number) /\ said' = Numeral /\ stage = "number" /\ at = "done" /\ Converting
  BY DEF ShowNumber, MessageInv, Telling
<1>2. Readable => /\ static.number = StringOf(Numeral, stack)
                  /\ Numeral \in Seq(Letters) /\ Len(Numeral) <= Cap
  BY <1>1, NumeralIs DEF MessageInv, Telling
<1> QED BY <1>1, <1>2, ShowTells

LEMMA MessageShows ==
  ASSUME MessageInv, ShowMessage
  PROVE  MessageInv'
<1>1. Show(static.message) /\ said' = said /\ stage = "message" /\ at = "done"
  BY DEF ShowMessage, MessageInv, Telling
<1>2. Readable => /\ static.message = StringOf(said, stack)
                  /\ said \in Seq(Letters) /\ Len(said) <= Cap
  BY <1>1 DEF MessageInv, Telling
<1> QED BY <1>1, <1>2, ShowTells

(* While the number is converted there is no message. *)
LEMMA ConversionTells ==
  ASSUME MessageInv, NumberNext, UNCHANGED messageVars
  PROVE  MessageInv'
<1>1. at \notin {"done"}
  BY DEF NumberNext, number, Sign, MagnitudeTraps, MagnitudeGrows, MagnitudeKnown, Power, DigitTraps,
         Breaks, WriteDigit, Terminate
<1>2. stage' = "converting"
  BY <1>1 DEF MessageInv, Telling, messageVars
<1>3. Converting'
  BY NumberConverts DEF MessageInv
<1> QED BY <1>2, <1>3 DEF MessageInv, Telling

LEMMA MessageInvKept ==
  ASSUME MessageInv, UNCHANGED <<numVars, messageVars>>
  PROVE  MessageInv'
<1>1. Converting'
  BY ConvertingKept DEF MessageInv
<1>2. at' = at /\ Numeral' = Numeral /\ (Readable' <=> Readable)
  BY NumberKept
<1>3. stage' = stage /\ stack' = stack /\ static' = static /\ said' = said /\ shown' = shown
  BY DEF messageVars
<1>4. Telling'
  BY <1>2, <1>3 DEF MessageInv, Telling
<1> QED BY <1>1, <1>4 DEF MessageInv

LEMMA MessageInvHolds == Spec => []MessageInv
<1>1. Init => MessageInv
  BY DEF Init, NumberInit, MessageInit, MessageInv, Converting, Telling
<1>2. MessageInv /\ [Next]_vars => MessageInv'
  <2> SUFFICES ASSUME MessageInv, [Next]_vars PROVE MessageInv'
    OBVIOUS
  <2>1. CASE MessageNext
    BY <2>1, ConversionTells, ReturnsTells, NumberShows, MessageShows, NumberTells, ConstructTells,
       TextTells DEF MessageNext
  <2>2. CASE UNCHANGED <<numVars, messageVars>>
    BY <2>2, MessageInvKept
  <2>3. CASE UNCHANGED vars
    BY <2>3, MessageInvKept DEF vars
  <2> QED BY <2>1, <2>2, <2>3 DEF Next, Halted, OutOfBlocks, Done
<1> QED BY <1>1, <1>2, PTL DEF Spec

(* Whatever size_t is, and whatever the type of a number and its base: of  *)
(* a number orderOfMagnitude can tell the length of, each message shows    *)
(* the sign and the digits, between its texts, and after it only what was  *)
(* in the stack.                                                           *)
THEOREM MessagesRead == Spec => []MessageShown
<1>1. MessageInv => MessageShown
  BY DEF MessageInv, Telling, Shows, MessageShown
<1> QED BY <1>1, MessageInvHolds, PTL

(* No such number traps.  A conversion overruns its 32 bytes only where    *)
(* sign, digits and 0 are more, and append the 512 only where the message  *)
(* is longer.                                                              *)
THEOREM BuffersAreEnough == Spec => []BuffersSuffice
<1>1. MessageInv => BuffersSuffice
  <2> SUFFICES ASSUME MessageInv PROVE BuffersSuffice
    OBVIOUS
  <2>1. at = "trapped" => ~Readable
    BY DEF MessageInv, Converting, Converts
  <2>2. at = "broken" /\ Readable => Len(Numeral) + 1 > BufSize
    <3> SUFFICES ASSUME at = "broken", Readable PROVE Len(Numeral) + 1 > BufSize
      OBVIOUS
    <3>1. BufSize < Len(Numeral) + 1
      BY DEF MessageInv, Converting, Converts
    <3> QED BY <3>1
  <2>3. stage = "broken" /\ Readable => Len(said) > Cap
    BY DEF MessageInv, Telling
  <2> QED BY <2>1, <2>2, <2>3 DEF BuffersSuffice
<1> QED BY <1>1, MessageInvHolds, PTL

(* The greatest power a size_t can be is one that its base takes past it. *)
LEMMA TowerTops ==
  ASSUME NEW b \in 2 .. 16, NEW h, Tops(h, b, 1)
  PROVE  \A p \in 1 .. W : h[p] \in Nat /\ h[p] * b >= W
<1> DEFINE S == {m \in Nat : \A p \in 1 .. W : p >= W - m => h[p] \in Nat /\ h[p] * b >= W}
<1>1. W \in Nat /\ W >= 1
  BY Machine
<1>2. \A p \in 1 .. W : h[p] = IF p * b < W THEN h[p * b] ELSE p
  BY DEF Tops
<1>3. ASSUME NEW p \in 1 .. W,
             \A k \in 1 .. W : k > p => h[k] \in Nat /\ h[k] * b >= W
      PROVE  h[p] \in Nat /\ h[p] * b >= W
  <2>1. p * b \in Nat /\ p * b > p
    BY <1>1, Z3
  <2>2. CASE p * b < W
    <3>1. p * b \in 1 .. W
      BY <1>1, <2>1, <2>2
    <3>2. h[p * b] \in Nat /\ h[p * b] * b >= W
      BY <1>3, <2>1, <3>1
    <3> QED BY <1>2, <2>2, <3>2
  <2>3. CASE ~(p * b < W)
    <3>1. h[p] = p
      BY <1>2, <2>3
    <3> QED BY <1>1, <2>1, <2>3, <3>1
  <2> QED BY <2>2, <2>3
<1>4. 0 \in S
  BY <1>1, <1>3
<1>5. ASSUME NEW m \in Nat, m \in S PROVE m + 1 \in S
  <2> SUFFICES ASSUME NEW p \in 1 .. W, p >= W - (m + 1) PROVE h[p] \in Nat /\ h[p] * b >= W
    OBVIOUS
  <2>1. \A k \in 1 .. W : k > p => k >= W - m
    BY <1>1
  <2>2. \A k \in 1 .. W : k > p => h[k] \in Nat /\ h[k] * b >= W
    BY <1>5, <2>1
  <2> QED BY <1>3, <2>2
<1> HIDE DEF S
<1>6. Nat \subseteq S
  BY <1>4, <1>5, Induct
<1>7. W \in S /\ \A p \in 1 .. W : p >= W - W
  BY <1>1, <1>6
<1> QED BY <1>7 DEF S

(* Readable excludes little: any number that its base does not take past   *)
(* size_t is such, unless it is the smallest of its type.                  *)
THEOREM SmallNumbersRead ==
  ASSUME TypedCall, Size * call.base < W, call.n # -(call.type.mod \div 2)
  PROVE  Readable
<1>1. PICK b \in 2 .. 16, z \in Nat : b = call.base /\ z = Size
  BY CallFacts
<1>2. z * b < W /\ W \in Nat /\ W >= 1 /\ b \in 2 .. 16
  BY <1>1, Machine
<1>3. PICK p \in Nat : p = TopPower /\ p * b >= W
  <2>1. Tops(Tower, b, 1) /\ TopPower = Tower[1] /\ 1 \in 1 .. W
    BY <1>1, <1>2, TowerIs
  <2>2. Tower[1] \in Nat /\ Tower[1] * b >= W
    BY <1>2, <2>1, TowerTops
  <2> QED BY <2>1, <2>2
<1>4. z < p
  <2> SUFFICES ASSUME z >= p PROVE FALSE
    BY <1>1, <1>3
  <2>1. z * b >= p * b /\ z * b \in Nat /\ p * b \in Nat
    BY <1>1, <1>3, Z3
  <2> QED BY <1>2, <1>3, <2>1
<1>5. ASSUME call.n < 0 PROVE Size = ToSize(ToType(-call.n, call.type))
  <2>1. /\ call.type.mod \in 1 .. W /\ call.type.mod \div 2 \in Nat
        /\ call.type.mod \div 2 < call.type.mod /\ call.type.signed
        /\ call.n >= -(call.type.mod \div 2) /\ Size = -call.n /\ call.n \in Int
    BY <1>5, CallFacts
  <2>2. PICK x \in Nat : x = -call.n
    BY <1>5, <2>1
  <2>3. x < call.type.mod \div 2 /\ x < call.type.mod /\ x < W
    BY <1>2, <2>1, <2>2
  <2>4. x % call.type.mod = x /\ x % W = x
    BY <1>2, <2>1, <2>2, <2>3, Small
  <2>5. ToType(x, call.type) = x
    BY <2>1, <2>2, <2>3, <2>4 DEF ToType
  <2> QED BY <2>1, <2>2, <2>4, <2>5 DEF ToSize
<1> QED BY <1>1, <1>3, <1>4, <1>5 DEF Readable
=============================================================================
