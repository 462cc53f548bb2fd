---------------------------- MODULE StringProofs ----------------------------
(***************************************************************************)
(* Who owns which block of a String, and that strings are values, for any  *)
(* number of strings and blocks and any texts.                             *)
(***************************************************************************)
EXTENDS Strings, SequenceTheorems, TLAPS

Bytes == Seq(Chars)

(* A memory: some blocks with their bytes. *)
Memory(b) == DOMAIN b \subseteq Blocks /\ b \in [DOMAIN b -> Bytes]

Typed ==
  /\ Memory(block)
  /\ string \in [DOMAIN string -> [data : Blocks \cup {Nowhere}, len : Nat]]

IInv == Typed /\ OneOwner

-----------------------------------------------------------------------------
(* The operators on memory. *)

LEMMA SetMemory ==
  ASSUME NEW b, Memory(b), NEW a \in Blocks, NEW x \in Bytes
  PROVE  /\ Memory(Set(b, a, x)) 
         /\ \A c : c \in DOMAIN Set(b, a, x) <=> c \in DOMAIN b \/ c = a
         /\ Set(b, a, x)[a] = x
         /\ \A c \in DOMAIN b \ {a} : Set(b, a, x)[c] = b[c]
BY DEF Memory, Set

LEMMA FreeMemory ==
  ASSUME NEW b, Memory(b), NEW a \in Blocks \cup {Nowhere}
  PROVE  /\ Memory(free(b, a)) /\ DOMAIN free(b, a) = DOMAIN b \ {a}
         /\ \A c \in DOMAIN b \ {a} : free(b, a)[c] = b[c]
<1>1. CASE a = Nowhere
  BY <1>1, StringPointers DEF free, Memory
<1>2. CASE a # Nowhere
  BY <1>2 DEF free, Drop, Restrict, Memory
<1> QED BY <1>1, <1>2

LEMMA StrndupMemory ==
  ASSUME NEW b, Memory(b), NEW a \in Blocks \ DOMAIN b, NEW m \in Bytes
  PROVE  /\ Memory(strndup(b, a, m))
         /\ \A c : c \in DOMAIN strndup(b, a, m) <=> c \in DOMAIN b \/ (c = Given(a, m) /\ c # Nowhere)
         /\ \A c \in DOMAIN b : strndup(b, a, m)[c] = b[c]
         /\ Given(a, m) \in {a, Nowhere}
         /\ IF Given(a, m) = Nowhere THEN Len(m) = 0 ELSE strndup(b, a, m)[a] = m
<1>1. CASE m = <<>>
  BY <1>1, StringPointers DEF strndup, Given, Memory
<1>2. CASE m # <<>>
  <2>1. strndup(b, a, m) = Set(b, a, m) /\ Given(a, m) = a /\ a # Nowhere
    BY <1>2, StringPointers DEF strndup, Given
  <2> QED BY <2>1, SetMemory
<1> QED BY <1>1, <1>2

LEMMA FunctionText ==
  ASSUME NEW k \in Nat, NEW f \in [1 .. k -> Chars]
  PROVE  f \in Bytes /\ Len(f) = k
BY DEF Bytes

(* What is written into a block leaves it as long as it was. *)
LEMMA OverText ==
  ASSUME NEW x \in Bytes, NEW p \in Nat, NEW f \in Bytes
  PROVE  Over(x, p, f) \in Bytes /\ Len(Over(x, p, f)) = Len(x)
<1>1. Over(x, p, f) \in [1 .. Len(x) -> Chars]
  <2> SUFFICES ASSUME NEW j \in 1 .. Len(x), j \in p + 1 .. p + Len(f) PROVE f[j - p] \in Chars
    BY DEF Over, Bytes
  <2>1. j - p \in 1 .. Len(f)
    BY DEF Bytes
  <2> QED BY <2>1 DEF Bytes
<1> QED BY <1>1 DEF Bytes

LEMMA ZerosText ==
  ASSUME NEW k \in Nat
  PROVE  Zeros(k) \in Bytes /\ Len(Zeros(k)) = k
<1>1. Zeros(k) \in [1 .. k -> Chars]
  BY StringTexts DEF Zeros
<1> QED BY <1>1, FunctionText

LEMMA ResizedText ==
  ASSUME NEW x \in Bytes, NEW k \in Nat
  PROVE  Resized(x, k) \in Bytes /\ Len(Resized(x, k)) = k
<1>1. Resized(x, k) \in [1 .. k -> Chars]
  BY StringTexts DEF Resized, Bytes
<1> QED BY <1>1, FunctionText

(* What is read from a string is a text. *)
LEMMA ReadTexts ==
  ASSUME IInv, NEW y \in DOMAIN string
  PROVE  /\ Content(string[y]) \in Bytes
         /\ \A p \in Nat : string[y].data # Nowhere => FromData(string[y], p) \subseteq Bytes
<1> DEFINE s == string[y]
<1>1. s.data \in Blocks \cup {Nowhere} /\ s.len \in Nat
  BY DEF IInv, Typed
<1>2. s.data = Nowhere => Content(s) \in Bytes
  BY DEF Content, Bytes
<1>3. ASSUME s.data # Nowhere
      PROVE  /\ Content(s) \in Bytes
             /\ \A p \in Nat : FromData(s, p) \subseteq Bytes
  <2> DEFINE b == block[s.data]
  <2>1. b \in Bytes /\ s.len <= Len(b) /\ Len(b) \in Nat
    BY <1>1, <1>3 DEF IInv, Typed, OneOwner, Owned, Memory, Bytes
  <2>2. SubSeq(b, 1, s.len) \in Bytes
    <3>1. \A i \in 1 .. s.len : b[i] \in Chars
      BY <2>1, <1>1 DEF Bytes
    <3> QED BY <3>1, <1>1, SubSeqProperties DEF Bytes
  <2>3. Content(s) \in Bytes
    BY <2>2, <1>3 DEF Content
  <2>4. ASSUME NEW p \in Nat PROVE FromData(s, p) \subseteq Bytes
    <3> DEFINE x == SubSeq(b, p + 1, Len(b))
    <3>1. x \in Bytes
      <4>1. \A i \in p + 1 .. Len(b) : b[i] \in Chars
        BY <2>1 DEF Bytes
      <4> QED BY <4>1, <2>1, SubSeqProperties DEF Bytes
    <3>2. \A t \in Trails : x \o t \in Bytes
      BY <3>1, StringTexts, ConcatProperties DEF Bytes
    <3>3. ASSUME NEW j \in 1 .. Len(x) PROVE SubSeq(x, 1, j - 1) \in Bytes
      <4>1. \A i \in 1 .. j - 1 : x[i] \in Chars
        BY <3>1 DEF Bytes
      <4>2. j - 1 \in Int
        BY <3>1 DEF Bytes
      <4> HIDE DEF x
      <4> QED BY <4>1, <4>2, SubSeqProperties DEF Bytes
    <3> QED BY <3>2, <3>3 DEF FromData
  <2> QED BY <2>3, <2>4
<1> QED BY <1>2, <1>3

-----------------------------------------------------------------------------
(* What becomes of the strings. *)

Kept == IInv' /\ Lost' \subseteq Lost

(* One string gets new data in a memory that keeps the others' blocks and  *)
(* does not keep what the string had before, if that is not its new data.  *)
LEMMA BecomesKeeps ==
  ASSUME IInv, NEW x, NEW b, NEW data \in Blocks \cup {Nowhere}, NEW len \in Nat,
         Memory(b), Becomes(x, b, data, len), copies \subseteq DOMAIN b,
         IF data = Nowhere THEN len = 0 ELSE data \in DOMAIN b \ copies /\ len <= Len(b[data]),
         \A y \in DOMAIN string \ {x} :
           string[y].data # Nowhere =>
             string[y].data # data /\ string[y].data \in DOMAIN b /\ b[string[y].data] = block[string[y].data],
         \A c \in DOMAIN b \ {data} :
           c \in DOMAIN block /\ (x \in DOMAIN string => string[x].data # c)
  PROVE  Kept
<1>1. /\ block' = b /\ copies' = copies /\ DOMAIN string' = DOMAIN string \cup {x}
      /\ string'[x] = [data |-> data, len |-> len]
      /\ \A y \in DOMAIN string \ {x} : string'[y] = string[y]
      /\ string' \in [DOMAIN string' -> [data : Blocks \cup {Nowhere}, len : Nat]]
  BY DEF Becomes, Set, IInv, Typed
<1>2. Typed'
  BY <1>1 DEF Typed, Memory
<1>3. \A y \in DOMAIN string' :
        /\ string'[y].data # Nowhere => string'[y].data \in DOMAIN b \ copies
        /\ IF string'[y].data = Nowhere THEN string'[y].len = 0 ELSE string'[y].len <= Len(b[string'[y].data])
  BY <1>1 DEF IInv, OneOwner, Owned
<1>4. \A y \in DOMAIN string' : \A z \in DOMAIN string' \ {y} :
        string'[y].data # Nowhere => string'[z].data # string'[y].data
  BY <1>1 DEF IInv, OneOwner
<1>5. OneOwner'
  BY <1>1, <1>3, <1>4 DEF OneOwner, Owned
<1>6. Lost' \subseteq Lost
  <2> SUFFICES ASSUME NEW c \in DOMAIN b, c \notin copies,
                      \A y \in DOMAIN string' : c \notin {string'[y].data} \ {Nowhere}
               PROVE  c \in DOMAIN block /\ \A y \in DOMAIN string : string[y].data # c
    BY <1>1 DEF Lost, Owned
  <2>1. c # Nowhere
    BY StringPointers DEF Memory
  <2>2. c # data
    BY <1>1, <2>1
  <2> QED BY <1>1, <2>1, <2>2
<1> QED BY <1>2, <1>5, <1>6 DEF IInv, Kept

(* A string's data is its own and no copy, in a memory that has it. *)
LEMMA OwnData ==
  ASSUME IInv, NEW x \in DOMAIN string
  PROVE  /\ string[x].data \in Blocks \cup {Nowhere} /\ string[x].len \in Nat
         /\ string[x].data = Nowhere => string[x].len = 0
         /\ string[x].data # Nowhere =>
              /\ string[x].data \in DOMAIN block \ copies
              /\ block[string[x].data] \in Bytes
              /\ string[x].len <= Len(block[string[x].data])
              /\ \A y \in DOMAIN string \ {x} : string[y].data # string[x].data
BY DEF IInv, Typed, Memory, OneOwner, Owned

LEMMA MakeKeeps ==
  ASSUME IInv, NEW x \in Names, NEW m \in Bytes, Make(x, m)
  PROVE  Kept
<1>1. PICK a \in Fresh(block) : Becomes(x, strndup(block, a, m), Given(a, m), Len(m))
  BY DEF Make
<1>2. a \in Blocks \ DOMAIN block /\ Memory(block) /\ x \notin DOMAIN string
  BY DEF Fresh, IInv, Typed, Make
<1>3. Len(m) \in Nat
  BY DEF Bytes
<1> DEFINE b == strndup(block, a, m)
<1>4. /\ Memory(b) /\ DOMAIN block \subseteq DOMAIN b
      /\ \A c \in DOMAIN b \ {Given(a, m)} : c \in DOMAIN block
      /\ \A c \in DOMAIN block : b[c] = block[c]
      /\ Given(a, m) \in {a, Nowhere}
      /\ IF Given(a, m) = Nowhere THEN Len(m) = 0 ELSE a \in DOMAIN b /\ b[a] = m
  BY <1>2, StrndupMemory
<1>5. copies \subseteq DOMAIN block
  BY DEF IInv, OneOwner
<1>6. \A y \in DOMAIN string \ {x} :
        string[y].data # Nowhere => string[y].data \in DOMAIN block
  BY OwnData
<1> DEFINE g == Given(a, m)
<1>7. Becomes(x, b, g, Len(m)) /\ g \in Blocks \cup {Nowhere} /\ g \notin DOMAIN block
  BY <1>1, <1>2, <1>4, StringPointers DEF Memory
<1>8. /\ \A c \in DOMAIN b \ {g} : c \in DOMAIN block
      /\ IF g = Nowhere THEN Len(m) = 0 ELSE g \in DOMAIN b /\ b[g] = m
  BY <1>4
<1> HIDE DEF b, g
<1>9. IF g = Nowhere THEN Len(m) = 0 ELSE g \in DOMAIN b \ copies /\ Len(m) <= Len(b[g])
  BY <1>3, <1>5, <1>7, <1>8
<1>10. \A y \in DOMAIN string \ {x} :
         string[y].data # Nowhere =>
           string[y].data # g /\ string[y].data \in DOMAIN b /\ b[string[y].data] = block[string[y].data]
  BY <1>4, <1>6, <1>7
<1> QED BY <1>2, <1>3, <1>4, <1>5, <1>7, <1>8, <1>9, <1>10, BecomesKeeps

LEMMA AssignKeeps ==
  ASSUME IInv, NEW x \in DOMAIN string, NEW m \in Bytes, AssignChars(x, m)
  PROVE  Kept
<1> DEFINE s == string[x]
<1>1. /\ s.data \in Blocks \cup {Nowhere} /\ s.len \in Nat
      /\ s.data = Nowhere => s.len = 0
      /\ s.data # Nowhere =>
           /\ s.data \in DOMAIN block \ copies /\ block[s.data] \in Bytes
           /\ s.len <= Len(block[s.data])
           /\ \A y \in DOMAIN string \ {x} : string[y].data # s.data
  BY OwnData
<1>2. Len(m) \in Nat
  BY DEF Bytes
<1>3. Memory(block) /\ copies \subseteq DOMAIN block
  BY DEF IInv, Typed, OneOwner
<1>4. \A y \in DOMAIN string \ {x} :
        string[y].data # Nowhere => string[y].data \in DOMAIN block
  BY OwnData
<1>5. CASE Len(m) > s.len
  <2> DEFINE b == free(block, s.data)
  <2>1. PICK a \in Fresh(b) : Becomes(x, strndup(b, a, m), a, Len(m))
    BY <1>5 DEF AssignChars
  <2>2. /\ Memory(b) /\ DOMAIN b = DOMAIN block \ {s.data}
        /\ \A c \in DOMAIN block \ {s.data} : b[c] = block[c]
    BY <1>1, <1>3, FreeMemory
  <2>3. a \in Blocks \ DOMAIN b /\ a # Nowhere
    BY StringPointers DEF Fresh
  <2> HIDE DEF b
  <2>4. m # <<>>
    BY <1>1, <1>2, <1>5
  <2>5. /\ Memory(strndup(b, a, m))
        /\ \A c : c \in DOMAIN strndup(b, a, m) <=> c \in DOMAIN b \/ c = a
        /\ \A c \in DOMAIN b : strndup(b, a, m)[c] = b[c]
        /\ strndup(b, a, m)[a] = m
    <3>1. Given(a, m) = a
      BY <2>4 DEF Given
    <3> QED BY <3>1, <2>2, <2>3, StrndupMemory
  <2>6. copies \subseteq DOMAIN b /\ a \notin copies
    BY <1>1, <1>3, <2>2, <2>3, StringPointers DEF Memory
  <2>7. \A y \in DOMAIN string \ {x} :
          string[y].data # Nowhere => string[y].data \in DOMAIN b
    BY <1>1, <1>4, <2>2
  <2> QED BY <1>2, <2>1, <2>2, <2>3, <2>5, <2>6, <2>7, BecomesKeeps
<1>6. CASE ~(Len(m) > s.len) /\ s.data = Nowhere
  <2>1. Becomes(x, block, s.data, Len(m)) /\ Len(m) = 0
    BY <1>1, <1>2, <1>6 DEF AssignChars
  <2> QED BY <1>1, <1>3, <1>4, <1>6, <2>1, BecomesKeeps
<1>7. CASE ~(Len(m) > s.len) /\ s.data # Nowhere
  <2> DEFINE t == Over(block[s.data], 0, m \o Zeros(s.len - Len(m)))
             b == Set(block, s.data, t)
  <2>1. Becomes(x, b, s.data, Len(m))
    BY <1>7 DEF AssignChars
  <2>2. m \o Zeros(s.len - Len(m)) \in Bytes
    <3>1. s.len - Len(m) \in Nat
      BY <1>1, <1>2, <1>7
    <3> QED BY <3>1, ZerosText, ConcatProperties DEF Bytes
  <2>3. t \in Bytes /\ Len(t) = Len(block[s.data])
    BY <1>1, <1>7, <2>2, OverText
  <2> HIDE DEF t
  <2>4. /\ Memory(b) /\ b[s.data] = t
        /\ \A c : c \in DOMAIN b <=> c \in DOMAIN block
        /\ \A c \in DOMAIN block \ {s.data} : b[c] = block[c]
    <3>1. s.data \in Blocks /\ s.data \in DOMAIN block
      BY <1>1, <1>7
    <3> QED BY <1>3, <2>3, <3>1, SetMemory
  <2> HIDE DEF b
  <2>5. Len(m) <= Len(b[s.data])
    BY <1>1, <1>2, <1>7, <2>3, <2>4 DEF Bytes
  <2> QED BY <1>1, <1>2, <1>3, <1>4, <1>7, <2>1, <2>4, <2>5, BecomesKeeps
<1> QED BY <1>5, <1>6, <1>7

LEMMA AppendKeeps ==
  ASSUME IInv, NEW x \in DOMAIN string, NEW m \in Bytes, AppendChars(x, m)
  PROVE  Kept
<1> DEFINE s == string[x]
           k == s.len + Len(m)
           old == IF s.data = Nowhere THEN <<>> ELSE block[s.data]
           b == free(block, s.data)
<1>1. /\ s.data \in Blocks \cup {Nowhere} /\ s.len \in Nat
      /\ s.data # Nowhere =>
           /\ s.data \in DOMAIN block \ copies /\ block[s.data] \in Bytes
           /\ \A y \in DOMAIN string \ {x} : string[y].data # s.data
  BY OwnData
<1>2. Len(m) \in Nat /\ k \in Nat
  BY <1>1 DEF Bytes
<1>3. Memory(block) /\ copies \subseteq DOMAIN block
  BY DEF IInv, Typed, OneOwner
<1>4. \A y \in DOMAIN string \ {x} :
        string[y].data # Nowhere => string[y].data \in DOMAIN block /\ string[y].data # s.data
  BY <1>1, OwnData
<1>5. /\ Memory(b) /\ DOMAIN b = DOMAIN block \ {s.data}
      /\ \A c \in DOMAIN block \ {s.data} : b[c] = block[c]
  BY <1>1, <1>3, FreeMemory
<1>6. copies \subseteq DOMAIN b /\ Nowhere \notin DOMAIN block
  BY <1>1, <1>3, <1>5, StringPointers DEF Memory
<1> HIDE DEF b
<1>7. CASE k = 0
  <2>1. Becomes(x, b, Nowhere, 0)
    BY <1>7 DEF AppendChars, b
  <2> QED BY <1>3, <1>4, <1>5, <1>6, <2>1, BecomesKeeps
<1>8. CASE k # 0
  <2> DEFINE t == Over(Resized(old, k), s.len, m)
  <2>1. PICK a \in Fresh(block) \cup ({s.data} \ {Nowhere}) : Becomes(x, Set(b, a, t), a, k)
    BY <1>8 DEF AppendChars, b
  <2>2. old \in Bytes
    BY <1>1 DEF Bytes
  <2>3. t \in Bytes /\ Len(t) = k
    <3>1. Resized(old, k) \in Bytes /\ Len(Resized(old, k)) = k
      BY <1>2, <2>2, ResizedText
    <3> QED BY <1>1, <3>1, OverText
  <2>4. a \in Blocks /\ a # Nowhere /\ (a \notin DOMAIN block \/ a = s.data)
    BY <1>1, StringPointers DEF Fresh
  <2> HIDE DEF t, k, old
  <2> DEFINE c0 == Set(b, a, t)
  <2>5. /\ Memory(c0) /\ c0[a] = t
        /\ \A c : c \in DOMAIN c0 <=> c \in DOMAIN b \/ c = a
        /\ \A c \in DOMAIN b \ {a} : c0[c] = b[c]
    BY <1>5, <2>3, <2>4, SetMemory
  <2> HIDE DEF c0
  <2>6. Becomes(x, c0, a, k)
    BY <2>1 DEF c0
  <2>7. copies \subseteq DOMAIN c0 /\ a \notin copies /\ a \in DOMAIN c0
    BY <1>1, <1>3, <1>6, <2>4, <2>5
  <2>8. \A y \in DOMAIN string \ {x} :
          string[y].data # Nowhere =>
            string[y].data # a /\ string[y].data \in DOMAIN c0 /\ c0[string[y].data] = block[string[y].data]
    BY <1>4, <1>5, <2>4, <2>5
  <2>9. \A c \in DOMAIN c0 \ {a} : c \in DOMAIN block /\ s.data # c
    BY <1>5, <2>5
  <2> QED BY <1>2, <2>3, <2>4, <2>5, <2>6, <2>7, <2>8, <2>9, BecomesKeeps
<1> QED BY <1>7, <1>8

(* y's data goes to x, and nowhere else. *)
LEMMA MoveKeeps ==
  ASSUME IInv, NEW x, NEW y \in DOMAIN string,
         DOMAIN string' = DOMAIN string \cup {x}, string' = [z \in DOMAIN string' |-> string'[z]],
         string'[y] = [data |-> Nowhere, len |-> 0], x # y => string'[x] = string[y],
         \A z \in DOMAIN string \ {x, y} : string'[z] = string[z],
         UNCHANGED <<block, copies>>
  PROVE  IInv' /\ (x \notin DOMAIN string => Lost' \subseteq Lost)
<1>1. Typed'
  <2>1. \A z \in DOMAIN string' : string'[z] \in [data : Blocks \cup {Nowhere}, len : Nat]
    BY DEF IInv, Typed
  <2> QED BY <2>1 DEF IInv, Typed, Memory
<1>2. \A z \in DOMAIN string' :
        /\ string'[z].data # Nowhere => string'[z].data \in DOMAIN block \ copies
        /\ IF string'[z].data = Nowhere THEN string'[z].len = 0
           ELSE string'[z].len <= Len(block[string'[z].data])
  BY DEF IInv, OneOwner, Owned
<1>3. \A z \in DOMAIN string' : \A u \in DOMAIN string' \ {z} :
        string'[z].data # Nowhere => string'[u].data # string'[z].data
  BY DEF IInv, OneOwner
<1>4. OneOwner'
  BY <1>2, <1>3 DEF OneOwner, Owned, IInv
<1>5. ASSUME x \notin DOMAIN string PROVE Lost' \subseteq Lost
  BY <1>5 DEF Lost, Owned
<1> QED BY <1>1, <1>4, <1>5 DEF IInv

LEMMA DeleteKeeps ==
  ASSUME IInv, NEW x \in Names, Delete(x)
  PROVE  Kept
<1>1. x \in DOMAIN string
  BY DEF Delete, Has
<1> DEFINE a == string[x].data
<1>2. /\ a \in Blocks \cup {Nowhere} /\ (a # Nowhere => a \notin copies)
      /\ \A y \in DOMAIN string \ {x} : string[y].data # Nowhere => string[y].data # a
  BY <1>1, OwnData
<1>3. /\ block' = free(block, a) /\ copies' = copies
      /\ DOMAIN string' = DOMAIN string \ {x}
      /\ string' \in [DOMAIN string' -> [data : Blocks \cup {Nowhere}, len : Nat]]
      /\ \A y \in DOMAIN string' : string'[y] = string[y]
  BY DEF Delete, Drop, Restrict, IInv, Typed
<1>4. /\ Memory(block') /\ DOMAIN block' = DOMAIN block \ {a}
      /\ \A c \in DOMAIN block \ {a} : block'[c] = block[c]
  <2> HIDE DEF a
  <2>1. Memory(block)
    BY DEF IInv, Typed
  <2>2. /\ Memory(free(block, a)) /\ DOMAIN free(block, a) = DOMAIN block \ {a}
        /\ \A c \in DOMAIN block \ {a} : free(block, a)[c] = block[c]
    BY <1>2, <2>1, FreeMemory
  <2>3. block' = free(block, a)
    BY <1>3
  <2> QED BY <2>2, <2>3
<1> HIDE DEF a
<1>5. Typed'
  BY <1>3, <1>4 DEF Typed, Memory
<1>6. OneOwner'
  <2>1. copies \subseteq DOMAIN block'
    BY <1>2, <1>4, StringPointers DEF IInv, OneOwner, Typed, Memory
  <2>2. \A y \in DOMAIN string' :
          string[y].data # Nowhere =>
            string[y].data \in DOMAIN block' \ copies /\ block'[string[y].data] = block[string[y].data]
    BY <1>2, <1>3, <1>4, OwnData
  <2> QED BY <1>3, <2>1, <2>2 DEF IInv, OneOwner, Owned
<1>7. Lost' \subseteq Lost
  BY <1>3, <1>4 DEF Lost, Owned, a
<1> QED BY <1>5, <1>6, <1>7 DEF IInv, Kept

LEMMA CopiesKeep ==
  ASSUME IInv
  PROVE  /\ \A y \in Names : cstr(y) => Kept
         /\ \A a \in copies : FreeCopy(a) => Kept
<1>1. Memory(block) /\ copies \subseteq DOMAIN block
  BY DEF IInv, Typed, OneOwner
<1>2. ASSUME NEW y \in Names, cstr(y) PROVE Kept
  <2>1. CASE string[y].data = Nowhere
    BY <1>2, <2>1 DEF cstr, Kept, IInv, Typed, OneOwner, Owned, Lost
  <2>2. CASE string[y].data # Nowhere
    <3>1. PICK a \in Fresh(block), m \in FromData(string[y], 0) :
            /\ block' = strndup(block, a, m)
            /\ copies' = copies \cup ({Given(a, m)} \ {Nowhere})
      BY <1>2, <2>2 DEF cstr
    <3>2. string' = string /\ m \in Bytes /\ a \in Blocks \ DOMAIN block
      BY <1>2, <2>2, ReadTexts DEF cstr, Has, Fresh
    <3>3. /\ Memory(block')
          /\ \A c : c \in DOMAIN block' <=> c \in DOMAIN block \/ (c = Given(a, m) /\ c # Nowhere)
          /\ \A c \in DOMAIN block : block'[c] = block[c]
          /\ Given(a, m) \in {a, Nowhere}
      BY <1>1, <3>1, <3>2, StrndupMemory
    <3> QED BY <1>1, <3>1, <3>2, <3>3 DEF Kept, IInv, Typed, OneOwner, Owned, Lost
  <2> QED BY <2>1, <2>2
<1>3. ASSUME NEW a \in copies, FreeCopy(a) PROVE Kept
  <2>1. block' = free(block, a) /\ copies' = copies \ {a} /\ string' = string
    BY <1>3 DEF FreeCopy
  <2>2. a \in Blocks
    BY <1>1, <1>3 DEF Memory
  <2>3. /\ Memory(block') /\ DOMAIN block' = DOMAIN block \ {a}
        /\ \A c \in DOMAIN block \ {a} : block'[c] = block[c]
    BY <1>1, <2>1, <2>2, FreeMemory
  <2>4. a \notin Owned /\ Owned \subseteq DOMAIN block
    BY <1>3 DEF IInv, OneOwner
  <2> QED BY <2>1, <2>3, <2>4 DEF Kept, IInv, Typed, OneOwner, Owned, Lost
<1> QED BY <1>2, <1>3

-----------------------------------------------------------------------------
(* The steps. *)

LEMMA MakesKeep ==
  ASSUME IInv, NEW x \in Names, NEW y \in Names
  PROVE  /\ \A m \in Literals : Make(x, m) \/ Plus(x, y, m) => Kept
         /\ NewCopy(x, y) => Kept
         /\ \A p \in 0 .. MaxLength : from(x, y, p) => Kept
         /\ \A z \in Names : PlusString(x, y, z) => Kept
<1>1. \A m \in Bytes : Make(x, m) => Kept
  BY MakeKeeps
<1>2. \A m \in Bytes : Plus(x, y, m) => Kept
  <2> SUFFICES ASSUME NEW m \in Bytes, Plus(x, y, m) PROVE Kept
    OBVIOUS
  <2>1. Content(string[y]) \in Bytes
    BY ReadTexts DEF Plus, Has
  <2>2. Content(string[y]) \o m \in Bytes
    BY <2>1, ConcatProperties DEF Bytes
  <2> QED BY <1>1, <2>2 DEF Plus
<1>3. Literals \subseteq Bytes /\ 0 .. MaxLength \subseteq Nat
  BY StringTexts DEF Bytes
<1>4. NewCopy(x, y) => Kept
  BY <1>1, ReadTexts DEF NewCopy, Has
<1>5. \A p \in 0 .. MaxLength : from(x, y, p) => Kept
  BY <1>1, <1>3, ReadTexts DEF from, Has
<1>6. \A z \in Names : PlusString(x, y, z) => Kept
  BY <1>2, ReadTexts DEF PlusString, Has
<1> QED BY <1>1, <1>2, <1>3, <1>4, <1>5, <1>6

LEMMA ChangesKeep ==
  ASSUME IInv, NEW x \in Names, NEW y \in Names
  PROVE  /\ \A m \in Literals : AssignLiteral(x, m) \/ AppendLiteral(x, m) => Kept
         /\ AssignString(x, y) \/ AppendString(x, y) => Kept
<1>1. Literals \subseteq Bytes
  BY StringTexts DEF Bytes
<1>2. \A m \in Literals : AssignLiteral(x, m) \/ AppendLiteral(x, m) => Kept
  BY <1>1, AssignKeeps, AppendKeeps DEF AssignLiteral, AppendLiteral, Has
<1>3. AssignString(x, y) \/ AppendString(x, y) => Kept
  BY ReadTexts, AssignKeeps, AppendKeeps DEF AssignString, AppendString, Has
<1> QED BY <1>2, <1>3

LEMMA MovesKeep ==
  ASSUME IInv, NEW x \in Names, NEW y \in Names
  PROVE  /\ NewMove(x, y) => Kept
         /\ AssignMove(x, y) => IInv'
<1>1. ASSUME NewMove(x, y) PROVE Kept
  <2>1. y \in DOMAIN string /\ x \notin DOMAIN string /\ UNCHANGED <<block, copies>>
    BY <1>1 DEF NewMove, Has
  <2>2. /\ DOMAIN string' = DOMAIN string \cup {x}
        /\ string' = [z \in DOMAIN string' |-> string'[z]]
        /\ string'[y] = [data |-> Nowhere, len |-> 0] /\ string'[x] = string[y]
        /\ \A z \in DOMAIN string \ {x, y} : string'[z] = string[z]
    BY <1>1, <2>1 DEF NewMove, Set
  <2> QED BY <2>1, <2>2, MoveKeeps DEF Kept
<1>2. ASSUME AssignMove(x, y) PROVE IInv'
  <2>1. x \in DOMAIN string /\ y \in DOMAIN string /\ UNCHANGED <<block, copies>>
    BY <1>2 DEF AssignMove, Has
  <2>2. /\ DOMAIN string' = DOMAIN string \cup {x}
        /\ string' = [z \in DOMAIN string' |-> string'[z]]
        /\ string'[y] = [data |-> Nowhere, len |-> 0] /\ (x # y => string'[x] = string[y])
        /\ \A z \in DOMAIN string \ {x, y} : string'[z] = string[z]
    BY <1>2, <2>1 DEF AssignMove, IInv, Typed
  <2> QED BY <2>1, <2>2, MoveKeeps
<1> QED BY <1>1, <1>2

LEMMA StepKeeps ==
  ASSUME IInv, StringNext
  PROVE  Kept \/ (IInv' /\ \E x, y \in Names : AssignMove(x, y))
BY MakesKeep, ChangesKeep, MovesKeep, DeleteKeeps, CopiesKeep DEF StringNext

LEMMA StutterKeeps ==
  ASSUME IInv, UNCHANGED stringVars
  PROVE  Kept
BY DEF stringVars, Kept, IInv, Typed, OneOwner, Owned, Lost

LEMMA StringInitIInv == StringInit => IInv
BY DEF StringInit, IInv, Typed, Memory, OneOwner, Owned, Bytes

(* Each block belongs to one string, or was given to the client, after any *)
(* constructions, copies, moves, assignments and appends of any strings.   *)
THEOREM StringsOwn == StringSpec => []OneOwner
<1>1. IInv /\ [StringNext]_stringVars => IInv'
  BY StepKeeps, StutterKeeps DEF Kept
<1>2. IInv => OneOwner
  BY DEF IInv
<1> QED BY <1>1, <1>2, StringInitIInv, PTL DEF StringSpec

(* Only the move assignment ever loses a block. *)
THEOREM MovesAloneLose == StringSpec => LostOnlyByMove
<1>1. IInv /\ [StringNext]_stringVars => IInv'
  BY StepKeeps, StutterKeeps DEF Kept
<1>2. IInv /\ [StringNext]_stringVars =>
        [Lost' \subseteq Lost \/ \E x, y \in Names : AssignMove(x, y)]_stringVars
  BY StepKeeps, StutterKeeps DEF Kept
<1> QED BY <1>1, <1>2, StringInitIInv, PTL DEF StringSpec, LostOnlyByMove

-----------------------------------------------------------------------------
(* Strings are values. *)

(* A text without a 0, and a string that has it: what is behind it in the  *)
(* block, if anything is, are zeros.                                       *)
Plain(m) == m \in Bytes /\ \A j \in 1 .. Len(m) : m[j] # Zero

HasText(b, s, m) ==
  /\ s.len = Len(m)
  /\ s.data = Nowhere => m = <<>>
  /\ s.data # Nowhere =>
       /\ Len(m) <= Len(b[s.data])
       /\ \A j \in 1 .. Len(b[s.data]) : b[s.data][j] = IF j <= Len(m) THEN m[j] ELSE Zero

Clean ==
  \A y \in DOMAIN string : Plain(Content(string[y])) /\ HasText(block, string[y], Content(string[y]))

(* Two texts with the same characters are one. *)
LEMMA SameText ==
  ASSUME NEW a \in Bytes, NEW b \in Bytes, Len(a) = Len(b), \A j \in 1 .. Len(a) : a[j] = b[j]
  PROVE  a = b
BY DEF Bytes

(* The places of a concatenation. *)
LEMMA ConcatText ==
  ASSUME NEW a \in Bytes, NEW b \in Bytes
  PROVE  /\ a \o b \in Bytes /\ Len(a \o b) = Len(a) + Len(b) /\ Len(a) \in Nat /\ Len(b) \in Nat
         /\ \A j \in 1 .. Len(a) + Len(b) : (a \o b)[j] = IF j <= Len(a) THEN a[j] ELSE b[j - Len(a)]
<1>1. Len(a) \in Nat /\ Len(b) \in Nat
  BY DEF Bytes
<1>2. /\ a \o b \in Seq(Chars) /\ Len(a \o b) = Len(a) + Len(b)
      /\ \A j \in 1 .. Len(a) + Len(b) : (a \o b)[j] = IF j <= Len(a) THEN a[j] ELSE b[j - Len(a)]
  BY ConcatProperties DEF Bytes
<1> QED BY <1>1, <1>2 DEF Bytes

(* Such a string's content is this text. *)
LEMMA TextIs ==
  ASSUME NEW b, NEW s, NEW m \in Bytes, HasText(b, s, m), s.data # Nowhere => b[s.data] \in Bytes
  PROVE  (IF s.data = Nowhere THEN <<>> ELSE SubSeq(b[s.data], 1, s.len)) = m
<1>1. CASE s.data = Nowhere
  BY <1>1 DEF HasText
<1>2. CASE s.data # Nowhere
  <2> DEFINE c == b[s.data]
  <2>1. /\ c \in Bytes /\ s.len = Len(m) /\ Len(m) \in Nat /\ Len(m) <= Len(c) /\ Len(c) \in Nat
        /\ \A j \in 1 .. Len(m) : c[j] = m[j] /\ m[j] \in Chars
    BY <1>2 DEF HasText, Bytes
  <2> HIDE DEF c
  <2>2. \A j \in 1 .. Len(m) : c[j] \in Chars
    BY <2>1
  <2>3. /\ SubSeq(c, 1, Len(m)) \in Bytes /\ Len(SubSeq(c, 1, Len(m))) = Len(m)
        /\ \A j \in 1 .. Len(m) : SubSeq(c, 1, Len(m))[j] = c[j]
    BY <2>1, <2>2, SubSeqProperties DEF Bytes
  <2>4. SubSeq(c, 1, Len(m)) = m
    BY <2>1, <2>3, SameText
  <2> QED BY <1>2, <2>1, <2>4 DEF c
<1> QED BY <1>1, <1>2

(* x has the text m, and the other strings what they had. *)
Gives(x, m) ==
  /\ DOMAIN string' = DOMAIN string \cup {x}
  /\ HasText(block', string'[x], m)
  /\ \A y \in DOMAIN string \ {x} :
       string'[y] = string[y] /\ (string[y].data # Nowhere => block'[string[y].data] = block[string[y].data])

(* If x is given a plain text, x's value is that text and no other value    *)
(* changes.                                                                 *)
LEMMA GivesValue ==
  ASSUME IInv, IInv', Clean, NEW x, NEW m, Plain(m), Gives(x, m)
  PROVE  /\ Clean' /\ DOMAIN string' = DOMAIN string \cup {x}
         /\ \A y \in DOMAIN string' : Content(string[y])' = IF y = x THEN m ELSE Content(string[y])
<1>1. \A y \in DOMAIN string' : string'[y].data # Nowhere => block'[string'[y].data] \in Bytes
  BY DEF IInv, Typed, Memory, OneOwner, Owned
<1>2. Content(string[x])' = m /\ HasText(block', string'[x], m)
  <2>1. m \in Bytes /\ HasText(block', string'[x], m) /\ x \in DOMAIN string'
    BY DEF Gives, Plain
  <2>2. (IF string'[x].data = Nowhere THEN <<>> ELSE SubSeq(block'[string'[x].data], 1, string'[x].len)) = m
    BY <1>1, <2>1, TextIs
  <2> QED BY <2>1, <2>2 DEF Content
<1>3. ASSUME NEW y \in DOMAIN string \ {x}
      PROVE  /\ Content(string[y])' = Content(string[y])
             /\ HasText(block', string'[y], Content(string[y]))
  <2>1. /\ string'[y] = string[y]
        /\ string[y].data # Nowhere => block'[string[y].data] = block[string[y].data]
    BY DEF Gives
  <2>2. HasText(block, string[y], Content(string[y]))
    BY DEF Clean
  <2> QED BY <2>1, <2>2 DEF HasText, Content
<1>4. DOMAIN string' = DOMAIN string \cup {x}
  BY DEF Gives
<1>5. Clean'
  <2> SUFFICES ASSUME NEW y \in DOMAIN string'
               PROVE  Plain(Content(string[y])') /\ HasText(block', string'[y], Content(string[y])')
    BY DEF Clean
  <2> QED BY <1>2, <1>3, <1>4 DEF Clean
<1> QED BY <1>2, <1>3, <1>4, <1>5

(* A string that becomes one of that text. *)
LEMMA BecomesGives ==
  ASSUME IInv, NEW x, NEW b, NEW data, NEW m, Becomes(x, b, data, Len(m)),
         HasText(b, [data |-> data, len |-> Len(m)], m),
         \A y \in DOMAIN string \ {x} : string[y].data # Nowhere => b[string[y].data] = block[string[y].data]
  PROVE  Gives(x, m)
BY DEF Becomes, Set, Gives

(* Construction copies the text. *)
LEMMA MakeGives ==
  ASSUME IInv, NEW x \in Names, NEW m \in Bytes, Make(x, m)
  PROVE  Gives(x, m)
<1>1. PICK a \in Fresh(block) : Becomes(x, strndup(block, a, m), Given(a, m), Len(m))
  BY DEF Make
<1>2. a \in Blocks \ DOMAIN block /\ Memory(block)
  BY DEF Fresh, IInv, Typed
<1> DEFINE b == strndup(block, a, m)
<1>3. /\ \A c \in DOMAIN block : b[c] = block[c]
      /\ Given(a, m) \in {a, Nowhere}
      /\ IF Given(a, m) = Nowhere THEN Len(m) = 0 ELSE b[a] = m
  BY <1>2, StrndupMemory
<1> HIDE DEF b
<1>4. HasText(b, [data |-> Given(a, m), len |-> Len(m)], m)
  BY <1>3 DEF HasText, Bytes
<1>5. \A y \in DOMAIN string : string[y].data # Nowhere => string[y].data \in DOMAIN block
  BY OwnData
<1> QED BY <1>1, <1>3, <1>4, <1>5, BecomesGives DEF b

(* What the bytes of f make of a block from place p on. *)
LEMMA OverIs ==
  ASSUME NEW x \in Bytes, NEW p \in Nat, NEW f \in Bytes
  PROVE  \A j \in 1 .. Len(x) : Over(x, p, f)[j] = IF j \in p + 1 .. p + Len(f) THEN f[j - p] ELSE x[j]
BY DEF Over, Bytes

(* Assignment, into the old block or a new one, leaves nothing of the old  *)
(* text behind the new one.                                                *)
LEMMA AssignGives ==
  ASSUME IInv, Clean, NEW x \in DOMAIN string, NEW m \in Bytes, AssignChars(x, m)
  PROVE  Gives(x, m)
<1> DEFINE s == string[x]
<1>1. /\ s.data \in Blocks \cup {Nowhere} /\ s.len \in Nat
      /\ s.data = Nowhere => s.len = 0
      /\ s.data # Nowhere =>
           /\ s.data \in DOMAIN block /\ block[s.data] \in Bytes /\ s.len <= Len(block[s.data])
           /\ \A y \in DOMAIN string \ {x} : string[y].data # s.data
  BY OwnData
<1>2. Len(m) \in Nat /\ Memory(block)
  BY DEF Bytes, IInv, Typed
<1>3. \A y \in DOMAIN string \ {x} :
        string[y].data # Nowhere => string[y].data \in DOMAIN block \ {s.data}
  BY <1>1, OwnData
<1>4. CASE Len(m) > s.len
  <2> DEFINE b == free(block, s.data)
  <2>1. PICK a \in Fresh(b) : Becomes(x, strndup(b, a, m), a, Len(m))
    BY <1>4 DEF AssignChars
  <2>2. /\ Memory(b) /\ DOMAIN b = DOMAIN block \ {s.data}
        /\ \A c \in DOMAIN block \ {s.data} : b[c] = block[c]
    BY <1>1, <1>2, FreeMemory
  <2>3. a \in Blocks \ DOMAIN b /\ a # Nowhere /\ Given(a, m) = a
    BY <1>1, <1>2, <1>4, StringPointers DEF Fresh, Given
  <2> HIDE DEF b
  <2>4. (\A c \in DOMAIN b : strndup(b, a, m)[c] = b[c]) /\ strndup(b, a, m)[a] = m
    BY <2>2, <2>3, StrndupMemory
  <2>5. HasText(strndup(b, a, m), [data |-> a, len |-> Len(m)], m)
    BY <2>3, <2>4 DEF HasText, Bytes
  <2> QED BY <1>3, <2>1, <2>2, <2>4, <2>5, BecomesGives
<1>5. CASE ~(Len(m) > s.len) /\ s.data = Nowhere
  <2>1. Becomes(x, block, s.data, Len(m)) /\ Len(m) = 0
    BY <1>1, <1>2, <1>5 DEF AssignChars
  <2>2. HasText(block, [data |-> s.data, len |-> Len(m)], m)
    BY <1>5, <2>1 DEF HasText, Bytes
  <2> QED BY <2>1, <2>2, BecomesGives
<1>6. CASE ~(Len(m) > s.len) /\ s.data # Nowhere
  <2> DEFINE z == m \o Zeros(s.len - Len(m))
             t == Over(block[s.data], 0, z)
             b == Set(block, s.data, t)
  <2>1. Becomes(x, b, s.data, Len(m))
    BY <1>6 DEF AssignChars
  <2>2. /\ z \in Bytes /\ Len(z) = s.len
        /\ \A j \in 1 .. s.len : z[j] = IF j <= Len(m) THEN m[j] ELSE Zero
    <3>1. PICK k \in Nat : k = s.len - Len(m)
      BY <1>1, <1>2, <1>6
    <3>2. Zeros(k) \in Bytes /\ Len(Zeros(k)) = k /\ \A j \in 1 .. k : Zeros(k)[j] = Zero
      BY ZerosText DEF Zeros
    <3>3. /\ m \o Zeros(k) \in Bytes /\ Len(m \o Zeros(k)) = Len(m) + k
          /\ \A j \in 1 .. Len(m) + k :
               (m \o Zeros(k))[j] = IF j <= Len(m) THEN m[j] ELSE Zeros(k)[j - Len(m)]
      BY <3>2, ConcatProperties DEF Bytes
    <3>4. Len(m) + k = s.len
      BY <1>1, <1>2, <3>1
    <3>5. ASSUME NEW j \in 1 .. s.len
          PROVE  (m \o Zeros(k))[j] = IF j <= Len(m) THEN m[j] ELSE Zero
      <4>1. j \in 1 .. Len(m) + k
        BY <3>4
      <4>2. ~(j <= Len(m)) => j - Len(m) \in 1 .. k
        BY <1>2, <4>1
      <4> QED BY <3>2, <3>3, <4>1, <4>2
    <3> QED BY <3>1, <3>3, <3>4, <3>5
  <2> HIDE DEF z
  <2>3. /\ t \in Bytes /\ Len(t) = Len(block[s.data])
        /\ \A j \in 1 .. Len(t) : t[j] = IF j \in 1 .. s.len THEN z[j] ELSE block[s.data][j]
    <3>1. /\ t \in Bytes /\ Len(t) = Len(block[s.data])
          /\ \A j \in 1 .. Len(block[s.data]) :
               t[j] = IF j \in 0 + 1 .. 0 + Len(z) THEN z[j - 0] ELSE block[s.data][j]
      <4>1. block[s.data] \in Bytes /\ 0 \in Nat
        BY <1>1, <1>6
      <4>2. Over(block[s.data], 0, z) \in Bytes /\ Len(Over(block[s.data], 0, z)) = Len(block[s.data])
        BY <2>2, <4>1, OverText
      <4>3. \A j \in 1 .. Len(block[s.data]) :
              Over(block[s.data], 0, z)[j] = IF j \in 0 + 1 .. 0 + Len(z) THEN z[j - 0] ELSE block[s.data][j]
        BY <2>2, <4>1, OverIs
      <4> QED BY <4>2, <4>3
    <3> QED BY <1>1, <2>2, <3>1
  <2> HIDE DEF t
  <2>4. b[s.data] = t /\ \A c \in DOMAIN block \ {s.data} : b[c] = block[c]
    BY <1>1, <1>2, <1>6, <2>3, SetMemory
  <2> HIDE DEF b
  <2>5. HasText(block, s, Content(s))
    BY DEF Clean
  <2>6. \A j \in 1 .. Len(t) : t[j] = IF j <= Len(m) THEN m[j] ELSE Zero
    <3> SUFFICES ASSUME NEW j \in 1 .. Len(t) PROVE t[j] = IF j <= Len(m) THEN m[j] ELSE Zero
      OBVIOUS
    <3>1. CASE j \in 1 .. s.len
      BY <2>2, <2>3, <3>1
    <3>2. CASE j \notin 1 .. s.len
      <4>1. t[j] = Zero
        BY <1>1, <1>6, <2>3, <2>5, <3>2 DEF HasText
      <4>2. ~(j <= Len(m))
        BY <1>1, <1>2, <1>6, <3>2
      <4> QED BY <4>1, <4>2
    <3> QED BY <3>1, <3>2
  <2>7. HasText(b, [data |-> s.data, len |-> Len(m)], m)
    BY <1>1, <1>2, <1>6, <2>3, <2>4, <2>6 DEF HasText
  <2> QED BY <1>3, <2>1, <2>4, <2>7, BecomesGives
<1> QED BY <1>4, <1>5, <1>6

(* Appending, in place or into a block that realloc has moved, keeps the   *)
(* old text and fills the block to its end.                                *)
LEMMA AppendGives ==
  ASSUME IInv, Clean, NEW x \in DOMAIN string, NEW m \in Bytes, AppendChars(x, m)
  PROVE  Gives(x, Content(string[x]) \o m)
<1> DEFINE s == string[x]
           v == Content(string[x])
           k == s.len + Len(m)
           old == IF s.data = Nowhere THEN <<>> ELSE block[s.data]
           b == free(block, s.data)
<1>1. /\ s.data \in Blocks \cup {Nowhere} /\ s.len \in Nat
      /\ s.data = Nowhere => s.len = 0
      /\ s.data # Nowhere =>
           /\ s.data \in DOMAIN block /\ block[s.data] \in Bytes /\ s.len <= Len(block[s.data])
           /\ \A y \in DOMAIN string \ {x} : string[y].data # s.data
  BY OwnData
<1>2. Len(m) \in Nat /\ k \in Nat /\ Memory(block)
  BY <1>1 DEF Bytes, IInv, Typed
<1>3. \A y \in DOMAIN string \ {x} :
        string[y].data # Nowhere => string[y].data \in DOMAIN block \ {s.data}
  BY <1>1, OwnData
<1>4. v \in Bytes /\ Len(v) = s.len /\ HasText(block, s, v)
  BY DEF Clean, Plain, HasText
<1>5. /\ v \o m \in Bytes /\ Len(v \o m) = k
      /\ \A j \in 1 .. k : (v \o m)[j] = IF j <= s.len THEN v[j] ELSE m[j - s.len]
  <2>1. /\ v \o m \in Bytes /\ Len(v \o m) = Len(v) + Len(m)
        /\ \A j \in 1 .. Len(v) + Len(m) : (v \o m)[j] = IF j <= Len(v) THEN v[j] ELSE m[j - Len(v)]
    BY <1>4, ConcatText
  <2> QED BY <1>4, <2>1
<1>6. /\ Memory(b) /\ DOMAIN b = DOMAIN block \ {s.data}
      /\ \A c \in DOMAIN block \ {s.data} : b[c] = block[c]
  BY <1>1, <1>2, FreeMemory
<1> HIDE DEF b, v
<1>7. CASE k = 0
  <2>1. Becomes(x, b, Nowhere, Len(v \o m))
    BY <1>5, <1>7 DEF AppendChars, b
  <2>2. HasText(b, [data |-> Nowhere, len |-> Len(v \o m)], v \o m)
    BY <1>5, <1>7 DEF HasText, Bytes
  <2>3. Gives(x, v \o m)
    BY <1>3, <1>6, <2>1, <2>2, BecomesGives
  <2> QED BY <2>3 DEF v
<1>8. CASE k # 0
  <2> DEFINE t == Over(Resized(old, k), s.len, m)
  <2>1. PICK a \in Fresh(block) \cup ({s.data} \ {Nowhere}) : Becomes(x, Set(b, a, t), a, k)
    BY <1>8 DEF AppendChars, b
  <2>2. old \in Bytes
    BY <1>1 DEF Bytes
  <2>3. /\ t \in Bytes /\ Len(t) = k
        /\ \A j \in 1 .. k : t[j] = IF j \in s.len + 1 .. s.len + Len(m) THEN m[j - s.len]
                                    ELSE Resized(old, k)[j]
    <3>1. Resized(old, k) \in Bytes /\ Len(Resized(old, k)) = k /\ s.len \in Nat
      BY <1>1, <1>2, <2>2, ResizedText
    <3>2. PICK o : o = Resized(old, k)
      OBVIOUS
    <3>3. Over(o, s.len, m) \in Bytes /\ Len(Over(o, s.len, m)) = Len(o)
      BY <3>1, <3>2, OverText
    <3>4. \A j \in 1 .. Len(o) : Over(o, s.len, m)[j] = IF j \in s.len + 1 .. s.len + Len(m)
                                                      THEN m[j - s.len] ELSE o[j]
      BY <3>1, <3>2, OverIs
    <3> QED BY <3>1, <3>2, <3>3, <3>4
  <2>4. \A j \in 1 .. s.len : old[j] = v[j] /\ s.len <= Len(old)
    BY <1>1, <1>4 DEF HasText, Bytes
  <2>5. \A j \in 1 .. k : Resized(old, k)[j] = IF j <= Len(old) THEN old[j] ELSE Uninit
    BY DEF Resized
  <2>6. Len(old) \in Nat
    BY <2>2 DEF Bytes
  <2> HIDE DEF t, old
  <2>7. \A j \in 1 .. k : t[j] = (v \o m)[j]
    <3> SUFFICES ASSUME NEW j \in 1 .. k PROVE t[j] = (v \o m)[j]
      OBVIOUS
    <3>1. CASE j <= s.len
      <4>1. j \in 1 .. s.len /\ j \notin s.len + 1 .. s.len + Len(m)
        BY <1>1, <1>2, <3>1
      <4>2. t[j] = old[j]
        BY <1>1, <2>3, <2>4, <2>5, <2>6, <4>1
      <4> QED BY <1>5, <2>4, <3>1, <4>1, <4>2
    <3>2. CASE ~(j <= s.len)
      <4>1. j \in s.len + 1 .. s.len + Len(m)
        BY <1>1, <1>2, <3>2
      <4> QED BY <1>5, <2>3, <3>2, <4>1
    <3> QED BY <3>1, <3>2
  <2>8. t = v \o m
    BY <1>5, <2>3, <2>7, SameText
  <2>9. a \in Blocks /\ a # Nowhere /\ (a \notin DOMAIN block \/ a = s.data)
    BY <1>1, StringPointers DEF Fresh
  <2> DEFINE c0 == Set(b, a, t)
  <2>10. c0[a] = t /\ \A c \in DOMAIN b \ {a} : c0[c] = b[c]
    BY <1>6, <2>3, <2>9, SetMemory
  <2>11. Becomes(x, c0, a, Len(v \o m))
    BY <1>5, <2>1
  <2> HIDE DEF c0
  <2>12. HasText(c0, [data |-> a, len |-> Len(v \o m)], v \o m)
    BY <1>2, <1>5, <2>8, <2>9, <2>10 DEF HasText
  <2>13. \A y \in DOMAIN string \ {x} :
           string[y].data # Nowhere => c0[string[y].data] = block[string[y].data]
    <3> SUFFICES ASSUME NEW y \in DOMAIN string \ {x}, string[y].data # Nowhere
                 PROVE  c0[string[y].data] = block[string[y].data]
      OBVIOUS
    <3>1. string[y].data \in DOMAIN block \ {s.data}
      BY <1>3
    <3>2. string[y].data \in DOMAIN b \ {a}
      BY <1>6, <2>9, <3>1
    <3> QED BY <1>6, <2>10, <3>1, <3>2
  <2>14. Gives(x, v \o m)
    BY <2>11, <2>12, <2>13, BecomesGives
  <2> QED BY <2>14 DEF v
<1> QED BY <1>7, <1>8

(* What strlen finds in a string's data is the rest of its text, and what  *)
(* follows the block if there is no 0 in it.                               *)
LEMMA FromDataIs ==
  ASSUME IInv, Clean, NEW y \in DOMAIN string, string[y].data # Nowhere,
         NEW p \in Nat, p <= string[y].len, NEW m \in FromData(string[y], p)
  PROVE  /\ Plain(m) /\ p \in 0 .. Len(Content(string[y]))
         /\ \E t \in Trails \cup {<<>>} :
              m = SubSeq(Content(string[y]), p + 1, Len(Content(string[y]))) \o t
<1> DEFINE s == string[y]
           b == block[s.data]
           v == Content(s)
           k == s.len
           x == SubSeq(b, p + 1, Len(b))
           r == SubSeq(v, p + 1, k)
           zeros == {j \in 1 .. Len(x) : x[j] = Zero}
<1>1. /\ b \in Bytes /\ k \in Nat /\ k <= Len(b) /\ Len(b) \in Nat
  BY OwnData DEF Bytes
<1>2. /\ Plain(v) /\ Len(v) = k /\ v \in Bytes
      /\ \A j \in 1 .. Len(b) : b[j] = IF j <= k THEN v[j] ELSE Zero
  BY DEF Clean, HasText, Plain
<1> HIDE DEF b, v, k
<1>3. \A j \in 1 .. Len(b) : b[j] \in Chars
  BY <1>1 DEF Bytes
<1>4. \A j \in 1 .. k : v[j] \in Chars /\ v[j] # Zero
  BY <1>2 DEF Bytes, Plain
<1>5. p <= k
  BY DEF k
<1>6. /\ x \in Bytes /\ Len(x) = Len(b) - p
      /\ \A j \in 1 .. Len(b) - p : x[j] = b[p + j]
  <2>1. /\ \A i \in p + 1 .. Len(b) : b[i] \in Chars
    BY <1>3
  <2>2. /\ x \in Seq(Chars) /\ Len(x) = IF p + 1 <= Len(b) THEN Len(b) - (p + 1) + 1 ELSE 0
        /\ \A j \in 1 .. Len(b) - (p + 1) + 1 : x[j] = b[p + 1 + j - 1]
    BY <1>1, <2>1, SubSeqProperties
  <2> QED BY <1>1, <1>5, <2>2 DEF Bytes
<1>7. /\ r \in Bytes /\ Len(r) = k - p
      /\ \A j \in 1 .. k - p : r[j] = v[p + j]
  <2>1. /\ \A i \in p + 1 .. k : v[i] \in Chars
    BY <1>4
  <2>2. /\ r \in Seq(Chars) /\ Len(r) = IF p + 1 <= k THEN k - (p + 1) + 1 ELSE 0
        /\ \A j \in 1 .. k - (p + 1) + 1 : r[j] = v[p + 1 + j - 1]
    BY <1>1, <2>1, SubSeqProperties
  <2> QED BY <1>1, <1>5, <2>2 DEF Bytes
<1> HIDE DEF x, r
<1>8. \A j \in 1 .. k - p : r[j] = x[j] /\ x[j] # Zero
  <2> SUFFICES ASSUME NEW j \in 1 .. k - p PROVE r[j] = x[j] /\ x[j] # Zero
    OBVIOUS
  <2>1. p + j \in 1 .. k /\ p + j \in 1 .. Len(b) /\ j \in 1 .. Len(b) - p
    BY <1>1, <1>5
  <2>2. x[j] = v[p + j] /\ r[j] = v[p + j]
    BY <1>2, <1>6, <1>7, <2>1
  <2> QED BY <1>4, <2>1, <2>2
<1>9. \A j \in k - p + 1 .. Len(b) - p : x[j] = Zero
  BY <1>1, <1>2, <1>5, <1>6
<1>10. Plain(r)
  BY <1>7, <1>8 DEF Plain
<1>11. CASE Len(b) = k
  <2>1. x = r
    BY <1>6, <1>7, <1>8, <1>11, SameText
  <2>2. zeros = {}
    BY <1>6, <1>8, <1>11
  <2>3. PICK t \in Trails : m = r \o t
    BY <2>1, <2>2 DEF FromData, x, b
  <2>4. t \in Bytes /\ \A j \in 1 .. Len(t) : t[j] # Zero
    BY StringTexts DEF Bytes
  <2>5. /\ r \o t \in Bytes /\ Len(r \o t) = Len(r) + Len(t) /\ Len(r) \in Nat /\ Len(t) \in Nat
        /\ \A j \in 1 .. Len(r) + Len(t) : (r \o t)[j] = IF j <= Len(r) THEN r[j] ELSE t[j - Len(r)]
    BY <1>7, <2>4, ConcatText
  <2>6. Plain(r \o t)
    BY <1>10, <2>4, <2>5 DEF Plain
  <2>7. m = SubSeq(v, p + 1, Len(v)) \o t /\ p \in 0 .. Len(v)
    BY <1>1, <1>2, <1>5, <2>3 DEF r
  <2> QED BY <2>3, <2>6, <2>7 DEF v
<1>12. CASE Len(b) # k
  <2>1. k - p + 1 \in zeros /\ \A j \in zeros : k - p + 1 <= j
    BY <1>1, <1>5, <1>6, <1>8, <1>9, <1>12
  <2>2. {j \in zeros : \A i \in zeros : j <= i} = {k - p + 1}
    <3>1. zeros \subseteq Int
      BY <1>1, <1>6
    <3>2. PICK q \in Int : q = k - p + 1
      BY <1>1
    <3>3. q \in zeros /\ \A j \in zeros : q <= j
      BY <2>1, <3>2
    <3> HIDE DEF zeros
    <3>4. ASSUME NEW j \in zeros, \A i \in zeros : j <= i PROVE j = q
      BY <3>1, <3>3, <3>4
    <3>5. {j \in zeros : \A i \in zeros : j <= i} = {q}
      BY <3>3, <3>4
    <3> QED BY <3>2, <3>5
  <2>3. m = SubSeq(x, 1, k - p)
    <3>1. m \in {SubSeq(x, 1, j - 1) : j \in {j \in zeros : \A i \in zeros : j <= i}}
      <4>1. m \in IF zeros = {} THEN {x \o t : t \in Trails}
                  ELSE {SubSeq(x, 1, j - 1) : j \in {j \in zeros : \A i \in zeros : j <= i}}
        BY Zenon DEF FromData, x, b
      <4> QED BY <2>1, <4>1
    <3>2. PICK T : T = {j \in zeros : \A i \in zeros : j <= i}
      OBVIOUS
    <3>3. m \in {SubSeq(x, 1, j - 1) : j \in T}
      BY <3>1, <3>2
    <3>4. T = {k - p + 1}
      BY <2>2, <3>2
    <3> HIDE DEF zeros
    <3>5. PICK j \in T : m = SubSeq(x, 1, j - 1)
      BY <3>3, Zenon
    <3>6. j - 1 = k - p
      BY <1>1, <3>4, <3>5
    <3> QED BY <3>5, <3>6
  <2>4. m = r
    <3>1. PICK l : l = k - p /\ l \in Nat /\ l <= Len(x)
      BY <1>1, <1>5, <1>6
    <3>2. \A i \in 1 .. l : x[i] \in Chars
      BY <1>6, <3>1 DEF Bytes
    <3>3. /\ SubSeq(x, 1, l) \in Seq(Chars) /\ Len(SubSeq(x, 1, l)) = l
          /\ \A j \in 1 .. l : SubSeq(x, 1, l)[j] = x[j]
      BY <3>1, <3>2, SubSeqProperties
    <3>4. m = SubSeq(x, 1, l)
      BY <1>1, <2>3, <3>1
    <3> QED BY <1>7, <1>8, <3>1, <3>3, <3>4, SameText DEF Bytes
  <2>5. r = r \o <<>>
    BY <1>7 DEF Bytes
  <2>6. m = SubSeq(v, p + 1, Len(v)) \o <<>> /\ p \in 0 .. Len(v) /\ <<>> \in {<<>>}
    BY <1>1, <1>2, <1>5, <2>4, <2>5 DEF r
  <2> QED BY <1>10, <2>4, <2>6 DEF v
<1> QED BY <1>11, <1>12

(* The strings' values, and the steps StringValues allows them.            *)
ValueNow == [y \in DOMAIN string |-> Content(string[y])]

SimpleText == Literals \cup {Content(string[y]) : y \in DOMAIN string}

Value(x) ==
  AsValues!Becomes(x) \/ AsValues!Grows(x) \/ AsValues!Rest(x) \/ AsValues!Moves(x) \/ AsValues!Ends(x)

NowWith(x, m) == [y \in DOMAIN string \cup {x} |-> IF y = x THEN m ELSE Content(string[y])]

(* The abstract state, and what its two helpers are here. *)
LEMMA NowFacts ==
  /\ DOMAIN ValueNow = DOMAIN string /\ \A y \in DOMAIN string : ValueNow[y] = Content(string[y])
  /\ \A x, m : AsValues!With(x, m) = NowWith(x, m)
  /\ AsValues!Simple = SimpleText
<1>1. DOMAIN ValueNow = DOMAIN string /\ \A y \in DOMAIN string : ValueNow[y] = Content(string[y])
  BY DEF ValueNow
<1>2. \A x, m : AsValues!With(x, m) = NowWith(x, m)
  BY DEF AsValues!With, NowWith
<1>3. AsValues!Simple = SimpleText
  BY DEF AsValues!Simple, SimpleText
<1> QED BY <1>1, <1>2, <1>3

(* Which steps of the values StringValues allows: a text that can be written*)
(* down, one more behind a string, and the rest of one.                     *)
LEMMA ValueSteps ==
  ASSUME NEW x, NEW m, ValueNow' = NowWith(x, m)
  PROVE  /\ m \in SimpleText => Value(x)
         /\ \A y \in DOMAIN string, u \in SimpleText : m = Content(string[y]) \o u => Value(x)
         /\ \A y \in DOMAIN string, p \in Nat, t \in Trails \cup {<<>>} :
              /\ p \in 0 .. Len(Content(string[y]))
              /\ m = SubSeq(Content(string[y]), p + 1, Len(Content(string[y]))) \o t
              => Value(x)
<1>1. [y \in DOMAIN string |-> Content(string[y])]' = AsValues!With(x, m)
  BY NowFacts DEF ValueNow
<1>2. ASSUME m \in SimpleText PROVE Value(x)
  <2>1. AsValues!Becomes(x)
    BY <1>1, <1>2, NowFacts DEF AsValues!Becomes
  <2> QED BY <2>1 DEF Value
<1>3. ASSUME NEW y \in DOMAIN string, NEW u \in SimpleText, m = Content(string[y]) \o u PROVE Value(x)
  <2>1. AsValues!Grows(x)
    BY <1>1, <1>3, NowFacts DEF AsValues!Grows
  <2> QED BY <2>1 DEF Value
<1>4. ASSUME NEW y \in DOMAIN string, NEW p \in Nat, NEW t \in Trails \cup {<<>>},
             p \in 0 .. Len(Content(string[y])),
             m = SubSeq(Content(string[y]), p + 1, Len(Content(string[y]))) \o t
      PROVE  Value(x)
  <2>1. AsValues!Rest(x)
    BY <1>1, <1>4, NowFacts DEF AsValues!Rest
  <2> QED BY <2>1 DEF Value
<1> QED BY <1>2, <1>3, <1>4

(* What Gives is for the values. *)
LEMMA GivesNow ==
  ASSUME IInv, IInv', Clean, NEW x, NEW m, Plain(m), Gives(x, m)
  PROVE  Clean' /\ ValueNow' = NowWith(x, m)
<1>1. /\ Clean' /\ DOMAIN string' = DOMAIN string \cup {x}
      /\ \A y \in DOMAIN string' : Content(string[y])' = IF y = x THEN m ELSE Content(string[y])
  BY GivesValue
<1>2. ValueNow' = [y \in DOMAIN string' |-> Content(string[y])']
  BY DEF ValueNow
<1> QED BY <1>1, <1>2 DEF NowWith

(* Concatenation keeps texts plain. *)
LEMMA PlainConcat ==
  ASSUME NEW a, NEW b, Plain(a), Plain(b)
  PROVE  Plain(a \o b)
<1>1. a \in Bytes /\ b \in Bytes
  BY DEF Plain
<1>2. /\ a \o b \in Bytes /\ Len(a \o b) = Len(a) + Len(b) /\ Len(a) \in Nat /\ Len(b) \in Nat
      /\ \A j \in 1 .. Len(a) + Len(b) : (a \o b)[j] = IF j <= Len(a) THEN a[j] ELSE b[j - Len(a)]
  BY <1>1, ConcatText
<1> QED BY <1>1, <1>2 DEF Plain

(* What can be written down is plain. *)
LEMMA SimplePlain ==
  ASSUME Clean
  PROVE  /\ \A m \in SimpleText : Plain(m)
         /\ \A y \in DOMAIN string, m \in SimpleText : Plain(Content(string[y]) \o m)
<1>1. \A m \in Literals : Plain(m)
  BY StringTexts DEF Plain, Bytes
<1>2. \A m \in SimpleText : Plain(m)
  BY <1>1 DEF Clean, SimpleText
<1> QED BY <1>2, PlainConcat DEF Clean

ValueStep(x) == Clean' /\ Value(x)

(* The constructors, and operator+ and from, which construct one. *)
LEMMA MakesValues ==
  ASSUME IInv, IInv', Clean, NEW x \in Names, NEW y \in Names
  PROVE  /\ \A m \in Literals : Make(x, m) \/ Plus(x, y, m) => ValueStep(x)
         /\ NewCopy(x, y) => ValueStep(x)
         /\ \A p \in 0 .. MaxLength : from(x, y, p) => ValueStep(x)
         /\ \A z \in Names : PlusString(x, y, z) => ValueStep(x)
<1>1. ASSUME NEW m, Plain(m), Make(x, m) PROVE Clean' /\ ValueNow' = NowWith(x, m)
  <2>1. m \in Bytes
    BY <1>1 DEF Plain
  <2>2. Gives(x, m)
    BY <1>1, <2>1, MakeGives
  <2> QED BY <1>1, <2>2, GivesNow
<1>2. ASSUME NEW m \in SimpleText, Make(x, m) PROVE ValueStep(x)
  BY <1>1, <1>2, SimplePlain, ValueSteps DEF ValueStep
<1>3. ASSUME NEW m \in SimpleText, Plus(x, y, m) PROVE ValueStep(x)
  <2>1. Make(x, Content(string[y]) \o m) /\ y \in DOMAIN string
    BY <1>3 DEF Plus, Has
  <2>2. Clean' /\ ValueNow' = NowWith(x, Content(string[y]) \o m)
    BY <1>1, <2>1, SimplePlain
  <2> QED BY <2>1, <2>2, ValueSteps DEF ValueStep
<1>4. Literals \subseteq SimpleText /\ \A z \in DOMAIN string : Content(string[z]) \in SimpleText
  BY DEF SimpleText
<1>5. ASSUME NEW p \in 0 .. MaxLength, from(x, y, p) PROVE ValueStep(x)
  <2>1. p \in Nat /\ y \in DOMAIN string /\ string[y].data # Nowhere /\ p <= string[y].len
    BY <1>5, StringTexts DEF from, Has
  <2>2. PICK m \in FromData(string[y], p) : Make(x, m)
    BY <1>5 DEF from
  <2>3. Plain(m) /\ p \in 0 .. Len(Content(string[y]))
    BY <2>1, <2>2, FromDataIs
  <2>4. PICK t \in Trails \cup {<<>>} :
          m = SubSeq(Content(string[y]), p + 1, Len(Content(string[y]))) \o t
    BY <2>1, <2>2, FromDataIs
  <2>5. Clean' /\ ValueNow' = NowWith(x, m)
    BY <1>1, <2>2, <2>3
  <2>6. Value(x)
    BY <2>1, <2>3, <2>4, <2>5, ValueSteps
  <2> QED BY <2>5, <2>6 DEF ValueStep
<1>6. NewCopy(x, y) => ValueStep(x)
  BY <1>2, <1>4 DEF NewCopy, Has
<1>7. \A z \in Names : PlusString(x, y, z) => ValueStep(x)
  BY <1>3, <1>4 DEF PlusString, Has
<1> QED BY <1>2, <1>3, <1>4, <1>5, <1>6, <1>7

(* The assignments and the appends. *)
LEMMA ChangesValues ==
  ASSUME IInv, IInv', Clean, NEW x \in Names, NEW y \in Names
  PROVE  /\ \A m \in Literals : AssignLiteral(x, m) \/ AppendLiteral(x, m) => ValueStep(x)
         /\ AssignString(x, y) \/ AppendString(x, y) => ValueStep(x)
<1>1. ASSUME NEW m \in SimpleText, x \in DOMAIN string, AssignChars(x, m) PROVE ValueStep(x)
  <2>1. Plain(m) /\ m \in Bytes
    BY SimplePlain DEF Plain
  <2>2. Gives(x, m)
    BY <1>1, <2>1, AssignGives
  <2>3. Clean' /\ ValueNow' = NowWith(x, m)
    BY <2>1, <2>2, GivesNow
  <2> QED BY <2>3, ValueSteps DEF ValueStep
<1>2. ASSUME NEW m \in SimpleText, x \in DOMAIN string, AppendChars(x, m) PROVE ValueStep(x)
  <2>1. Plain(m) /\ m \in Bytes /\ Plain(Content(string[x]) \o m)
    BY <1>2, SimplePlain DEF Plain
  <2>2. Gives(x, Content(string[x]) \o m)
    BY <1>2, <2>1, AppendGives
  <2>3. Clean' /\ ValueNow' = NowWith(x, Content(string[x]) \o m)
    BY <2>1, <2>2, GivesNow
  <2> QED BY <1>2, <2>3, ValueSteps DEF ValueStep
<1>3. Literals \subseteq SimpleText /\ \A z \in DOMAIN string : Content(string[z]) \in SimpleText
  BY DEF SimpleText
<1>4. ASSUME NEW m \in Literals, AssignLiteral(x, m) \/ AppendLiteral(x, m) PROVE ValueStep(x)
  BY <1>1, <1>2, <1>3, <1>4 DEF AssignLiteral, AppendLiteral, Has
<1>5. ASSUME AssignString(x, y) \/ AppendString(x, y) PROVE ValueStep(x)
  BY <1>1, <1>2, <1>3, <1>5 DEF AssignString, AppendString, Has
<1> QED BY <1>4, <1>5

(* A move gives x the value of y, and y the empty one. *)
LEMMA MoveValue ==
  ASSUME IInv, Clean, NEW x, NEW y \in DOMAIN string,
         DOMAIN string' = DOMAIN string \cup {x}, string'[y] = [data |-> Nowhere, len |-> 0],
         x # y => string'[x] = string[y], \A z \in DOMAIN string \ {x, y} : string'[z] = string[z],
         block' = block
  PROVE  ValueStep(x)
<1>1. ASSUME NEW z \in DOMAIN string'
      PROVE  Content(string[z])' = IF z = y THEN <<>> ELSE IF z = x THEN Content(string[y])
                                   ELSE Content(string[z])
  BY DEF Content
<1>2. Clean'
  <2> SUFFICES ASSUME NEW z \in DOMAIN string'
               PROVE  Plain(Content(string[z])') /\ HasText(block', string'[z], Content(string[z])')
    BY DEF Clean
  <2>1. CASE z = y
    <3>1. Plain(<<>>) /\ HasText(block', [data |-> Nowhere, len |-> 0], <<>>)
      BY DEF Plain, HasText, Bytes
    <3> QED BY <1>1, <2>1, <3>1
  <2>2. CASE z # y
    BY <1>1, <2>2 DEF Clean
  <2> QED BY <2>1, <2>2
<1>3. [z \in DOMAIN string |-> Content(string[z])]'
        = [z \in DOMAIN string \cup {x} |-> IF z = y THEN <<>> ELSE IF z = x THEN Content(string[y])
                                           ELSE Content(string[z])]
  BY <1>1
<1>4. AsValues!Moves(x)
  BY <1>3 DEF AsValues!Moves
<1> QED BY <1>2, <1>4 DEF ValueStep, Value

(* Both moves do that, onto a new string, an old one or itself. *)
LEMMA MovesValues ==
  ASSUME IInv, Clean, NEW x \in Names, NEW y \in Names
  PROVE  NewMove(x, y) \/ AssignMove(x, y) => ValueStep(x)
<1>1. ASSUME NewMove(x, y) PROVE ValueStep(x)
  <2>1. /\ y \in DOMAIN string /\ x \notin DOMAIN string /\ block' = block
        /\ DOMAIN string' = DOMAIN string \cup {x}
        /\ string'[y] = [data |-> Nowhere, len |-> 0] /\ string'[x] = string[y]
        /\ \A z \in DOMAIN string \ {x, y} : string'[z] = string[z]
    BY <1>1 DEF NewMove, Set, Has
  <2> QED BY <2>1, MoveValue
<1>2. ASSUME AssignMove(x, y) PROVE ValueStep(x)
  <2>1. /\ y \in DOMAIN string /\ x \in DOMAIN string /\ block' = block
        /\ DOMAIN string' = DOMAIN string \cup {x}
        /\ string'[y] = [data |-> Nowhere, len |-> 0] /\ (x # y => string'[x] = string[y])
        /\ \A z \in DOMAIN string \ {x, y} : string'[z] = string[z]
    BY <1>2 DEF AssignMove, Has, IInv, Typed
  <2> QED BY <2>1, MoveValue
<1> QED BY <1>1, <1>2

(* A step that leaves the strings and their blocks leaves their values. *)
LEMMA ValuesStay ==
  ASSUME IInv, Clean, string' = string,
         \A y \in DOMAIN string : string[y].data # Nowhere => block'[string[y].data] = block[string[y].data]
  PROVE  Clean' /\ ValueNow' = ValueNow
<1>1. ASSUME NEW y \in DOMAIN string
      PROVE  /\ Content(string[y])' = Content(string[y])
             /\ HasText(block', string[y], Content(string[y]))
  <2>1. /\ string'[y] = string[y]
        /\ string[y].data # Nowhere => block'[string[y].data] = block[string[y].data]
    OBVIOUS
  <2>2. Content(string[y])' = Content(string[y])
    BY <2>1 DEF Content
  <2>3. HasText(block, string[y], Content(string[y]))
    BY DEF Clean
  <2> QED BY <2>1, <2>2, <2>3 DEF HasText
<1> QED BY <1>1 DEF Clean, ValueNow

(* The destructor ends its own string only. *)
LEMMA DeleteValue ==
  ASSUME IInv, Clean, NEW x \in Names, Delete(x)
  PROVE  ValueStep(x)
<1> DEFINE a == string[x].data
<1>1. /\ x \in DOMAIN string /\ block' = free(block, a) /\ DOMAIN string' = DOMAIN string \ {x}
      /\ \A y \in DOMAIN string' : string'[y] = string[y]
  BY DEF Delete, Drop, Restrict, Has
<1>2. Memory(block) /\ a \in Blocks \cup {Nowhere}
  BY <1>1, OwnData DEF IInv, Typed
<1>3. \A c \in DOMAIN block \ {a} : block'[c] = block[c]
  <2> HIDE DEF a
  <2>1. \A c \in DOMAIN block \ {a} : free(block, a)[c] = block[c]
    BY <1>2, FreeMemory
  <2> QED BY <1>1, <2>1
<1> HIDE DEF a
<1>4. ASSUME NEW y \in DOMAIN string', string[y].data # Nowhere
      PROVE  block'[string[y].data] = block[string[y].data]
  <2>1. string[y].data \in DOMAIN block \ {a}
    BY <1>1, <1>4, OwnData DEF a
  <2> QED BY <1>3, <2>1
<1>5. \A y \in DOMAIN string' : /\ Content(string[y])' = Content(string[y])
                                /\ HasText(block', string'[y], Content(string[y]))
  <2> SUFFICES ASSUME NEW y \in DOMAIN string'
               PROVE  /\ Content(string[y])' = Content(string[y])
                      /\ HasText(block', string'[y], Content(string[y]))
    OBVIOUS
  <2>1. string'[y] = string[y] /\ HasText(block, string[y], Content(string[y]))
    BY <1>1 DEF Clean
  <2>2. string[y].data # Nowhere => block'[string[y].data] = block[string[y].data]
    BY <1>4
  <2> QED BY <2>1, <2>2 DEF Content, HasText
<1>6. Clean'
  BY <1>1, <1>5 DEF Clean
<1>7. [y \in DOMAIN string |-> Content(string[y])]'
        = Restrict([y \in DOMAIN string |-> Content(string[y])], DOMAIN string \ {x})
  BY <1>1, <1>5 DEF Restrict
<1>8. AsValues!Ends(x)
  BY <1>1, <1>7 DEF AsValues!Ends, AsValues!Restrict, Restrict
<1> QED BY <1>6, <1>8 DEF ValueStep, Value

(* The client's copies are no string's. *)
LEMMA CopiesValue ==
  ASSUME IInv, Clean
  PROVE  /\ \A y \in Names : cstr(y) => Clean' /\ ValueNow' = ValueNow
         /\ \A a \in copies : FreeCopy(a) => Clean' /\ ValueNow' = ValueNow
<1>1. Memory(block) /\ copies \subseteq DOMAIN block
  BY DEF IInv, Typed, OneOwner
<1>2. \A y \in DOMAIN string : string[y].data # Nowhere => string[y].data \in DOMAIN block \ copies
  BY OwnData
<1>3. ASSUME NEW y \in Names, cstr(y) PROVE Clean' /\ ValueNow' = ValueNow
  <2>1. CASE string[y].data = Nowhere
    BY <1>3, <2>1, ValuesStay DEF cstr
  <2>2. CASE string[y].data # Nowhere
    <3>1. PICK a \in Fresh(block), m \in FromData(string[y], 0) : block' = strndup(block, a, m)
      BY <1>3, <2>2 DEF cstr
    <3>2. string' = string /\ m \in Bytes /\ a \in Blocks \ DOMAIN block
      BY <1>3, <2>2, ReadTexts DEF cstr, Has, Fresh
    <3>3. \A c \in DOMAIN block : block'[c] = block[c]
      BY <1>1, <3>1, <3>2, StrndupMemory
    <3> QED BY <1>2, <3>2, <3>3, ValuesStay
  <2> QED BY <2>1, <2>2
<1>4. ASSUME NEW a \in copies, FreeCopy(a) PROVE Clean' /\ ValueNow' = ValueNow
  <2>1. block' = free(block, a) /\ string' = string /\ a \in Blocks
    BY <1>1, <1>4 DEF FreeCopy, Memory
  <2>2. \A c \in DOMAIN block \ {a} : block'[c] = block[c]
    BY <1>1, <2>1, FreeMemory
  <2> QED BY <1>2, <2>1, <2>2, ValuesStay
<1> QED BY <1>3, <1>4

(* Strings are values, in spite of moves, shared code paths for assignment *)
(* into old and new blocks, and texts that no 0 ends: an operation gives   *)
(* its string the text it should and no other string another one.          *)
THEOREM StringsAreValues == StringSpec => ImplementsValues
<1> DEFINE Valued == [\E x \in Names : AsValues!Becomes(x) \/ AsValues!Grows(x) \/ AsValues!Rest(x)
                                        \/ AsValues!Moves(x) \/ AsValues!Ends(x)
                      ]_[x \in DOMAIN string |-> Content(string[x])]
<1>0. (\E x \in Names : Value(x)) \/ ValueNow' = ValueNow => Valued
  BY DEF Value, ValueNow
<1>1. StringInit => IInv /\ Clean /\ [x \in DOMAIN string |-> Content(string[x])] = <<>>
  <2> SUFFICES ASSUME StringInit PROVE Clean /\ [x \in DOMAIN string |-> Content(string[x])] = <<>>
    BY StringInitIInv
  <2> QED BY DEF StringInit, Clean
<1>2. IInv /\ Clean /\ [StringNext]_stringVars => IInv' /\ Clean' /\ Valued
  <2> SUFFICES ASSUME IInv, Clean, [StringNext]_stringVars
               PROVE  IInv' /\ Clean' /\ Valued
    OBVIOUS
  <2>1. IInv'
    BY StepKeeps, StutterKeeps DEF Kept
  <2>2. ASSUME UNCHANGED stringVars PROVE Clean' /\ ValueNow' = ValueNow
    BY <2>2, ValuesStay DEF stringVars
  <2>3. ASSUME StringNext PROVE Clean' /\ ((\E x \in Names : Value(x)) \/ ValueNow' = ValueNow)
    BY <2>1, <2>3, MakesValues, ChangesValues, MovesValues, DeleteValue, CopiesValue
       DEF StringNext, ValueStep
  <2> HIDE DEF Valued
  <2> QED BY <1>0, <2>1, <2>2, <2>3
<1> QED BY <1>1, <1>2, PTL DEF StringSpec, ImplementsValues, AsValues!ValueSpec
=============================================================================
