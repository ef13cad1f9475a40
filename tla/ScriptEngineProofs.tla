-------------------------- MODULE ScriptEngineProofs --------------------------
(***************************************************************************)
(* Theorems about ScriptEngine, for any set of programs, any number of     *)
(* blocks, commands and rounds, any size of the array and whatever the     *)
(* uninitialised variables hold.  The first parts say where the lines of a *)
(* block end up in the array and what executing a part of a block amounts  *)
(* to; the invariant (Places) says at which of them the engine is.         *)
(***************************************************************************)
EXTENDS ScriptEngine, DataLemmas

Op       == {"cmd", "loop", "start", "end"}
UsedLine == [op : Op, arg : Int]
FileLine == [op : Op \cup {"skip"}, arg : Int]

-----------------------------------------------------------------------------
(* What is left of a file, of a part of it and of each kind of line. *)
Kept(file) == [k \in DOMAIN file |-> IF file[k].op = "skip" THEN <<>> ELSE <<file[k]>>]

LEMMA KeptType ==
  ASSUME NEW s \in Seq(FileLine)
  PROVE  /\ Kept(s) \in Seq(Seq(UsedLine)) /\ Len(Kept(s)) = Len(s)
         /\ useful(s) = FlattenSeq(Kept(s)) /\ useful(s) \in Seq(UsedLine)
<1> DEFINE T == Seq(UsedLine)
<1>1. Len(s) \in Nat /\ DOMAIN s = 1 .. Len(s) /\ \A k \in 1 .. Len(s) : s[k] \in FileLine
  <2> HIDE DEF FileLine
  <2> QED
    BY LenProperties, ElementOfSeq
<1>2. ASSUME NEW k \in 1 .. Len(s)
      PROVE  (IF s[k].op = "skip" THEN <<>> ELSE <<s[k]>>) \in T
  <2>1. s[k] \in FileLine
    BY <1>1
  <2>2. CASE s[k].op = "skip"
    BY <2>2, EmptySeq
  <2>3. CASE s[k].op # "skip"
    <3>1. s[k] \in UsedLine
      BY <2>1, <2>3 DEF FileLine, UsedLine
    <3> QED
      BY <2>3, <3>1
  <2> QED
    BY <2>2, <2>3
<1> DEFINE F == [k \in 1 .. Len(s) |-> IF s[k].op = "skip" THEN <<>> ELSE <<s[k]>>]
<1> HIDE DEF T
<1>3. F \in Seq(T) /\ Len(F) = Len(s)
  BY <1>1, <1>2
<1>4. Kept(s) = F
  BY <1>1 DEF Kept
<1>5. useful(s) = FlattenSeq(Kept(s))
  BY DEF useful, Kept
<1>6. Kept(s) \in Seq(Seq(UsedLine))
  BY <1>3, <1>4 DEF T
<1> QED
  BY <1>3, <1>4, <1>5, <1>6, FlattenType

LEMMA UsefulConcat ==
  ASSUME NEW s \in Seq(FileLine), NEW t \in Seq(FileLine)
  PROVE  s \o t \in Seq(FileLine) /\ useful(s \o t) = useful(s) \o useful(t)
<1> DEFINE u == s \o t
           T == Seq(UsedLine)
<1>1. /\ u \in Seq(FileLine) /\ Len(u) = Len(s) + Len(t) /\ Len(s) \in Nat /\ Len(t) \in Nat
      /\ DOMAIN u = 1 .. Len(u) /\ DOMAIN s = 1 .. Len(s) /\ DOMAIN t = 1 .. Len(t)
      /\ \A k \in 1 .. Len(s) + Len(t) : u[k] = IF k <= Len(s) THEN s[k] ELSE t[k - Len(s)]
  BY ConcatProperties, LenProperties
<1> HIDE DEF u, T
<1>2. Kept(u) \in Seq(T) /\ Len(Kept(u)) = Len(u)
  BY <1>1, KeptType DEF T
<1>3. Kept(s) \in Seq(T) /\ Kept(t) \in Seq(T) /\ Len(Kept(s)) = Len(s) /\ Len(Kept(t)) = Len(t)
  BY KeptType DEF T
<1>4. /\ Kept(s) \o Kept(t) \in Seq(T) /\ Len(Kept(s) \o Kept(t)) = Len(s) + Len(t)
      /\ \A k \in 1 .. Len(s) + Len(t) :
           (Kept(s) \o Kept(t))[k] = IF k <= Len(s) THEN Kept(s)[k] ELSE Kept(t)[k - Len(s)]
  <2> DEFINE a == Kept(s)
             b == Kept(t)
  <2>1. a \in Seq(T) /\ b \in Seq(T) /\ Len(a) = Len(s) /\ Len(b) = Len(t)
    BY <1>3
  <2> HIDE DEF a, b
  <2>2. /\ a \o b \in Seq(T) /\ Len(a \o b) = Len(a) + Len(b)
        /\ \A k \in 1 .. Len(a) + Len(b) : (a \o b)[k] = IF k <= Len(a) THEN a[k] ELSE b[k - Len(a)]
    BY <2>1, ConcatProperties
  <2> QED
    BY <2>1, <2>2 DEF a, b
<1>5. ASSUME NEW k \in 1 .. Len(s) + Len(t) PROVE Kept(u)[k] = (Kept(s) \o Kept(t))[k]
  <2>1. CASE k <= Len(s)
    <3>1. k \in 1 .. Len(s) /\ u[k] = s[k] /\ (Kept(s) \o Kept(t))[k] = Kept(s)[k]
      BY <1>1, <1>4, <2>1
    <3> QED
      BY <1>1, <3>1 DEF Kept
  <2>2. CASE k > Len(s)
    <3>1. /\ k - Len(s) \in 1 .. Len(t) /\ u[k] = t[k - Len(s)]
          /\ (Kept(s) \o Kept(t))[k] = Kept(t)[k - Len(s)]
      BY <1>1, <1>4, <2>2
    <3> QED
      BY <1>1, <3>1 DEF Kept
  <2>3. k <= Len(s) \/ k > Len(s)
    BY <1>1
  <2> QED
    BY <2>1, <2>2, <2>3
<1>6. Kept(u) = Kept(s) \o Kept(t)
  BY <1>1, <1>2, <1>4, <1>5, SeqEqual
<1>7. Kept(s) \in Seq(Seq(UsedLine)) /\ Kept(t) \in Seq(Seq(UsedLine))
  BY <1>3 DEF T
<1>8. FlattenSeq(Kept(s) \o Kept(t)) = FlattenSeq(Kept(s)) \o FlattenSeq(Kept(t))
  BY <1>7, FlattenConcat
<1>9. useful(u) = useful(s) \o useful(t)
  BY <1>1, <1>6, <1>8, KeptType
<1> QED
  BY <1>1, <1>9 DEF u

LEMMA UsefulUsed ==
  ASSUME NEW s \in Seq(UsedLine)
  PROVE  s \in Seq(FileLine) /\ useful(s) = s
<1>1. \A x \in UsedLine : x \in FileLine /\ x.op # "skip"
  BY DEF UsedLine, FileLine, Op
<1>2. s \in Seq(FileLine)
  BY <1>1, SeqMonotonic
<1>3. Len(s) \in Nat /\ DOMAIN s = 1 .. Len(s) /\ \A k \in 1 .. Len(s) : s[k] \in UsedLine
  BY LenProperties, ElementOfSeq
<1>4. [k \in DOMAIN s |-> IF s[k].op = "skip" THEN <<>> ELSE <<s[k]>>] = [k \in DOMAIN s |-> <<s[k]>>]
  BY <1>1, <1>3
<1> QED
  BY <1>2, <1>4, FlattenSingletons DEF useful

LEMMA UsefulSkip ==
  /\ <<Line("skip", 0)>> \in Seq(FileLine) /\ useful(<<Line("skip", 0)>>) = <<>>
  /\ <<>> \in Seq(FileLine) /\ useful(<<>>) = <<>>
<1>1. Line("skip", 0) \in FileLine /\ Line("skip", 0).op = "skip"
  BY DEF Line, FileLine
<1> DEFINE x == Line("skip", 0)
<1> HIDE DEF x
<1>2. <<x>> \in Seq(FileLine)
  BY <1>1 DEF x
<1>3. Kept(<<x>>) = Append(<<>>, <<>>)
  BY <1>1 DEF Kept, x
<1>4. FlattenSeq(Append(<<>>, <<>>)) = <<>>
  <2>1. <<>> \in Seq({})
    OBVIOUS
  <2> QED
    BY <2>1, FlattenAppendFirst
<1>5. <<>> \in Seq(UsedLine) /\ <<>> \in Seq(FileLine)
  OBVIOUS
<1> QED
  BY <1>2, <1>3, <1>4, <1>5, KeptType, UsefulUsed DEF x

-----------------------------------------------------------------------------
(* What is left of a block. *)
BlockUsed(b) ==
  IF b.loop
  THEN <<Line("loop", b.times), Line("start", 0)>> \o Commands(b.body) \o <<Line("end", 0)>>
  ELSE Commands(b.body)

Marked(b) == b.loop => b.marks = {"start", "end"}

LEMMA BlockFields ==
  ASSUME NEW b \in Block
  PROVE  /\ b.loop \in BOOLEAN /\ b.times \in Int /\ b.noise \in BOOLEAN
         /\ b.body \in Seq(Int) /\ Len(b.body) \in Nat /\ DOMAIN b.body = 1 .. Len(b.body)
BY DEF Block

LEMMA CommandsOf ==
  ASSUME NEW b \in Block
  PROVE  /\ Commands(b.body) \in Seq(UsedLine) /\ Len(Commands(b.body)) = Len(b.body)
         /\ \A k \in 1 .. Len(b.body) : Commands(b.body)[k] = Line("cmd", b.body[k])
<1>1. b.body \in Seq(Int) /\ Len(b.body) \in Nat /\ DOMAIN b.body = 1 .. Len(b.body)
  BY BlockFields
<1>2. \A k \in 1 .. Len(b.body) : Line("cmd", b.body[k]) \in UsedLine
  <2>1. \A k \in 1 .. Len(b.body) : b.body[k] \in Int
    BY <1>1, ElementOfSeq
  <2> QED
    BY <2>1 DEF Line, UsedLine, Op
<1> DEFINE C == [k \in 1 .. Len(b.body) |-> Line("cmd", b.body[k])]
<1>3. C \in Seq(UsedLine) /\ Len(C) = Len(b.body)
  BY <1>1, <1>2
<1>4. Commands(b.body) = C
  BY <1>1 DEF Commands
<1> QED
  BY <1>3, <1>4

LEMMA BlockUsedLines ==
  ASSUME NEW b \in Block
  PROVE  /\ BlockUsed(b) \in Seq(UsedLine)
         /\ Len(BlockUsed(b)) = IF b.loop THEN Len(b.body) + 3 ELSE Len(b.body)
         /\ ~ b.loop => \A k \in 1 .. Len(b.body) : BlockUsed(b)[k] = Line("cmd", b.body[k])
         /\ b.loop =>
              /\ BlockUsed(b)[1] = Line("loop", b.times) /\ BlockUsed(b)[2] = Line("start", 0)
              /\ BlockUsed(b)[Len(b.body) + 3] = Line("end", 0)
              /\ \A k \in 1 .. Len(b.body) : BlockUsed(b)[k + 2] = Line("cmd", b.body[k])
<1>1. CASE ~ b.loop
  BY <1>1, CommandsOf, BlockFields DEF BlockUsed
<1>2. CASE b.loop
  <2> DEFINE h == <<Line("loop", b.times), Line("start", 0)>>
             c == Commands(b.body)
             e == <<Line("end", 0)>>
             n == Len(b.body)
  <2>1. Line("loop", b.times) \in UsedLine /\ Line("start", 0) \in UsedLine /\ Line("end", 0) \in UsedLine
    BY BlockFields DEF Line, UsedLine, Op
  <2>2. /\ h \in Seq(UsedLine) /\ Len(h) = 2 /\ h[1] = Line("loop", b.times) /\ h[2] = Line("start", 0)
        /\ e \in Seq(UsedLine) /\ Len(e) = 1 /\ e[1] = Line("end", 0)
    BY <2>1
  <2>3. c \in Seq(UsedLine) /\ Len(c) = n /\ n \in Nat /\ \A k \in 1 .. n : c[k] = Line("cmd", b.body[k])
    BY CommandsOf, BlockFields
  <2> HIDE DEF h, c, e, n
  <2> DEFINE hc == h \o c
             u  == hc \o e
  <2>4. /\ hc \in Seq(UsedLine) /\ Len(hc) = 2 + n
        /\ \A k \in 1 .. 2 : hc[k] = h[k]
        /\ \A k \in 1 .. n : hc[2 + k] = c[k]
    <3>1. h \in Seq(UsedLine) /\ c \in Seq(UsedLine)
      BY <2>2, <2>3
    <3>2. /\ hc \in Seq(UsedLine) /\ Len(hc) = Len(h) + Len(c)
          /\ \A k \in 1 .. Len(h) : hc[k] = h[k]
          /\ \A k \in 1 .. Len(c) : hc[Len(h) + k] = c[k]
      BY <3>1, ConcatAt
    <3> QED
      BY <2>2, <2>3, <3>2
  <2> HIDE DEF hc
  <2>5. /\ u \in Seq(UsedLine) /\ Len(u) = (2 + n) + 1
        /\ \A k \in 1 .. 2 + n : u[k] = hc[k]
        /\ \A k \in 1 .. 1 : u[(2 + n) + k] = e[k]
    <3>1. e \in Seq(UsedLine) /\ hc \in Seq(UsedLine)
      BY <2>2, <2>4
    <3>2. /\ u \in Seq(UsedLine) /\ Len(u) = Len(hc) + Len(e)
          /\ \A k \in 1 .. Len(hc) : u[k] = hc[k]
          /\ \A k \in 1 .. Len(e) : u[Len(hc) + k] = e[k]
      BY <3>1, ConcatAt
    <3> QED
      BY <2>2, <2>4, <3>2
  <2> HIDE DEF u
  <2>6. /\ 1 \in 1 .. 2 + n /\ 2 \in 1 .. 2 + n /\ 1 \in 1 .. 2 /\ 2 \in 1 .. 2 /\ 1 \in 1 .. 1
        /\ (2 + n) + 1 = n + 3 /\ \A k \in 1 .. n : 2 + k = k + 2 /\ k + 2 \in 1 .. 2 + n
    BY <2>3
  <2>7. Len(u) = n + 3
    BY <2>5, <2>6
  <2>8. u[1] = Line("loop", b.times) /\ u[2] = Line("start", 0) /\ u[n + 3] = Line("end", 0)
    BY <2>2, <2>4, <2>5, <2>6
  <2>9. ASSUME NEW k \in 1 .. n PROVE u[k + 2] = Line("cmd", b.body[k])
    BY <2>3, <2>4, <2>5, <2>6
  <2>10. BlockUsed(b) = u
    BY <1>2 DEF BlockUsed, u, hc, h, c, e
  <2> QED
    BY <1>2, <2>5, <2>7, <2>8, <2>9, <2>10 DEF n
<1> QED
  BY <1>1, <1>2, BlockFields

LEMMA UsefulNoise ==
  ASSUME NEW s \in Seq(FileLine), NEW N \in Seq(FileLine), useful(N) = <<>>
  PROVE  /\ s \o N \in Seq(FileLine) /\ useful(s \o N) = useful(s)
         /\ N \o s \in Seq(FileLine) /\ useful(N \o s) = useful(s)
<1> DEFINE u == useful(s)
<1>1. u \in Seq(UsedLine)
  BY KeptType
<1>2. useful(s \o N) = u \o <<>> /\ useful(N \o s) = <<>> \o u
  BY UsefulConcat
<1> HIDE DEF u
<1>3. u \o <<>> = u /\ <<>> \o u = u
  BY <1>1, ConcatEmptySeq
<1> QED
  BY <1>2, <1>3, UsefulConcat DEF u

LEMMA BlockLinesType ==
  ASSUME NEW b \in Block
  PROVE  BlockLines(b) \in Seq(FileLine)
<1> DEFINE T == Seq(FileLine)
<1>1. /\ Line("loop", b.times) \in FileLine /\ Line("start", 0) \in FileLine
      /\ Line("end", 0) \in FileLine
  BY BlockFields DEF Line, FileLine, Op
<1>2. /\ <<Line("loop", b.times)>> \in T /\ Mark(b, "start") \in T /\ Mark(b, "end") \in T
  BY <1>1 DEF Mark
<1>3. Noise(b) \in T /\ Commands(b.body) \in T
  BY UsefulSkip, CommandsOf, UsefulUsed DEF Noise
<1>4. \A s, t \in T : s \o t \in T
  BY UsefulConcat
<1> HIDE DEF T
<1>5. BlockLines(b) \in T
  BY <1>2, <1>3, <1>4 DEF BlockLines
<1> QED
  BY <1>5 DEF T

(* Comments and empty lines go, whatever is sprinkled over the block. *)
LEMMA UsefulBlock ==
  ASSUME NEW b \in Block, Marked(b)
  PROVE  BlockLines(b) \in Seq(FileLine) /\ useful(BlockLines(b)) = BlockUsed(b)
<1> DEFINE c == Commands(b.body)
<1>1. Noise(b) \in Seq(FileLine) /\ useful(Noise(b)) = <<>>
  BY UsefulSkip DEF Noise
<1>2. c \in Seq(UsedLine) /\ c \in Seq(FileLine) /\ useful(c) = c
  BY CommandsOf, UsefulUsed
<1>3. CASE ~ b.loop
  <2>1. BlockLines(b) = Noise(b) \o c /\ BlockUsed(b) = c
    BY <1>3 DEF BlockLines, BlockUsed
  <2> HIDE DEF c
  <2>2. Noise(b) \o c \in Seq(FileLine) /\ useful(Noise(b) \o c) = <<>> \o c
    BY <1>1, <1>2, UsefulConcat
  <2>3. <<>> \o c = c
    BY <1>2, ConcatEmptySeq
  <2> QED
    BY <2>1, <2>2, <2>3
<1>4. CASE b.loop
  <2> DEFINE l == <<Line("loop", b.times)>>
             s == <<Line("start", 0)>>
             e == <<Line("end", 0)>>
             N == Noise(b)
  <2>1. Mark(b, "start") = s /\ Mark(b, "end") = e
    BY <1>4 DEF Mark, Marked
  <2>2. l \in Seq(UsedLine) /\ s \in Seq(UsedLine) /\ e \in Seq(UsedLine)
    <3>1. Line("loop", b.times) \in UsedLine /\ Line("start", 0) \in UsedLine /\ Line("end", 0) \in UsedLine
      BY BlockFields DEF Line, UsedLine, Op
    <3> QED
      BY <3>1
  <2>3. BlockLines(b) = (((((N \o l) \o N) \o s) \o c) \o N) \o e
    BY <1>4, <2>1 DEF BlockLines
  <2>4. BlockUsed(b) = ((l \o s) \o c) \o e
    <3>1. Line("loop", b.times) \in UsedLine /\ Line("start", 0) \in UsedLine
      BY BlockFields DEF Line, UsedLine, Op
    <3>2. l \o s = <<Line("loop", b.times), Line("start", 0)>>
      BY <3>1, AppendToOne
    <3> QED
      BY <1>4, <3>2 DEF BlockUsed
  <2> HIDE DEF l, s, e, N, c
  <2>5. /\ l \in Seq(FileLine) /\ useful(l) = l /\ s \in Seq(FileLine) /\ useful(s) = s
        /\ e \in Seq(FileLine) /\ useful(e) = e
    BY <2>2, UsefulUsed
  <2>6. N \in Seq(FileLine) /\ useful(N) = <<>>
    BY <1>1 DEF N
  <2>7. N \o l \in Seq(FileLine) /\ useful(N \o l) = l
    BY <2>5, <2>6, UsefulNoise
  <2>8. (N \o l) \o N \in Seq(FileLine) /\ useful((N \o l) \o N) = l
    BY <2>6, <2>7, UsefulNoise
  <2>9. ((N \o l) \o N) \o s \in Seq(FileLine) /\ useful(((N \o l) \o N) \o s) = l \o s
    BY <2>5, <2>8, UsefulConcat
  <2>10. /\ (((N \o l) \o N) \o s) \o c \in Seq(FileLine)
         /\ useful((((N \o l) \o N) \o s) \o c) = (l \o s) \o c
    BY <1>2, <2>9, UsefulConcat
  <2>11. /\ ((((N \o l) \o N) \o s) \o c) \o N \in Seq(FileLine)
         /\ useful(((((N \o l) \o N) \o s) \o c) \o N) = (l \o s) \o c
    BY <2>6, <2>10, UsefulNoise
  <2> QED
    BY <2>3, <2>4, <2>5, <2>11, UsefulConcat
<1> QED
  BY <1>3, <1>4, BlockFields

-----------------------------------------------------------------------------
(* A program, block by block: the lines written and used for each, what it *)
(* asks for, its rounds.                                                   *)
Written(p) == [i \in DOMAIN p |-> BlockLines(p[i])]
Used(p)    == [i \in DOMAIN p |-> BlockUsed(p[i])]
Asked(p)   == [i \in DOMAIN p |-> IF i \in Reached(p) THEN BlockMeaning(p[i]) ELSE <<>>]
Looped(p)  == [i \in DOMAIN p |-> BlockRounds(p, i)]

AllMarked(p) == \A i \in DOMAIN p : Marked(p[i])

LEMMA ProgramFacts ==
  ASSUME NEW p \in Seq(Block)
  PROVE  Len(p) \in Nat /\ DOMAIN p = 1 .. Len(p) /\ \A i \in 1 .. Len(p) : p[i] \in Block
<1> HIDE DEF Block
<1> QED
  BY LenProperties, ElementOfSeq

LEMMA RepeatStep ==
  ASSUME NEW s \in Seq(Int)
  PROVE  /\ Repeat(s, 0) = <<>>
         /\ \A n \in Nat : Repeat(s, n) \in Seq(Int) /\ Repeat(s, n + 1) = Repeat(s, n) \o s
         /\ \A n \in Nat : \A m \in 0 .. n : IsPrefix(Repeat(s, m), Repeat(s, n))
<1> DEFINE T == Seq(Int)
           F(n) == [k \in 1 .. n |-> s]
<1>1. s \in T
  OBVIOUS
<1> HIDE DEF T
<1>2. ASSUME NEW n \in Nat
      PROVE  /\ F(n) \in Seq(T) /\ Len(F(n)) = n /\ \A j \in 1 .. n : F(n)[j] = s
  BY <1>1
<1>3. ASSUME NEW n \in Nat, NEW m \in 0 .. n PROVE FlattenTo(F(n), m) = Repeat(s, m)
  <2>1. [j \in 1 .. m |-> F(n)[j]] = F(m)
    OBVIOUS
  <2> QED
    BY <2>1 DEF FlattenTo, Repeat
<1> HIDE DEF F
<1>4. Repeat(s, 0) = <<>>
  <2>1. F(0) \in Seq(Seq(Int))
    BY <1>2 DEF T
  <2>2. FlattenTo(F(0), 0) = <<>>
    BY <2>1, FlattenToStep
  <2> QED
    BY <1>3, <2>2
<1>5. ASSUME NEW n \in Nat
      PROVE  Repeat(s, n) \in Seq(Int) /\ Repeat(s, n + 1) = Repeat(s, n) \o s
  <2>1. n + 1 \in Nat /\ n \in 0 .. n + 1 /\ n + 1 \in 0 .. n + 1 /\ n \in 0 .. (n + 1) - 1 /\ n + 1 \in 1 .. n + 1
    OBVIOUS
  <2>2. F(n + 1) \in Seq(Seq(Int)) /\ Len(F(n + 1)) = n + 1 /\ F(n + 1)[n + 1] = s
    BY <1>2, <2>1 DEF T
  <2>3. /\ FlattenTo(F(n + 1), n) \in Seq(Int)
        /\ FlattenTo(F(n + 1), n + 1) = FlattenTo(F(n + 1), n) \o F(n + 1)[n + 1]
    BY <2>1, <2>2, FlattenToStep
  <2> QED
    BY <1>3, <2>1, <2>2, <2>3
<1>6. ASSUME NEW n \in Nat, NEW m \in 0 .. n
      PROVE  IsPrefix(Repeat(s, m), Repeat(s, n))
  <2>1. F(n) \in Seq(Seq(Int)) /\ Len(F(n)) = n /\ n \in m .. n /\ n \in 0 .. n
    BY <1>2 DEF T
  <2>2. IsPrefix(FlattenTo(F(n), m), FlattenTo(F(n), n))
    BY <2>1, FlattenToPrefix
  <2> QED
    BY <1>3, <2>1, <2>2
<1> QED
  BY <1>4, <1>5, <1>6

LEMMA RepeatNothing == \A n \in Nat : Repeat(<<>>, n) = <<>>
<1> DEFINE P == {n \in Nat : Repeat(<<>>, n) = <<>>}
<1>1. <<>> \in Seq(Int) /\ <<>> \o <<>> = <<>>
  BY EmptySeq, ConcatEmptySeq
<1>2. 0 \in P
  BY <1>1, RepeatStep
<1>3. ASSUME NEW n \in Nat, n \in P PROVE n + 1 \in P
  <2> DEFINE e == <<>>
  <2>1. e \in Seq(Int) /\ Repeat(e, n) = e /\ e \o e = e
    BY <1>1, <1>3
  <2> HIDE DEF e
  <2>2. Repeat(e, n + 1) = Repeat(e, n) \o e
    BY <2>1, RepeatStep
  <2>3. Repeat(e, n + 1) = e
    BY <2>1, <2>2
  <2> QED
    BY <2>3 DEF e
<1> HIDE DEF P
<1>4. \A n \in Nat : n \in P
  BY <1>2, <1>3, Induction
<1> QED
  BY <1>4 DEF P

LEMMA FamilyTypes ==
  ASSUME NEW p \in Seq(Block)
  PROVE  /\ Used(p) \in Seq(Seq(UsedLine)) /\ Len(Used(p)) = Len(p)
         /\ Asked(p) \in Seq(Seq(Int)) /\ Len(Asked(p)) = Len(p)
         /\ Looped(p) \in Seq(Seq(Int)) /\ Len(Looped(p)) = Len(p)
         /\ Written(p) \in Seq(Seq(FileLine)) /\ Len(Written(p)) = Len(p)
<1> DEFINE n == Len(p)
           TU == Seq(UsedLine)
           TI == Seq(Int)
           TF == Seq(FileLine)
<1>1. n \in Nat /\ DOMAIN p = 1 .. n /\ \A i \in 1 .. n : p[i] \in Block
  BY ProgramFacts
<1>2. \A i \in 1 .. n : BlockUsed(p[i]) \in TU
  BY <1>1, BlockUsedLines
<1>3. \A i \in 1 .. n : (IF i \in Reached(p) THEN BlockMeaning(p[i]) ELSE <<>>) \in TI
  <2> SUFFICES ASSUME NEW i \in 1 .. n, i \in Reached(p) PROVE BlockMeaning(p[i]) \in TI
    BY EmptySeq
  <2>1. p[i].body \in Seq(Int) /\ p[i].times \in Int /\ p[i].loop \in BOOLEAN
    BY <1>1, BlockFields
  <2>2. CASE ~ p[i].loop
    BY <2>1, <2>2 DEF BlockMeaning
  <2>3. CASE p[i].loop
    <3>1. p[i].times \in Nat
      <4>1. i \in 1 .. i
        BY <1>1
      <4>2. p[i].times > 0
        BY <2>3, <4>1 DEF Reached
      <4> QED
        BY <2>1, <4>2
    <3> QED
      BY <2>1, <2>3, <3>1, RepeatStep DEF BlockMeaning
  <2> QED
    BY <2>1, <2>2, <2>3
<1>4. \A i \in 1 .. n : BlockRounds(p, i) \in TI
  <2> SUFFICES ASSUME NEW i \in 1 .. n PROVE BlockRounds(p, i) \in TI
    OBVIOUS
  <2>1. CASE i \in Reached(p) /\ p[i].loop
    <3>1. i \in 1 .. i /\ p[i].times \in Int
      BY <1>1, BlockFields
    <3>2. p[i].times \in Nat
      BY <2>1, <3>1 DEF Reached
    <3>3. i \in Int /\ \A r \in 1 .. p[i].times : i \in Int
      BY <1>1
    <3>4. [r \in 1 .. p[i].times |-> i] \in Seq(Int)
      BY <3>2, <3>3
    <3> QED
      BY <3>4, EmptySeq DEF BlockRounds
  <2> QED
    BY <2>1, EmptySeq DEF BlockRounds
<1>5. \A i \in 1 .. n : BlockLines(p[i]) \in TF
  BY <1>1, BlockLinesType
<1> HIDE DEF TU, TI, TF
<1>6. Used(p) \in Seq(TU) /\ Len(Used(p)) = n
  <2>1. Used(p) = [i \in 1 .. n |-> BlockUsed(p[i])]
    BY <1>1 DEF Used
  <2> HIDE DEF n
  <2> QED
    BY <1>1, <1>2, <2>1
<1>7. Asked(p) \in Seq(TI) /\ Len(Asked(p)) = n
  <2>1. Asked(p) = [i \in 1 .. n |-> IF i \in Reached(p) THEN BlockMeaning(p[i]) ELSE <<>>]
    BY <1>1 DEF Asked
  <2> HIDE DEF n
  <2> QED
    BY <1>1, <1>3, <2>1
<1>8. Looped(p) \in Seq(TI) /\ Len(Looped(p)) = n
  <2>1. Looped(p) = [i \in 1 .. n |-> BlockRounds(p, i)]
    BY <1>1 DEF Looped
  <2> HIDE DEF n
  <2> QED
    BY <1>1, <1>4, <2>1
<1>9. Written(p) \in Seq(TF) /\ Len(Written(p)) = n
  <2>1. Written(p) = [i \in 1 .. n |-> BlockLines(p[i])]
    BY <1>1 DEF Written
  <2> HIDE DEF n
  <2> QED
    BY <1>1, <1>5, <2>1
<1> QED
  BY <1>6, <1>7, <1>8, <1>9 DEF TU, TI, TF

(* What the engine works on is the blocks' useful lines, one after the     *)
(* other.                                                                  *)
LEMMA CopiedIsUsed ==
  ASSUME NEW p \in Seq(Block), AllMarked(p)
  PROVE  useful(Render(p)) = FlattenSeq(Used(p))
<1> DEFINE n == Len(p)
           W == Written(p)
           U == Used(p)
           P == {d \in Nat : d <= n => useful(FlattenTo(W, d)) = FlattenTo(U, d)}
<1>1. n \in Nat /\ DOMAIN p = 1 .. n /\ \A i \in 1 .. n : p[i] \in Block /\ Marked(p[i])
  BY ProgramFacts DEF AllMarked
<1>2. W \in Seq(Seq(FileLine)) /\ Len(W) = n /\ U \in Seq(Seq(UsedLine)) /\ Len(U) = n
  BY FamilyTypes
<1>3. \A i \in 1 .. n : W[i] = BlockLines(p[i]) /\ U[i] = BlockUsed(p[i])
  BY <1>1 DEF Written, Used
<1>4. Render(p) = FlattenSeq(W)
  BY DEF Render, Written
<1> HIDE DEF n, W, U
<1>5. 0 \in P
  BY <1>2, UsefulSkip, FlattenToStep
<1>6. ASSUME NEW d \in Nat, d \in P PROVE d + 1 \in P
  <2> SUFFICES ASSUME d + 1 <= n PROVE useful(FlattenTo(W, d + 1)) = FlattenTo(U, d + 1)
    OBVIOUS
  <2>1. d \in 0 .. n - 1 /\ d \in 0 .. n /\ d + 1 \in 1 .. n /\ d <= n
    BY <1>1
  <2>2. FlattenTo(W, d) \in Seq(FileLine) /\ FlattenTo(W, d + 1) = FlattenTo(W, d) \o W[d + 1]
    BY <1>2, <2>1, FlattenToStep
  <2>3. FlattenTo(U, d + 1) = FlattenTo(U, d) \o U[d + 1]
    BY <1>2, <2>1, FlattenToStep
  <2>4. W[d + 1] \in Seq(FileLine) /\ useful(W[d + 1]) = U[d + 1]
    BY <1>1, <1>3, <2>1, UsefulBlock
  <2>5. useful(FlattenTo(W, d) \o W[d + 1]) = useful(FlattenTo(W, d)) \o useful(W[d + 1])
    BY <2>2, <2>4, UsefulConcat
  <2>6. useful(FlattenTo(W, d)) = FlattenTo(U, d)
    BY <1>6, <2>1
  <2> QED
    BY <2>2, <2>3, <2>4, <2>5, <2>6
<1> HIDE DEF P
<1>7. \A d \in Nat : d \in P
  BY <1>5, <1>6, Induction
<1>8. useful(FlattenTo(W, n)) = FlattenTo(U, n)
  <2>1. n \in P /\ n <= n
    BY <1>1, <1>7
  <2> QED
    BY <2>1 DEF P
<1>9. FlattenTo(W, n) = FlattenSeq(W) /\ FlattenTo(U, n) = FlattenSeq(U)
  BY <1>2, FlattenToStep
<1> QED
  BY <1>4, <1>8, <1>9 DEF U

-----------------------------------------------------------------------------
(* In front of the i-th block: the lines before it, what has been executed *)
(* and how many rounds, if all loops before it have any.                   *)
Base(p, i)    == Len(FlattenTo(Used(p), i - 1))
Done(p, i)    == FlattenTo(Asked(p), i - 1)
Counted(p, i) == Len(FlattenTo(Looped(p), i - 1))

Passed(p, i) == \A j \in 1 .. i - 1 : p[j].loop => p[j].times > 0

LEMMA Before ==
  ASSUME NEW p \in Seq(Block), NEW i \in 1 .. Len(p) + 1
  PROVE  /\ Base(p, i) \in Nat /\ Base(p, 1) = 0 /\ Base(p, Len(p) + 1) = Len(FlattenSeq(Used(p)))
         /\ Done(p, i) \in Seq(Int) /\ Done(p, 1) = <<>> /\ Done(p, Len(p) + 1) = Meaning(p)
         /\ Counted(p, i) \in Nat /\ Counted(p, 1) = 0 /\ Counted(p, Len(p) + 1) = Rounds(p)
         /\ IsPrefix(Done(p, i), Meaning(p)) /\ Meaning(p) \in Seq(Int)
<1>1. /\ Len(p) \in Nat /\ i - 1 \in 0 .. Len(p) /\ 1 - 1 = 0 /\ (Len(p) + 1) - 1 = Len(p)
      /\ Len(p) \in i - 1 .. Len(p) /\ Len(p) \in 0 .. Len(p) /\ DOMAIN p = 1 .. Len(p)
  BY ProgramFacts
<1>2. /\ Used(p) \in Seq(Seq(UsedLine)) /\ Len(Used(p)) = Len(p)
      /\ Asked(p) \in Seq(Seq(Int)) /\ Len(Asked(p)) = Len(p)
      /\ Looped(p) \in Seq(Seq(Int)) /\ Len(Looped(p)) = Len(p)
  BY FamilyTypes
<1>3. Meaning(p) = FlattenSeq(Asked(p)) /\ Rounds(p) = Len(FlattenSeq(Looped(p)))
  BY DEF Meaning, Asked, Rounds, Looped
<1>4. Len(<<>>) = 0
  BY EmptySeq
<1>5. Base(p, i) \in Nat /\ Base(p, 1) = 0 /\ Base(p, Len(p) + 1) = Len(FlattenSeq(Used(p)))
  BY <1>1, <1>2, <1>4, FlattenToStep, LenProperties DEF Base
<1>6. Done(p, i) \in Seq(Int) /\ Done(p, 1) = <<>> /\ Done(p, Len(p) + 1) = Meaning(p)
  BY <1>1, <1>2, <1>3, FlattenToStep DEF Done
<1>7. Counted(p, i) \in Nat /\ Counted(p, 1) = 0 /\ Counted(p, Len(p) + 1) = Rounds(p)
  BY <1>1, <1>2, <1>3, <1>4, FlattenToStep, LenProperties DEF Counted
<1>8. IsPrefix(Done(p, i), Meaning(p)) /\ Meaning(p) \in Seq(Int)
  <2>1. IsPrefix(FlattenTo(Asked(p), i - 1), FlattenTo(Asked(p), Len(p)))
    BY <1>1, <1>2, FlattenToPrefix
  <2>2. FlattenTo(Asked(p), Len(p)) = FlattenSeq(Asked(p)) /\ FlattenSeq(Asked(p)) \in Seq(Int)
    BY <1>1, <1>2, FlattenToStep
  <2> QED
    BY <1>3, <2>1, <2>2 DEF Done
<1> QED
  BY <1>5, <1>6, <1>7, <1>8

LEMMA Across ==
  ASSUME NEW p \in Seq(Block), NEW i \in 1 .. Len(p)
  PROVE  /\ Base(p, i + 1) = Base(p, i) + Len(BlockUsed(p[i]))
         /\ Base(p, i) + Len(BlockUsed(p[i])) <= Len(FlattenSeq(Used(p)))
         /\ \A k \in 1 .. Len(BlockUsed(p[i])) :
              FlattenSeq(Used(p))[Base(p, i) + k] = BlockUsed(p[i])[k]
         /\ Done(p, i + 1) = Done(p, i) \o Asked(p)[i]
         /\ Counted(p, i + 1) = Counted(p, i) + Len(BlockRounds(p, i))
<1>1. /\ Len(p) \in Nat /\ i - 1 \in 0 .. Len(p) - 1 /\ (i + 1) - 1 = i /\ (i - 1) + 1 = i
      /\ DOMAIN p = 1 .. Len(p) /\ i \in DOMAIN p
  BY ProgramFacts
<1>2. /\ Used(p) \in Seq(Seq(UsedLine)) /\ Len(Used(p)) = Len(p)
      /\ Asked(p) \in Seq(Seq(Int)) /\ Len(Asked(p)) = Len(p)
      /\ Looped(p) \in Seq(Seq(Int)) /\ Len(Looped(p)) = Len(p)
  BY FamilyTypes
<1>3. Used(p)[i] = BlockUsed(p[i]) /\ Looped(p)[i] = BlockRounds(p, i)
  BY <1>1 DEF Used, Looped
<1>4. /\ Len(FlattenTo(Used(p), i)) = Len(FlattenTo(Used(p), i - 1)) + Len(Used(p)[i])
      /\ Len(FlattenTo(Used(p), i - 1)) + Len(Used(p)[i]) <= Len(FlattenSeq(Used(p)))
      /\ \A k \in 1 .. Len(Used(p)[i]) :
           FlattenSeq(Used(p))[Len(FlattenTo(Used(p), i - 1)) + k] = Used(p)[i][k]
  <2> DEFINE F == Used(p)
  <2>1. F \in Seq(Seq(UsedLine)) /\ i \in 1 .. Len(F)
    BY <1>2
  <2> HIDE DEF F
  <2> DEFINE base == Len(FlattenTo(F, i - 1))
  <2>2. /\ Len(FlattenTo(F, i)) = base + Len(F[i])
        /\ base + Len(F[i]) <= Len(FlattenSeq(F))
        /\ \A k \in 1 .. Len(F[i]) : FlattenSeq(F)[base + k] = F[i][k]
    BY <2>1, FlattenAt
  <2> QED
    BY <2>2 DEF F
<1>5. Len(FlattenTo(Looped(p), i)) = Len(FlattenTo(Looped(p), i - 1)) + Len(Looped(p)[i])
  BY <1>1, <1>2, FlattenAt
<1>6. FlattenTo(Asked(p), (i - 1) + 1) = FlattenTo(Asked(p), i - 1) \o Asked(p)[(i - 1) + 1]
  BY <1>1, <1>2, FlattenToStep
<1> QED
  BY <1>1, <1>3, <1>4, <1>5, <1>6 DEF Base, Done, Counted

(* Blocks of commands and loops that have rounds are all reached. *)
LEMMA PassedMore ==
  ASSUME NEW p \in Seq(Block), NEW i \in 1 .. Len(p), Passed(p, i), p[i].loop => p[i].times > 0
  PROVE  i \in Reached(p) /\ Passed(p, i + 1) /\ Asked(p)[i] = BlockMeaning(p[i])
<1>1. DOMAIN p = 1 .. Len(p) /\ Len(p) \in Nat
  BY ProgramFacts
<1>2. \A j \in 1 .. i : j \in 1 .. i - 1 \/ j = i
  OBVIOUS
<1>3. (i + 1) - 1 = i
  OBVIOUS
<1>4. i \in Reached(p) /\ Passed(p, i + 1)
  BY <1>1, <1>2, <1>3 DEF Reached, Passed
<1> QED
  BY <1>1, <1>4 DEF Asked

(* A block that leaves no lines asks for nothing: the next one that does   *)
(* begins at the same place.                                               *)
SamePlace(p, i, m) ==
  /\ m \in i .. Len(p) + 1 /\ Passed(p, m)
  /\ Base(p, m) = Base(p, i) /\ Done(p, m) = Done(p, i) /\ Counted(p, m) = Counted(p, i)

LEMMA SkipEmptyBlocks ==
  ASSUME NEW p \in Seq(Block), NEW i \in 1 .. Len(p) + 1, Passed(p, i)
  PROVE  \E m : SamePlace(p, i, m) /\ (m = Len(p) + 1 \/ Len(BlockUsed(p[m])) > 0)
<1> DEFINE n == Len(p)
           Found(j) == \E m : SamePlace(p, j, m) /\ (m = n + 1 \/ Len(BlockUsed(p[m])) > 0)
           P == {d \in Nat : \A j \in 1 .. n + 1 : n + 1 - j = d /\ Passed(p, j) => Found(j)}
<1>1. n \in Nat /\ DOMAIN p = 1 .. n /\ \A j \in 1 .. n : p[j] \in Block
  BY ProgramFacts
<1>2. 0 \in P
  <2> SUFFICES ASSUME NEW j \in 1 .. n + 1, n + 1 - j = 0, Passed(p, j) PROVE Found(j)
    OBVIOUS
  <2>1. j = n + 1 /\ j \in j .. n + 1
    BY <1>1
  <2> QED
    BY <2>1 DEF SamePlace
<1>3. ASSUME NEW d \in Nat, d \in P PROVE d + 1 \in P
  <2> SUFFICES ASSUME NEW j \in 1 .. n + 1, n + 1 - j = d + 1, Passed(p, j) PROVE Found(j)
    OBVIOUS
  <2>1. j \in 1 .. n /\ j + 1 \in 1 .. n + 1 /\ n + 1 - (j + 1) = d /\ j \in j .. n + 1
    BY <1>1
  <2>2. p[j] \in Block /\ BlockUsed(p[j]) \in Seq(UsedLine) /\ Len(BlockUsed(p[j])) \in Nat
    BY <1>1, <2>1, BlockUsedLines, LenProperties
  <2>3. CASE Len(BlockUsed(p[j])) > 0
    BY <2>1, <2>3 DEF SamePlace
  <2>4. CASE Len(BlockUsed(p[j])) = 0
    <3>1. ~ p[j].loop /\ p[j].body \in Seq(Int) /\ Len(p[j].body) = 0
      BY <2>2, <2>4, BlockUsedLines, BlockFields
    <3>2. p[j].body = <<>>
      BY <3>1, EmptySeq
    <3>3. Passed(p, j + 1) /\ Asked(p)[j] = <<>>
      BY <2>1, <3>1, <3>2, PassedMore DEF BlockMeaning
    <3>4. BlockRounds(p, j) = <<>> /\ Len(<<>>) = 0
      BY <3>1, EmptySeq DEF BlockRounds
    <3>5. Base(p, j + 1) = Base(p, j) + 0 /\ Done(p, j + 1) = Done(p, j) \o <<>>
          /\ Counted(p, j + 1) = Counted(p, j) + 0
      BY <2>1, <2>4, <3>3, <3>4, Across
    <3>6. Base(p, j) \in Nat /\ Done(p, j) \in Seq(Int) /\ Counted(p, j) \in Nat
      BY <2>1, Before
    <3>7. Base(p, j + 1) = Base(p, j) /\ Done(p, j + 1) = Done(p, j) /\ Counted(p, j + 1) = Counted(p, j)
      BY <3>5, <3>6, ConcatEmptySeq
    <3>8. PICK m : SamePlace(p, j + 1, m) /\ (m = n + 1 \/ Len(BlockUsed(p[m])) > 0)
      BY <1>3, <2>1, <3>3
    <3>9. m \in j .. n + 1
      BY <2>1, <3>8 DEF SamePlace
    <3> QED
      BY <3>7, <3>8, <3>9 DEF SamePlace
  <2> QED
    BY <2>2, <2>3, <2>4
<1> HIDE DEF P
<1>4. \A d \in Nat : d \in P
  BY <1>2, <1>3, Induction
<1>5. n + 1 - i \in Nat
  BY <1>1
<1> QED
  BY <1>4, <1>5 DEF P

(* Nothing is asked for behind a loop without rounds. *)
LEMMA NothingBehind ==
  ASSUME NEW p \in Seq(Block), NEW i \in 1 .. Len(p), p[i].loop, ~ (p[i].times > 0)
  PROVE  Done(p, i) = Meaning(p) /\ Counted(p, i) = Rounds(p)
<1> DEFINE n == Len(p)
           P == {d \in Nat : i + d <= n + 1 =>
                               Done(p, i + d) = Done(p, i) /\ Counted(p, i + d) = Counted(p, i)}
<1>1. n \in Nat /\ DOMAIN p = 1 .. n
  BY ProgramFacts
<1>2. 0 \in P
  OBVIOUS
<1>3. ASSUME NEW d \in Nat, d \in P PROVE d + 1 \in P
  <2> SUFFICES ASSUME i + (d + 1) <= n + 1
               PROVE  Done(p, i + (d + 1)) = Done(p, i) /\ Counted(p, i + (d + 1)) = Counted(p, i)
    OBVIOUS
  <2> DEFINE j == i + d
  <2>1. j \in 1 .. n /\ j + 1 = i + (d + 1) /\ j \in 1 .. n + 1 /\ i \in 1 .. j /\ j <= n + 1
    BY <1>1
  <2> HIDE DEF j
  <2>2. j \notin Reached(p)
    BY <1>1, <2>1 DEF Reached
  <2>3. Asked(p)[j] = <<>> /\ BlockRounds(p, j) = <<>> /\ Len(<<>>) = 0
    BY <1>1, <2>1, <2>2, EmptySeq DEF Asked, BlockRounds
  <2>4. Done(p, j + 1) = Done(p, j) \o <<>> /\ Counted(p, j + 1) = Counted(p, j) + 0
    <3>1. /\ Done(p, j + 1) = Done(p, j) \o Asked(p)[j]
          /\ Counted(p, j + 1) = Counted(p, j) + Len(BlockRounds(p, j))
      BY <2>1, Across
    <3> QED
      BY <2>3, <3>1
  <2>5. Done(p, j) \in Seq(Int) /\ Counted(p, j) \in Nat
    BY <2>1, Before
  <2>6. Done(p, j + 1) = Done(p, j) /\ Counted(p, j + 1) = Counted(p, j)
    BY <2>4, <2>5, ConcatEmptySeq
  <2>7. Done(p, j) = Done(p, i) /\ Counted(p, j) = Counted(p, i)
    BY <1>3, <2>1 DEF j
  <2> QED
    BY <2>1, <2>6, <2>7
<1> HIDE DEF P
<1>4. \A d \in Nat : d \in P
  BY <1>2, <1>3, Induction
<1>5. n + 1 - i \in Nat /\ i + (n + 1 - i) = n + 1 /\ n + 1 <= n + 1 /\ n + 1 \in 1 .. n + 1
  BY <1>1
<1>6. Done(p, n + 1) = Done(p, i) /\ Counted(p, n + 1) = Counted(p, i)
  <2>1. n + 1 - i \in P
    BY <1>4, <1>5
  <2> QED
    BY <1>5, <2>1 DEF P
<1> QED
  BY <1>5, <1>6, Before


-----------------------------------------------------------------------------
(* Type correctness holds for any script, well-formed or not. *)
TypeInv ==
  /\ TypeOK /\ program \in Program
  /\ scriptCmd = <<>> \/ scriptCmd = copied
  /\ pc \in {"line", "scan", "round", "body"} => scriptCmd = copied

LEMMA CopiedType ==
  ASSUME program \in Program
  PROVE  program \in Seq(Block) /\ copied \in Seq(UsedLine) /\ Len(copied) \in Nat
<1>1. program \in Seq(Block)
  BY ScriptAssumption
<1>2. Written(program) \in Seq(Seq(FileLine))
  BY <1>1, FamilyTypes
<1>3. Render(program) = FlattenSeq(Written(program))
  BY DEF Render, Written
<1>4. Render(program) \in Seq(FileLine)
  BY <1>2, <1>3, FlattenType
<1>5. copied \in Seq(UsedLine)
  BY <1>4, KeptType DEF copied
<1> QED
  BY <1>1, <1>5, LenProperties

LEMMA LineAtType ==
  ASSUME TypeOK, NEW i \in Int
  PROVE  /\ lineAt(i).arg \in Int
         /\ i \in 0 .. Len(scriptCmd) - 1 => lineAt(i) \in UsedLine
<1>1. scriptCmd \in Seq(UsedLine)
  BY DEF TypeOK, UsedLine, Op
<1>2. CASE i \in 0 .. Len(scriptCmd) - 1
  <2>1. Len(scriptCmd) \in Nat /\ i + 1 \in 1 .. Len(scriptCmd)
    BY <1>1, <1>2, LenProperties
  <2>2. scriptCmd[i + 1] \in UsedLine
    BY <1>1, <2>1, ElementOfSeq
  <2> QED
    BY <1>2, <2>2 DEF lineAt, UsedLine
<1>3. CASE i \notin 0 .. Len(scriptCmd) - 1
  <2>1. lineAt(i) = [op |-> "", arg |-> 0]
    BY <1>3 DEF lineAt, NoLine, Line
  <2>2. lineAt(i).arg = 0
    <3>1. [op |-> "", arg |-> 0].arg = 0
      OBVIOUS
    <3> QED
      BY <2>1, <3>1, Zenon
  <2> QED
    BY <1>3, <2>2
<1> QED
  BY <1>2, <1>3

LEMMA CmdProcType ==
  ASSUME TypeOK, NEW i \in Int, cmd_proc(lineAt(i))
  PROVE  executed' \in Seq(Int)
<1>1. executed \in Seq(Int) /\ lineAt(i).arg \in Int
  BY LineAtType DEF TypeOK
<1>2. Append(executed, lineAt(i).arg) \in Seq(Int)
  BY <1>1
<1> QED
  BY <1>1, <1>2 DEF cmd_proc

LEMMA TypeInvInit == Init => TypeInv
<1> SUFFICES ASSUME Init PROVE TypeInv
  OBVIOUS
<1>1. <<>> \in Seq([op : {"cmd", "loop", "start", "end"}, arg : Int]) /\ <<>> \in Seq(Int) /\ Len(<<>>) = 0
  BY EmptySeq
<1> QED
  BY <1>1, ScriptAssumption DEF Init, TypeInv, TypeOK

LEMMA TypeInvStep == TypeInv /\ [Next]_vars => TypeInv'
<1> SUFFICES ASSUME TypeInv, [Next]_vars PROVE TypeInv'
  OBVIOUS
<1>1. /\ index \in Int /\ loopTime \in Int /\ loopStart \in Int /\ loopEnd \in Int /\ count \in Nat
      /\ index + 1 \in Int /\ index + 2 \in Int /\ count + 1 \in Nat /\ loopTime - 1 \in Int
      /\ index - 1 \in Int /\ loopEnd + 2 \in Int
  BY DEF TypeInv, TypeOK
<1>2. program' = program
  BY DEF Next, Engine, vars, locals, crash, OpenFails, Open, OpenOverruns, EndOfScript, RunLine,
         EnterLoop, Scan, ScanOverruns, Round, Body, BodyOverruns, Stopped
<1>3. copied' = copied
  BY <1>2 DEF copied
<1>4. CASE UNCHANGED <<scriptCmd, locals, count, executed>> /\ pc' \in {"done", "stopped", "crashed"}
  BY <1>2, <1>3, <1>4 DEF TypeInv, TypeOK, locals
<1>5. CASE OpenFails
  BY <1>2, <1>3, <1>5 DEF OpenFails, TypeInv, TypeOK, locals
<1>6. CASE Open
  <2>1. copied \in Seq([op : {"cmd", "loop", "start", "end"}, arg : Int])
    BY CopiedType DEF TypeInv, UsedLine, Op
  <2>2. copied' = copied /\ scriptCmd' = copied
    BY <1>3, <1>6 DEF Open
  <2> HIDE DEF copied
  <2> QED
    BY <1>2, <1>6, <2>1, <2>2 DEF Open, TypeInv, TypeOK, locals
<1>7. CASE RunLine
  <2>1. executed' \in Seq(Int)
    BY <1>1, <1>7, CmdProcType DEF RunLine, TypeInv
  <2> QED
    BY <1>1, <1>2, <1>3, <1>7, <2>1 DEF RunLine, TypeInv, TypeOK
<1>8. CASE EnterLoop
  <2>1. loopTime' \in Int
    BY <1>1, <1>8, LineAtType DEF EnterLoop, TypeInv
  <2> QED
    BY <1>1, <1>2, <1>3, <1>8, <2>1 DEF EnterLoop, TypeInv, TypeOK
<1>9. CASE Scan
  BY <1>1, <1>2, <1>3, <1>9 DEF Scan, TypeInv, TypeOK
<1>10. CASE Round
  BY <1>1, <1>2, <1>3, <1>10 DEF Round, TypeInv, TypeOK
<1>11. CASE Body
  <2>1. executed' \in Seq(Int)
    BY <1>1, <1>11, CmdProcType DEF Body, TypeInv
  <2> QED
    BY <1>1, <1>2, <1>3, <1>11, <2>1 DEF Body, TypeInv, TypeOK
<1>12. CASE UNCHANGED vars
  BY <1>2, <1>3, <1>12 DEF vars, locals, TypeInv, TypeOK
<1> QED
  BY <1>4, <1>5, <1>6, <1>7, <1>8, <1>9, <1>10, <1>11, <1>12
     DEF Next, Engine, OpenOverruns, EndOfScript, ScanOverruns, BodyOverruns, Stopped, crash

(* The engine's variables keep their types and the lines fit into the      *)
(* array, whatever the script looks like.                                  *)
THEOREM ScriptEngineTypeCorrect == Spec => []TypeOK
<1>1. TypeInv => TypeOK
  BY DEF TypeInv
<1> QED
  BY <1>1, TypeInvInit, TypeInvStep, PTL DEF Spec


-----------------------------------------------------------------------------
(* What a part of a block has executed: k commands of a plain block, r     *)
(* rounds of a loop and k commands of the next.                            *)
PlainDone(p, i, k)   == Done(p, i) \o SubSeq(p[i].body, 1, k)
LoopDone(p, i, r, k) == Done(p, i) \o (Repeat(p[i].body, r) \o SubSeq(p[i].body, 1, k))

(* Where the engine is in its script: in front of block i, or past k       *)
(* commands of it if it is a plain block ...                               *)
AtBlock(i) ==
  /\ Passed(program, i)
  /\ index = Base(program, i)
  /\ executed = Done(program, i) /\ count = Counted(program, i)

InPlain(i, k) ==
  /\ Passed(program, i) /\ ~ program[i].loop /\ k < Len(program[i].body)
  /\ index = Base(program, i) + k
  /\ executed = PlainDone(program, i, k) /\ count = Counted(program, i)

(* ... looking for the end of loop i, with the start behind it or not, ... *)
InScan(i) ==
  /\ Passed(program, i) /\ program[i].loop /\ program[i].times > 0
  /\ index \in Base(program, i) + 1 .. Base(program, i) + 2 + Len(program[i].body)
  /\ index > Base(program, i) + 1 => loopStart = Base(program, i) + 2
  /\ loopTime = program[i].times
  /\ executed = Done(program, i) /\ count = Counted(program, i)

(* ... or past r rounds of it and k commands of the next.                  *)
InLoop(i, r, k) ==
  /\ Passed(program, i) /\ program[i].loop /\ program[i].times > 0
  /\ loopStart = Base(program, i) + 2
  /\ loopEnd = Base(program, i) + 1 + Len(program[i].body)
  /\ loopTime = program[i].times - r
  /\ executed = LoopDone(program, i, r, k) /\ count = Counted(program, i) + r

AtLine ==
  \/ \E i \in 1 .. Len(program) + 1 : AtBlock(i)
  \/ \E i \in DOMAIN program : \E k \in 0 .. Len(program[i].body) : InPlain(i, k)

AtScan == \E i \in DOMAIN program : InScan(i)

AtRound ==
  \E i \in DOMAIN program : \E r \in 0 .. program[i].times :
    InLoop(i, r, 0) /\ (program[i].body = <<>> => r = 0)

AtBody ==
  \E i \in DOMAIN program : \E r \in 0 .. program[i].times - 1 :
    \E k \in 0 .. Len(program[i].body) - 1 : InLoop(i, r, k) /\ index = loopStart + k

Places ==
  /\ pc # "crashed"
  /\ IsPrefix(executed, Meaning(program))
  /\ pc = "open"  => scriptCmd = <<>> /\ executed = <<>> /\ index = 0
  /\ pc = "line"  => AtLine
  /\ pc = "scan"  => AtScan
  /\ pc = "round" => AtRound
  /\ pc = "body"  => AtBody
  /\ pc = "done" /\ scriptCmd # <<>> => executed = Meaning(program) /\ count = Rounds(program)

ScriptInv == TypeInv /\ (WellFormed => Places)


-----------------------------------------------------------------------------
LEMMA SubSeqStep ==
  ASSUME NEW s \in Seq(Int)
  PROVE  /\ Len(s) \in Nat /\ SubSeq(s, 1, 0) = <<>> /\ SubSeq(s, 1, Len(s)) = s
         /\ \A k \in 0 .. Len(s) : SubSeq(s, 1, k) \in Seq(Int) /\ IsPrefix(SubSeq(s, 1, k), s)
         /\ \A k \in 0 .. Len(s) - 1 :
              s[k + 1] \in Int /\ Append(SubSeq(s, 1, k), s[k + 1]) = SubSeq(s, 1, k + 1)
<1>1. Len(s) \in Nat /\ \A k \in 1 .. Len(s) : s[k] \in Int
  BY LenProperties, ElementOfSeq
<1>2. ASSUME NEW k \in 0 .. Len(s)
      PROVE  /\ SubSeq(s, 1, k) \in Seq(Int) /\ Len(SubSeq(s, 1, k)) = k
             /\ \A j \in 1 .. k : SubSeq(s, 1, k)[j] = s[j]
  <2>1. 1 .. k \subseteq 1 .. Len(s) /\ k \in Int /\ 1 \in Int
    BY <1>1
  <2>2. \A j \in 1 .. k : s[j] \in Int
    BY <1>1, <2>1
  <2>3. /\ SubSeq(s, 1, k) \in Seq(Int)
        /\ Len(SubSeq(s, 1, k)) = IF 1 <= k THEN k - 1 + 1 ELSE 0
        /\ \A j \in 1 .. k - 1 + 1 : SubSeq(s, 1, k)[j] = s[1 + j - 1]
    BY <2>1, <2>2, SubSeqProperties
  <2> QED
    BY <1>1, <2>3
<1>3. SubSeq(s, 1, 0) = <<>>
  <2>1. SubSeq(s, 1, 0) \in Seq(Int) /\ Len(SubSeq(s, 1, 0)) = 0
    BY <1>1, <1>2
  <2> QED
    BY <2>1, EmptySeq
<1>4. SubSeq(s, 1, Len(s)) = s
  <2> DEFINE u == SubSeq(s, 1, Len(s))
  <2>1. u \in Seq(Int) /\ Len(u) = Len(s) /\ \A j \in 1 .. Len(s) : u[j] = s[j]
    BY <1>1, <1>2
  <2> HIDE DEF u
  <2>2. u = s
    BY <2>1, SeqEqual
  <2> QED
    BY <2>2 DEF u
<1>5. ASSUME NEW k \in 0 .. Len(s) PROVE IsPrefix(SubSeq(s, 1, k), s)
  <2> DEFINE u == SubSeq(s, 1, k)
  <2>1. u \in Seq(Int) /\ Len(u) = k /\ \A j \in 1 .. k : u[j] = s[j]
    BY <1>2
  <2> HIDE DEF u
  <2>2. Len(u) <= Len(s) /\ \A j \in 1 .. Len(u) : u[j] = s[j]
    BY <1>1, <2>1
  <2>3. IsPrefix(u, s)
    BY <2>1, <2>2, PrefixByElement
  <2> QED
    BY <2>3 DEF u
<1>6. ASSUME NEW k \in 0 .. Len(s) - 1
      PROVE  s[k + 1] \in Int /\ Append(SubSeq(s, 1, k), s[k + 1]) = SubSeq(s, 1, k + 1)
  <2> DEFINE u == SubSeq(s, 1, k)
             v == SubSeq(s, 1, k + 1)
             x == s[k + 1]
             a == Append(u, x)
  <2>1. k \in 0 .. Len(s) /\ k + 1 \in 0 .. Len(s) /\ k + 1 \in 1 .. Len(s) /\ k \in Nat
    BY <1>1
  <2>2. /\ u \in Seq(Int) /\ Len(u) = k /\ v \in Seq(Int) /\ Len(v) = k + 1 /\ x \in Int
        /\ \A j \in 1 .. k : u[j] = s[j]
        /\ \A j \in 1 .. k + 1 : v[j] = s[j]
    BY <1>1, <1>2, <2>1
  <2>3. v[k + 1] = x
    BY <2>1, <2>2
  <2> HIDE DEF u, v, x
  <2>4. /\ a \in Seq(Int) /\ Len(a) = k + 1 /\ a[k + 1] = x
        /\ \A j \in 1 .. k : a[j] = u[j]
    BY <2>1, <2>2
  <2>5. ASSUME NEW j \in 1 .. k + 1 PROVE a[j] = v[j]
    <3>1. j \in 1 .. k \/ j = k + 1
      BY <2>1
    <3> QED
      BY <2>2, <2>3, <2>4, <3>1
  <2> HIDE DEF a
  <2>6. a = v
    BY <2>2, <2>4, <2>5, SeqEqual
  <2> QED
    BY <2>2, <2>6 DEF a, u, v, x
<1> QED
  BY <1>1, <1>2, <1>3, <1>4, <1>5, <1>6

LEMMA AppendConcat ==
  ASSUME NEW s \in Seq(Int), NEW t \in Seq(Int), NEW x \in Int
  PROVE  Append(s \o t, x) = s \o Append(t, x)
<1>1. s \o t \in Seq(Int) /\ Append(t, x) \in Seq(Int) /\ <<x>> \in Seq(Int)
  BY ConcatProperties
<1>2. Append(s \o t, x) = (s \o t) \o <<x>> /\ Append(t, x) = t \o <<x>>
  BY <1>1, AppendIsConcat
<1>3. (s \o t) \o <<x>> = s \o (t \o <<x>>)
  BY <1>1, ConcatAssociative
<1> QED
  BY <1>2, <1>3

(* The parts of a plain block. *)
LEMMA PlainPart ==
  ASSUME NEW p \in Seq(Block), NEW i \in 1 .. Len(p), Passed(p, i), ~ p[i].loop
  PROVE  /\ PlainDone(p, i, 0) = Done(p, i)
         /\ PlainDone(p, i, Len(p[i].body)) = Done(p, i + 1)
         /\ \A k \in 0 .. Len(p[i].body) : IsPrefix(PlainDone(p, i, k), Meaning(p))
         /\ \A k \in 0 .. Len(p[i].body) - 1 :
              Append(PlainDone(p, i, k), p[i].body[k + 1]) = PlainDone(p, i, k + 1)
         /\ Counted(p, i + 1) = Counted(p, i)
         /\ Base(p, i + 1) = Base(p, i) + Len(p[i].body)
         /\ Passed(p, i + 1)
<1> DEFINE d == Done(p, i)
           s == p[i].body
           M == Meaning(p)
<1>1. Len(p) \in Nat /\ p[i] \in Block /\ i \in 1 .. Len(p) + 1 /\ i + 1 \in 1 .. Len(p) + 1
  BY ProgramFacts
<1>2. s \in Seq(Int) /\ d \in Seq(Int) /\ M \in Seq(Int) /\ Counted(p, i) \in Nat
  BY <1>1, BlockFields, Before
<1>3. Passed(p, i + 1) /\ Asked(p)[i] = s
  BY PassedMore DEF BlockMeaning
<1>4. Done(p, i + 1) = d \o s
  BY <1>3, Across
<1>5. Counted(p, i + 1) = Counted(p, i)
  <2>1. BlockRounds(p, i) = <<>> /\ Len(<<>>) = 0
    BY EmptySeq DEF BlockRounds
  <2>2. Counted(p, i + 1) = Counted(p, i) + Len(BlockRounds(p, i))
    BY Across
  <2> QED
    BY <1>2, <2>1, <2>2
<1>6. Base(p, i + 1) = Base(p, i) + Len(s)
  <2>1. Len(BlockUsed(p[i])) = Len(s)
    BY <1>1, BlockUsedLines
  <2> QED
    BY <2>1, Across
<1>7. IsPrefix(Done(p, i + 1), M)
  BY <1>1, Before
<1> HIDE DEF d, s, M
<1>8. d \o <<>> = d
  BY <1>2, ConcatEmptySeq
<1>9. ASSUME NEW k \in 0 .. Len(s) PROVE IsPrefix(d \o SubSeq(s, 1, k), M)
  <2>1. SubSeq(s, 1, k) \in Seq(Int) /\ IsPrefix(SubSeq(s, 1, k), s)
    BY <1>2, SubSeqStep
  <2>2. IsPrefix(d \o SubSeq(s, 1, k), d \o s)
    BY <1>2, <2>1, PrefixOfConcat
  <2>3. d \o SubSeq(s, 1, k) \in Seq(Int) /\ d \o s \in Seq(Int)
    BY <1>2, <2>1, ConcatProperties
  <2> QED
    BY <1>2, <1>4, <1>7, <2>2, <2>3, PrefixTransitive
<1>10. ASSUME NEW k \in 0 .. Len(s) - 1
       PROVE  Append(d \o SubSeq(s, 1, k), s[k + 1]) = d \o SubSeq(s, 1, k + 1)
  <2>1. Len(s) \in Nat
    BY <1>2, SubSeqStep
  <2>2. k \in 0 .. Len(s)
    BY <2>1
  <2>3. SubSeq(s, 1, k) \in Seq(Int) /\ s[k + 1] \in Int
        /\ Append(SubSeq(s, 1, k), s[k + 1]) = SubSeq(s, 1, k + 1)
    BY <1>2, <2>2, SubSeqStep
  <2> DEFINE u == SubSeq(s, 1, k)
             x == s[k + 1]
  <2> HIDE DEF u, x
  <2>4. d \in Seq(Int) /\ u \in Seq(Int) /\ x \in Int
    BY <1>2, <2>3 DEF u, x
  <2>5. Append(d \o u, x) = d \o Append(u, x)
    BY <2>4, AppendConcat
  <2> QED
    BY <2>3, <2>5 DEF u, x
<1>11. SubSeq(s, 1, 0) = <<>> /\ SubSeq(s, 1, Len(s)) = s
  BY <1>2, SubSeqStep
<1> QED
  BY <1>3, <1>4, <1>5, <1>6, <1>8, <1>9, <1>10, <1>11 DEF PlainDone, d, s, M

(* The parts of a loop. *)
LEMMA LoopPart ==
  ASSUME NEW p \in Seq(Block), NEW i \in 1 .. Len(p), Passed(p, i), p[i].loop, p[i].times > 0
  PROVE  /\ LoopDone(p, i, 0, 0) = Done(p, i)
         /\ LoopDone(p, i, p[i].times, 0) = Done(p, i + 1)
         /\ p[i].body = <<>> => Done(p, i + 1) = Done(p, i) /\ Counted(p, i + 1) = Counted(p, i)
         /\ p[i].body # <<>> => Counted(p, i + 1) = Counted(p, i) + p[i].times
         /\ \A r \in 0 .. p[i].times : IsPrefix(LoopDone(p, i, r, 0), Meaning(p))
         /\ \A r \in 0 .. p[i].times - 1 :
              /\ LoopDone(p, i, r, Len(p[i].body)) = LoopDone(p, i, r + 1, 0)
              /\ \A k \in 0 .. Len(p[i].body) : IsPrefix(LoopDone(p, i, r, k), Meaning(p))
              /\ \A k \in 0 .. Len(p[i].body) - 1 :
                   Append(LoopDone(p, i, r, k), p[i].body[k + 1]) = LoopDone(p, i, r, k + 1)
         /\ Base(p, i + 1) = Base(p, i) + 3 + Len(p[i].body)
         /\ Passed(p, i + 1)
<1> DEFINE d == Done(p, i)
           s == p[i].body
           M == Meaning(p)
           n == p[i].times
<1>1. Len(p) \in Nat /\ p[i] \in Block /\ i \in 1 .. Len(p) + 1 /\ i + 1 \in 1 .. Len(p) + 1
  BY ProgramFacts
<1>2. /\ s \in Seq(Int) /\ d \in Seq(Int) /\ M \in Seq(Int) /\ n \in Nat
      /\ Counted(p, i) \in Nat /\ Base(p, i) \in Nat /\ Len(s) \in Nat
  BY <1>1, BlockFields, Before
<1>3. Passed(p, i + 1) /\ Asked(p)[i] = Repeat(s, n) /\ i \in Reached(p)
  BY PassedMore DEF BlockMeaning
<1>4. Done(p, i + 1) = d \o Repeat(s, n)
  <2>1. Done(p, i + 1) = d \o Asked(p)[i]
    BY Across
  <2> QED
    BY <1>3, <2>1
<1>5. Counted(p, i + 1) = Counted(p, i) + IF s = <<>> THEN 0 ELSE n
  <2>1. Counted(p, i + 1) = Counted(p, i) + Len(BlockRounds(p, i))
    BY Across
  <2>2. CASE s = <<>>
    <3>1. BlockRounds(p, i) = <<>> /\ Len(<<>>) = 0
      BY <2>2, EmptySeq DEF BlockRounds
    <3> QED
      BY <2>1, <2>2, <3>1
  <2>3. CASE s # <<>>
    <3>1. BlockRounds(p, i) = [r \in 1 .. n |-> i]
      BY <1>3, <2>3 DEF BlockRounds
    <3>2. Len([r \in 1 .. n |-> i]) = n
      BY <1>2
    <3> QED
      BY <2>1, <2>3, <3>1, <3>2
  <2> QED
    BY <2>2, <2>3
<1>6. Base(p, i + 1) = Base(p, i) + 3 + Len(s)
  <2>1. Len(BlockUsed(p[i])) = Len(s) + 3
    BY <1>1, BlockUsedLines
  <2>2. Base(p, i + 1) = Base(p, i) + (Len(s) + 3)
    BY <2>1, Across
  <2> HIDE DEF s
  <2> QED
    BY <1>2, <2>2
<1>7. IsPrefix(Done(p, i + 1), M)
  BY <1>1, Before
<1> HIDE DEF d, s, M, n
<1>8. SubSeq(s, 1, 0) = <<>> /\ SubSeq(s, 1, Len(s)) = s /\ d \o <<>> = d /\ <<>> \in Seq(Int)
  BY <1>2, SubSeqStep, ConcatEmptySeq
<1>9. /\ Repeat(s, 0) = <<>>
      /\ \A r \in 0 .. n : Repeat(s, r) \in Seq(Int) /\ IsPrefix(Repeat(s, r), Repeat(s, n))
      /\ \A r \in 0 .. n - 1 : Repeat(s, r + 1) = Repeat(s, r) \o s
  <2>1. /\ Repeat(s, 0) = <<>>
        /\ \A r \in Nat : Repeat(s, r) \in Seq(Int) /\ Repeat(s, r + 1) = Repeat(s, r) \o s
        /\ \A m \in Nat : \A r \in 0 .. m : IsPrefix(Repeat(s, r), Repeat(s, m))
    BY <1>2, RepeatStep
  <2>2. (\A r \in 0 .. n : r \in Nat) /\ (\A r \in 0 .. n - 1 : r \in Nat)
    BY <1>2
  <2> QED
    BY <1>2, <2>1, <2>2
<1>10. /\ \A r \in 0 .. n : Repeat(s, r) \o <<>> = Repeat(s, r)
       /\ <<>> \o <<>> = <<>>
  BY <1>8, <1>9, ConcatEmptySeq
<1>11. ASSUME NEW r \in 0 .. n, NEW u \in Seq(Int), IsPrefix(u, Repeat(s, n))
       PROVE  IsPrefix(d \o u, M)
  <2> DEFINE v == Repeat(s, n)
  <2>1. v \in Seq(Int)
    BY <1>2, <1>9
  <2>2. IsPrefix(d \o u, d \o v)
    <3> HIDE DEF v
    <3>1. IsPrefix(u, v)
      BY <1>11 DEF v
    <3> QED
      BY <1>2, <2>1, <3>1, PrefixOfConcat
  <2>3. IsPrefix(d \o v, M)
    BY <1>4, <1>7
  <2> HIDE DEF v
  <2>4. d \o u \in Seq(Int) /\ d \o v \in Seq(Int)
    BY <1>2, <2>1, ConcatProperties
  <2> QED
    BY <1>2, <2>2, <2>3, <2>4, PrefixTransitive
<1>12. ASSUME NEW r \in 0 .. n PROVE IsPrefix(d \o (Repeat(s, r) \o <<>>), M)
  BY <1>9, <1>10, <1>11
<1>13. ASSUME NEW r \in 0 .. n - 1, NEW k \in 0 .. Len(s)
       PROVE  IsPrefix(d \o (Repeat(s, r) \o SubSeq(s, 1, k)), M)
  <2> DEFINE q == Repeat(s, r)
             u == SubSeq(s, 1, k)
  <2>1. r \in 0 .. n /\ r + 1 \in 0 .. n
    BY <1>2
  <2>2. q \in Seq(Int) /\ q \o s = Repeat(s, r + 1)
    BY <1>9, <2>1
  <2>3. u \in Seq(Int) /\ IsPrefix(u, s)
    BY <1>2, SubSeqStep
  <2>4. IsPrefix(Repeat(s, r + 1), Repeat(s, n)) /\ Repeat(s, r + 1) \in Seq(Int) /\ Repeat(s, n) \in Seq(Int)
    BY <1>2, <1>9, <2>1
  <2> HIDE DEF q, u
  <2>5. IsPrefix(q \o u, q \o s)
    BY <1>2, <2>2, <2>3, PrefixOfConcat
  <2>6. q \o u \in Seq(Int) /\ q \o s \in Seq(Int)
    BY <1>2, <2>2, <2>3, ConcatProperties
  <2>7. IsPrefix(q \o u, Repeat(s, n))
    <3> DEFINE a == Repeat(s, r + 1)
               b == Repeat(s, n)
    <3>1. a \in Seq(Int) /\ b \in Seq(Int) /\ IsPrefix(a, b) /\ q \o s = a
      BY <2>2, <2>4
    <3> HIDE DEF a, b
    <3>2. IsPrefix(q \o u, b)
      BY <2>5, <2>6, <3>1, PrefixTransitive
    <3> QED
      BY <3>2 DEF b
  <2>8. IsPrefix(d \o (q \o u), M)
    BY <1>11, <2>1, <2>6, <2>7
  <2> QED
    BY <2>8 DEF q, u
<1>14. ASSUME NEW r \in 0 .. n - 1, NEW k \in 0 .. Len(s) - 1
       PROVE  Append(d \o (Repeat(s, r) \o SubSeq(s, 1, k)), s[k + 1])
                = d \o (Repeat(s, r) \o SubSeq(s, 1, k + 1))
  <2> DEFINE q == Repeat(s, r)
             u == SubSeq(s, 1, k)
             x == s[k + 1]
  <2>1. r \in 0 .. n /\ k \in 0 .. Len(s)
    BY <1>2
  <2>2. q \in Seq(Int) /\ u \in Seq(Int) /\ x \in Int /\ Append(u, x) = SubSeq(s, 1, k + 1)
    BY <1>2, <1>9, <2>1, SubSeqStep
  <2> HIDE DEF q, u, x
  <2>3. q \o u \in Seq(Int)
    BY <2>2, ConcatProperties
  <2>4. Append(d \o (q \o u), x) = d \o Append(q \o u, x) /\ Append(q \o u, x) = q \o Append(u, x)
    BY <1>2, <2>2, <2>3, AppendConcat
  <2>5. Append(d \o (q \o u), x) = d \o (q \o SubSeq(s, 1, k + 1))
    BY <2>2, <2>4
  <2> QED
    BY <2>5 DEF q, u, x
<1>15. \A r \in 0 .. n - 1 : Repeat(s, r) \o s = Repeat(s, r + 1) \o <<>>
  <2>1. \A r \in 0 .. n - 1 : r + 1 \in 0 .. n
    BY <1>2
  <2> QED
    BY <1>9, <1>10, <2>1
<1>16. s = <<>> => d \o Repeat(s, n) = d
  BY <1>2, <1>8, RepeatNothing
<1>17. n \in 0 .. n /\ 0 \in 0 .. n
  BY <1>2
<1>18. /\ d \o (Repeat(s, 0) \o SubSeq(s, 1, 0)) = d
       /\ d \o (Repeat(s, n) \o SubSeq(s, 1, 0)) = d \o Repeat(s, n)
  BY <1>8, <1>9, <1>10, <1>17
<1>19. \A r \in 0 .. n - 1 :
         d \o (Repeat(s, r) \o SubSeq(s, 1, Len(s))) = d \o (Repeat(s, r + 1) \o SubSeq(s, 1, 0))
  BY <1>8, <1>15
<1>20. \A r \in 0 .. n : IsPrefix(d \o (Repeat(s, r) \o SubSeq(s, 1, 0)), M)
  BY <1>8, <1>12
<1>21. /\ s = <<>> => Done(p, i + 1) = d /\ Counted(p, i + 1) = Counted(p, i)
       /\ s # <<>> => Counted(p, i + 1) = Counted(p, i) + n
  <2>1. CASE s = <<>>
    <3>1. Counted(p, i + 1) = Counted(p, i) + 0 /\ Done(p, i + 1) = d
      BY <1>4, <1>5, <1>16, <2>1
    <3> QED
      BY <1>2, <2>1, <3>1
  <2>2. CASE s # <<>>
    BY <1>5, <2>2
  <2> QED
    BY <2>1, <2>2
<1> QED
  BY <1>3, <1>4, <1>6, <1>13, <1>14, <1>18, <1>19, <1>20, <1>21 DEF LoopDone, d, s, M, n


-----------------------------------------------------------------------------
(* Which lines the engine finds where.                                     *)
LEMMA LinesOf ==
  ASSUME TypeInv, WellFormed, scriptCmd = copied, NEW i \in DOMAIN program
  PROVE  /\ Base(program, i) \in Nat /\ Len(program[i].body) \in Nat /\ program[i] \in Block
         /\ Len(scriptCmd) \in Nat /\ Len(scriptCmd) <= MAX_SC_LINE
         /\ ~ program[i].loop =>
              /\ Base(program, i) + Len(program[i].body) <= Len(scriptCmd)
              /\ \A k \in 0 .. Len(program[i].body) - 1 :
                   lineAt(Base(program, i) + k) = Line("cmd", program[i].body[k + 1])
         /\ program[i].loop =>
              /\ Base(program, i) + 3 + Len(program[i].body) <= Len(scriptCmd)
              /\ lineAt(Base(program, i)) = Line("loop", program[i].times)
              /\ lineAt(Base(program, i) + 1) = Line("start", 0)
              /\ lineAt(Base(program, i) + 2 + Len(program[i].body)) = Line("end", 0)
              /\ \A k \in 0 .. Len(program[i].body) - 1 :
                   lineAt(Base(program, i) + 2 + k) = Line("cmd", program[i].body[k + 1])
<1> DEFINE b == program[i]
           n == Len(b.body)
           u == BlockUsed(b)
           B == Base(program, i)
<1>1. program \in Seq(Block) /\ copied \in Seq(UsedLine) /\ Len(copied) \in Nat
  BY CopiedType DEF TypeInv
<1>2. AllMarked(program)
  BY DEF WellFormed, AllMarked, Marked
<1>3. copied = FlattenSeq(Used(program))
  BY <1>1, <1>2, CopiedIsUsed DEF copied
<1>4. i \in 1 .. Len(program) /\ Len(program) \in Nat /\ b \in Block /\ i \in 1 .. Len(program) + 1
  BY <1>1, ProgramFacts
<1>5. B \in Nat /\ n \in Nat
  BY <1>1, <1>4, Before, BlockFields
<1>6. /\ B + Len(u) <= Len(scriptCmd)
      /\ \A k \in 1 .. Len(u) : scriptCmd[B + k] = u[k]
  BY <1>1, <1>3, <1>4, Across
<1>7. /\ Len(u) = IF b.loop THEN n + 3 ELSE n
      /\ ~ b.loop => \A k \in 1 .. n : u[k] = Line("cmd", b.body[k])
      /\ b.loop => /\ u[1] = Line("loop", b.times) /\ u[2] = Line("start", 0)
                   /\ u[n + 3] = Line("end", 0)
                   /\ \A k \in 1 .. n : u[k + 2] = Line("cmd", b.body[k])
  BY <1>4, BlockUsedLines
<1>8. Len(scriptCmd) \in Nat /\ Len(scriptCmd) <= MAX_SC_LINE
  BY <1>1 DEF TypeInv, TypeOK
<1> HIDE DEF b, n, u, B
<1>9. ASSUME NEW k \in Nat, k < Len(u) PROVE lineAt(B + k) = u[k + 1]
  <2>1. Len(u) \in Nat
    BY <1>5, <1>7
  <2>2. B + k \in 0 .. Len(scriptCmd) - 1 /\ (B + k) + 1 = B + (k + 1) /\ k + 1 \in 1 .. Len(u)
    BY <1>5, <1>6, <1>8, <1>9, <2>1
  <2>3. lineAt(B + k) = scriptCmd[(B + k) + 1]
    BY <2>2 DEF lineAt
  <2> QED
    BY <1>6, <2>2, <2>3
<1>10. ASSUME ~ b.loop
       PROVE  /\ B + n <= Len(scriptCmd)
              /\ \A k \in 0 .. n - 1 : lineAt(B + k) = Line("cmd", b.body[k + 1])
  <2>1. Len(u) = n /\ \A k \in 0 .. n - 1 : k \in Nat /\ k < n /\ k + 1 \in 1 .. n
    BY <1>5, <1>7, <1>10
  <2>2. \A k \in 0 .. n - 1 : lineAt(B + k) = u[k + 1]
    BY <1>9, <2>1
  <2> QED
    BY <1>6, <1>7, <1>10, <2>1, <2>2
<1>11. ASSUME b.loop
       PROVE  /\ B + 3 + n <= Len(scriptCmd)
              /\ lineAt(B) = Line("loop", b.times)
              /\ lineAt(B + 1) = Line("start", 0)
              /\ lineAt(B + 2 + n) = Line("end", 0)
              /\ \A k \in 0 .. n - 1 : lineAt(B + 2 + k) = Line("cmd", b.body[k + 1])
  <2>1. Len(u) = n + 3
    BY <1>7, <1>11
  <2>2. B + 3 + n <= Len(scriptCmd)
    BY <1>5, <1>6, <1>8, <2>1
  <2>3. lineAt(B) = u[1]
    <3>1. 0 \in Nat /\ 0 < Len(u) /\ B + 0 = B /\ 0 + 1 = 1
      BY <1>5, <2>1
    <3>2. lineAt(B + 0) = u[0 + 1]
      BY <1>9, <3>1
    <3> QED
      BY <3>1, <3>2
  <2>4. lineAt(B + 1) = u[2]
    <3>1. 1 \in Nat /\ 1 < Len(u) /\ 1 + 1 = 2
      BY <1>5, <2>1
    <3>2. lineAt(B + 1) = u[1 + 1]
      BY <1>9, <3>1
    <3> QED
      BY <3>1, <3>2
  <2>5. lineAt(B + 2 + n) = u[n + 3]
    <3>1. 2 + n \in Nat /\ 2 + n < Len(u) /\ B + (2 + n) = B + 2 + n /\ (2 + n) + 1 = n + 3
      BY <1>5, <2>1
    <3>2. lineAt(B + (2 + n)) = u[(2 + n) + 1]
      BY <1>9, <3>1
    <3> QED
      BY <3>1, <3>2
  <2>6. ASSUME NEW k \in 0 .. n - 1
        PROVE  lineAt(B + 2 + k) = Line("cmd", b.body[k + 1])
    <3>1. /\ 2 + k \in Nat /\ 2 + k < Len(u) /\ B + (2 + k) = B + 2 + k /\ k + 1 \in 1 .. n
          /\ (2 + k) + 1 = (k + 1) + 2
      BY <1>5, <2>1
    <3>2. lineAt(B + (2 + k)) = u[(2 + k) + 1]
      BY <1>9, <3>1
    <3>3. u[(k + 1) + 2] = Line("cmd", b.body[k + 1])
      BY <1>7, <1>11, <3>1
    <3> QED
      BY <3>1, <3>2, <3>3
  <2> QED
    BY <1>7, <1>11, <2>2, <2>3, <2>4, <2>5, <2>6
<1> QED
  BY <1>4, <1>5, <1>8, <1>10, <1>11 DEF b, n, B

(* Between blocks the engine is at the end, within a plain block or in     *)
(* front of a loop: empty blocks do not count.                             *)
LEMMA LinePlaces ==
  ASSUME TypeInv, WellFormed, scriptCmd = copied, AtLine
  PROVE  \/ index = Len(scriptCmd) /\ executed = Meaning(program) /\ count = Rounds(program)
         \/ \E i \in DOMAIN program : \E k \in 0 .. Len(program[i].body) - 1 : InPlain(i, k)
         \/ \E i \in DOMAIN program : AtBlock(i) /\ program[i].loop
<1>1. program \in Seq(Block)
  BY CopiedType DEF TypeInv
<1>2. /\ Len(program) \in Nat /\ DOMAIN program = 1 .. Len(program)
      /\ \A i \in 1 .. Len(program) : program[i] \in Block
  BY <1>1, ProgramFacts
<1>3. AllMarked(program)
  BY DEF WellFormed, AllMarked, Marked
<1>4. scriptCmd = FlattenSeq(Used(program))
  BY <1>1, <1>3, CopiedIsUsed DEF copied
<1>5. ASSUME NEW i \in DOMAIN program, NEW k \in 0 .. Len(program[i].body), InPlain(i, k)
      PROVE  k \in 0 .. Len(program[i].body) - 1
  <2>1. Len(program[i].body) \in Nat
    BY <1>2, BlockFields
  <2> QED
    BY <1>5, <2>1 DEF InPlain
<1>6. ASSUME NEW j \in 1 .. Len(program) + 1, AtBlock(j)
      PROVE  \/ index = Len(scriptCmd) /\ executed = Meaning(program) /\ count = Rounds(program)
             \/ \E i \in DOMAIN program : \E k \in 0 .. Len(program[i].body) - 1 : InPlain(i, k)
             \/ \E i \in DOMAIN program : AtBlock(i) /\ program[i].loop
  <2>1. PICK m : /\ SamePlace(program, j, m)
                 /\ m = Len(program) + 1 \/ Len(BlockUsed(program[m])) > 0
    BY <1>1, <1>6, SkipEmptyBlocks DEF AtBlock
  <2>2. m \in 1 .. Len(program) + 1 /\ AtBlock(m)
    BY <1>2, <1>6, <2>1 DEF SamePlace, AtBlock
  <2>3. CASE m = Len(program) + 1
    BY <1>1, <1>4, <2>2, <2>3, Before DEF AtBlock
  <2>4. CASE m # Len(program) + 1
    <3>1. m \in DOMAIN program /\ m \in 1 .. Len(program) /\ Len(BlockUsed(program[m])) > 0
      BY <1>2, <2>1, <2>2, <2>4
    <3>2. CASE program[m].loop
      BY <2>2, <3>1, <3>2
    <3>3. CASE ~ program[m].loop
      <4>1. Len(program[m].body) \in Nat /\ Len(program[m].body) > 0
        BY <1>2, <3>1, <3>3, BlockUsedLines, BlockFields
      <4>2. PlainDone(program, m, 0) = Done(program, m) /\ Base(program, m) \in Nat
        BY <1>1, <2>2, <3>1, <3>3, PlainPart, Before DEF AtBlock
      <4>3. InPlain(m, 0)
        BY <2>2, <3>3, <4>1, <4>2 DEF InPlain, AtBlock
      <4>4. 0 \in 0 .. Len(program[m].body) - 1
        BY <4>1
      <4> QED
        BY <3>1, <4>3, <4>4
    <3> QED
      BY <3>2, <3>3
  <2> QED
    BY <2>3, <2>4
<1> QED
  BY <1>5, <1>6 DEF AtLine


-----------------------------------------------------------------------------
(* Every step of the engine leads from place to place.                     *)
LEMMA PlacesInit == Init => Places
<1> SUFFICES ASSUME Init PROVE Places
  OBVIOUS
<1>1. program \in Seq(Block) /\ executed = <<>> /\ scriptCmd = <<>> /\ index = 0 /\ pc = "open"
  BY ScriptAssumption DEF Init
<1>2. Meaning(program) \in Seq(Int) /\ <<>> \in Seq(Int) /\ Len(<<>>) = 0
      /\ Len(Meaning(program)) \in Nat
  <2>1. 1 \in 1 .. Len(program) + 1
    BY <1>1, ProgramFacts
  <2> QED
    BY <1>1, <2>1, Before, EmptySeq, LenProperties
<1> DEFINE M == Meaning(program)
           e == <<>>
<1>3. e \in Seq(Int) /\ M \in Seq(Int) /\ Len(e) <= Len(M) /\ \A k \in 1 .. Len(e) : e[k] = M[k]
  BY <1>2
<1> HIDE DEF M, e
<1>4. IsPrefix(e, M)
  BY <1>3, PrefixByElement
<1> QED
  BY <1>1, <1>4 DEF Places, M, e

LEMMA OpenPlaces ==
  ASSUME TypeInv, WellFormed, Places, Open, program' = program
  PROVE  Places'
<1>1. program \in Seq(Block)
  BY CopiedType DEF TypeInv
<1>2. pc = "open" /\ executed = <<>> /\ index = 0 /\ scriptCmd' = copied /\ count' = 0
      /\ executed' = executed /\ index' = index
      /\ pc' = IF copied = <<>> THEN "done" ELSE "line"
  BY DEF Open, Places, locals
<1>3. IsPrefix(executed', Meaning(program'))
  BY <1>2 DEF Places
<1>4. Len(program) \in Nat /\ 1 \in 1 .. Len(program) + 1
  BY <1>1, ProgramFacts
<1>5. Base(program, 1) = 0 /\ Done(program, 1) = <<>> /\ Counted(program, 1) = 0 /\ Passed(program, 1)
  BY <1>1, <1>4, Before DEF Passed
<1>6. AtBlock(1)'
  BY <1>2, <1>5 DEF AtBlock
<1>7. AtLine'
  BY <1>4, <1>6 DEF AtLine
<1> QED
  BY <1>2, <1>3, <1>7 DEF Places

LEMMA EndOfScriptPlaces ==
  ASSUME TypeInv, WellFormed, Places, EndOfScript, program' = program
  PROVE  Places'
<1>1. /\ pc = "line" /\ scriptCmd = copied /\ index >= Len(scriptCmd) /\ pc' = "done"
      /\ executed' = executed /\ count' = count /\ AtLine /\ index \in Int
  BY DEF EndOfScript, Places, TypeInv, TypeOK
<1>2. executed = Meaning(program) /\ count = Rounds(program)
  <2>1. ASSUME NEW i \in DOMAIN program, NEW k \in 0 .. Len(program[i].body) - 1, InPlain(i, k)
        PROVE  FALSE
    <3>1. ~ program[i].loop /\ index = Base(program, i) + k
      BY <2>1 DEF InPlain
    <3>2. /\ Base(program, i) \in Nat /\ Len(program[i].body) \in Nat /\ Len(scriptCmd) \in Nat
          /\ Base(program, i) + Len(program[i].body) <= Len(scriptCmd)
      BY <1>1, <3>1, LinesOf
    <3> QED
      BY <1>1, <3>1, <3>2
  <2>2. ASSUME NEW i \in DOMAIN program, AtBlock(i), program[i].loop
        PROVE  FALSE
    <3>1. /\ Base(program, i) \in Nat /\ Len(program[i].body) \in Nat /\ Len(scriptCmd) \in Nat
          /\ Base(program, i) + 3 + Len(program[i].body) <= Len(scriptCmd)
      BY <1>1, <2>2, LinesOf
    <3> QED
      BY <1>1, <2>2, <3>1 DEF AtBlock
  <2> QED
    BY <1>1, <2>1, <2>2, LinePlaces
<1> QED
  BY <1>1, <1>2 DEF Places

LEMMA RunLinePlaces ==
  ASSUME TypeInv, WellFormed, Places, RunLine, program' = program
  PROVE  Places'
<1>1. /\ pc = "line" /\ scriptCmd = copied /\ index < Len(scriptCmd) /\ pc' = "line"
      /\ lineAt(index).op # "loop" /\ cmd_proc(lineAt(index)) /\ index' = index + 1
      /\ count' = count /\ scriptCmd' = scriptCmd /\ AtLine
  BY DEF RunLine, Places, TypeInv
<1>2. program \in Seq(Block)
  BY CopiedType DEF TypeInv
<1>3. DOMAIN program = 1 .. Len(program) /\ Len(program) \in Nat
  BY <1>2, ProgramFacts
<1>4. index # Len(scriptCmd)
  <2>1. Len(scriptCmd) \in Nat
    BY <1>1, CopiedType DEF TypeInv
  <2> QED
    BY <1>1, <2>1
<1>5. ASSUME NEW i \in DOMAIN program, AtBlock(i), program[i].loop PROVE FALSE
  <2>1. lineAt(index) = Line("loop", program[i].times)
    BY <1>1, <1>5, LinesOf DEF AtBlock
  <2> QED
    BY <1>1, <2>1 DEF Line
<1>6. ASSUME NEW i \in DOMAIN program, NEW k \in 0 .. Len(program[i].body) - 1, InPlain(i, k)
      PROVE  Places'
  <2> DEFINE n == Len(program[i].body)
  <2>1. Passed(program, i) /\ ~ program[i].loop /\ index = Base(program, i) + k
        /\ executed = PlainDone(program, i, k) /\ count = Counted(program, i)
    BY <1>6 DEF InPlain
  <2>2. /\ Base(program, i) \in Nat /\ n \in Nat
        /\ lineAt(index) = Line("cmd", program[i].body[k + 1])
    BY <1>1, <2>1, LinesOf
  <2>3. executed' = Append(executed, program[i].body[k + 1])
    BY <1>1, <2>2 DEF cmd_proc, Line
  <2>4. i \in 1 .. Len(program)
    BY <1>3
  <2>5. /\ Append(PlainDone(program, i, k), program[i].body[k + 1]) = PlainDone(program, i, k + 1)
        /\ \A l \in 0 .. n : IsPrefix(PlainDone(program, i, l), Meaning(program))
        /\ PlainDone(program, i, n) = Done(program, i + 1)
        /\ Counted(program, i + 1) = Counted(program, i) /\ Passed(program, i + 1)
        /\ Base(program, i + 1) = Base(program, i) + n
    BY <1>2, <2>1, <2>4, PlainPart
  <2>6. executed' = PlainDone(program, i, k + 1)
    BY <2>1, <2>3, <2>5
  <2> HIDE DEF n
  <2>7. k + 1 \in 0 .. n /\ index' = Base(program, i) + (k + 1)
    BY <1>1, <2>1, <2>2 DEF n
  <2>8. IsPrefix(executed', Meaning(program'))
    BY <2>5, <2>6, <2>7
  <2>9. AtLine'
    <3>1. CASE k + 1 < n
      <4>1. InPlain(i, k + 1)'
        BY <1>1, <2>1, <2>6, <2>7, <3>1 DEF InPlain, n
      <4>2. k + 1 \in 0 .. Len(program'[i].body)
        BY <2>7 DEF n
      <4> QED
        BY <4>1, <4>2 DEF AtLine
    <3>2. CASE k + 1 = n
      <4>1. AtBlock(i + 1)'
        BY <1>1, <2>1, <2>5, <2>6, <2>7, <3>2 DEF AtBlock
      <4>2. i + 1 \in 1 .. Len(program') + 1
        BY <1>3
      <4> QED
        BY <4>1, <4>2 DEF AtLine
    <3> QED
      BY <2>2, <2>7, <3>1, <3>2
  <2> QED
    BY <1>1, <2>8, <2>9 DEF Places
<1> QED
  BY <1>1, <1>4, <1>5, <1>6, LinePlaces

LEMMA EnterLoopPlaces ==
  ASSUME TypeInv, WellFormed, Places, EnterLoop, program' = program
  PROVE  Places'
<1>1. /\ pc = "line" /\ scriptCmd = copied /\ index < Len(scriptCmd)
      /\ lineAt(index).op = "loop" /\ loopTime' = lineAt(index).arg
      /\ \/ loopTime' > 0 /\ index' = index + 1 /\ pc' = "scan"
         \/ loopTime' <= 0 /\ index' = index /\ pc' = "done"
      /\ count' = count /\ scriptCmd' = scriptCmd /\ executed' = executed /\ AtLine
      /\ loopStart' = loopStart
  BY DEF EnterLoop, Places, TypeInv
<1>2. program \in Seq(Block)
  BY CopiedType DEF TypeInv
<1>3. DOMAIN program = 1 .. Len(program) /\ Len(program) \in Nat
  BY <1>2, ProgramFacts
<1>4. index # Len(scriptCmd)
  <2>1. Len(scriptCmd) \in Nat
    BY <1>1, CopiedType DEF TypeInv
  <2> QED
    BY <1>1, <2>1
<1>5. ASSUME NEW i \in DOMAIN program, NEW k \in 0 .. Len(program[i].body) - 1, InPlain(i, k)
      PROVE  FALSE
  <2>1. lineAt(index) = Line("cmd", program[i].body[k + 1])
    BY <1>1, <1>5, LinesOf DEF InPlain
  <2> QED
    BY <1>1, <2>1 DEF Line
<1>6. ASSUME NEW i \in DOMAIN program, AtBlock(i), program[i].loop PROVE Places'
  <2>1. Passed(program, i) /\ index = Base(program, i)
        /\ executed = Done(program, i) /\ count = Counted(program, i)
    BY <1>6 DEF AtBlock
  <2>2. /\ Base(program, i) \in Nat /\ Len(program[i].body) \in Nat /\ program[i] \in Block
        /\ lineAt(index) = Line("loop", program[i].times)
    BY <1>1, <1>6, <2>1, LinesOf
  <2>3. loopTime' = program[i].times /\ program[i].times \in Int
    BY <1>1, <2>2, BlockFields DEF Line
  <2>4. IsPrefix(executed', Meaning(program'))
    BY <1>1 DEF Places
  <2>5. CASE loopTime' > 0 /\ index' = index + 1 /\ pc' = "scan"
    <3>1. /\ index' \in Base(program, i) + 1 .. Base(program, i) + 2 + Len(program[i].body)
          /\ ~ (index' > Base(program, i) + 1)
      BY <2>1, <2>2, <2>5
    <3>2. InScan(i)'
      BY <1>1, <1>6, <2>1, <2>3, <2>5, <3>1 DEF InScan
    <3>3. AtScan'
      BY <3>2 DEF AtScan
    <3> QED
      BY <2>4, <2>5, <3>3 DEF Places
  <2>6. CASE loopTime' <= 0 /\ index' = index /\ pc' = "done"
    <3>1. ~ (program[i].times > 0)
      BY <2>3, <2>6
    <3>2. Done(program, i) = Meaning(program) /\ Counted(program, i) = Rounds(program)
      BY <1>2, <1>3, <1>6, <3>1, NothingBehind
    <3> QED
      BY <1>1, <2>1, <2>4, <2>6, <3>2 DEF Places
  <2> QED
    BY <1>1, <2>5, <2>6
<1> QED
  BY <1>1, <1>4, <1>5, <1>6, LinePlaces


(* The search for the end of a loop stays within the loop. *)
LEMMA ScanLines ==
  ASSUME TypeInv, WellFormed, Places, pc = "scan"
  PROVE  /\ scriptCmd = copied /\ index \in 0 .. Len(scriptCmd) - 1 /\ ~ outOfBounds(index)
         /\ \E i \in DOMAIN program :
              /\ InScan(i)
              /\ Base(program, i) \in Nat /\ Len(program[i].body) \in Nat
              /\ lineAt(index).op = "start" <=> index = Base(program, i) + 1
              /\ lineAt(index).op = "end" <=> index = Base(program, i) + 2 + Len(program[i].body)
<1>1. scriptCmd = copied /\ MAX_SC_LINE \in Nat
  BY ScriptAssumption DEF TypeInv
<1>2. PICK i \in DOMAIN program : InScan(i)
  BY DEF Places, AtScan
<1> DEFINE B == Base(program, i)
           n == Len(program[i].body)
<1>3. /\ B \in Nat /\ n \in Nat /\ Len(scriptCmd) \in Nat /\ Len(scriptCmd) <= MAX_SC_LINE
      /\ B + 3 + n <= Len(scriptCmd)
      /\ lineAt(B + 1).op = "start" /\ lineAt(B + 2 + n).op = "end"
      /\ \A k \in 0 .. n - 1 : lineAt(B + 2 + k).op = "cmd"
  <2>1. program[i].loop
    BY <1>2 DEF InScan
  <2>2. /\ B \in Nat /\ n \in Nat /\ Len(scriptCmd) \in Nat /\ Len(scriptCmd) <= MAX_SC_LINE
        /\ B + 3 + n <= Len(scriptCmd)
        /\ lineAt(B + 1) = Line("start", 0) /\ lineAt(B + 2 + n) = Line("end", 0)
        /\ \A k \in 0 .. n - 1 : lineAt(B + 2 + k) = Line("cmd", program[i].body[k + 1])
    BY <1>1, <2>1, LinesOf
  <2>3. \A op, arg : Line(op, arg).op = op
    BY DEF Line
  <2> HIDE DEF B, n
  <2> QED
    BY <2>2, <2>3
<1>4. index \in B + 1 .. B + 2 + n
  BY <1>2 DEF InScan
<1> HIDE DEF B, n
<1>5. index \in 0 .. Len(scriptCmd) - 1 /\ index \in 0 .. MAX_SC_LINE - 1
  BY <1>1, <1>3, <1>4
<1>6. \/ index = B + 1 \/ index = B + 2 + n
      \/ \E k \in 0 .. n - 1 : index = B + 2 + k
  <2>1. CASE index \in B + 2 .. B + 1 + n
    <3>1. index - (B + 2) \in 0 .. n - 1 /\ index = B + 2 + (index - (B + 2))
      BY <1>3, <2>1
    <3> QED
      BY <3>1
  <2>2. index = B + 1 \/ index = B + 2 + n \/ index \in B + 2 .. B + 1 + n
    BY <1>3, <1>4
  <2> QED
    BY <2>1, <2>2
<1>7. \A k \in 0 .. n - 1 : B + 2 + k # B + 1 /\ B + 2 + k # B + 2 + n
  BY <1>3
<1>8. B + 1 # B + 2 + n
  BY <1>3
<1>9. /\ lineAt(index).op = "start" <=> index = B + 1
      /\ lineAt(index).op = "end" <=> index = B + 2 + n
  BY <1>3, <1>6, <1>7, <1>8
<1> QED
  BY <1>1, <1>2, <1>3, <1>5, <1>9 DEF outOfBounds, B, n

LEMMA ScanPlaces ==
  ASSUME TypeInv, WellFormed, Places, Scan, program' = program
  PROVE  Places'
<1>1. /\ pc = "scan"
      /\ loopStart' = IF lineAt(index).op = "start" THEN index + 1 ELSE loopStart
      /\ \/ /\ lineAt(index).op = "end"
            /\ loopEnd' = index - 1 /\ pc' = "round" /\ index' = index
         \/ /\ lineAt(index).op # "end"
            /\ index' = index + 1 /\ loopEnd' = loopEnd /\ pc' = pc
      /\ loopTime' = loopTime /\ count' = count /\ executed' = executed /\ index \in Int
  BY DEF Scan, TypeInv, TypeOK
<1>2. PICK i \in DOMAIN program :
        /\ InScan(i)
        /\ Base(program, i) \in Nat /\ Len(program[i].body) \in Nat
        /\ lineAt(index).op = "start" <=> index = Base(program, i) + 1
        /\ lineAt(index).op = "end" <=> index = Base(program, i) + 2 + Len(program[i].body)
  BY <1>1, ScanLines
<1> DEFINE B == Base(program, i)
           n == Len(program[i].body)
<1>3. /\ Passed(program, i) /\ program[i].loop /\ program[i].times > 0
      /\ index \in B + 1 .. B + 2 + n /\ (index > B + 1 => loopStart = B + 2)
      /\ loopTime = program[i].times
      /\ executed = Done(program, i) /\ count = Counted(program, i)
  BY <1>2 DEF InScan
<1>4. B \in Nat /\ n \in Nat
  BY <1>2
<1>5. program \in Seq(Block)
  BY CopiedType DEF TypeInv
<1>6. i \in 1 .. Len(program) /\ program[i].times \in Int /\ Counted(program, i) \in Nat
  <2>1. i \in 1 .. Len(program) /\ program[i] \in Block /\ i \in 1 .. Len(program) + 1
    BY <1>5, ProgramFacts
  <2> QED
    BY <1>5, <2>1, BlockFields, Before
<1>7. loopStart' = B + 2
  <2>1. CASE index = B + 1
    BY <1>1, <1>2, <1>4, <2>1
  <2>2. CASE index # B + 1
    <3>1. index > B + 1
      BY <1>1, <1>3, <1>4, <2>2
    <3> QED
      BY <1>1, <1>2, <1>3, <2>2, <3>1
  <2> QED
    BY <2>1, <2>2
<1>8. IsPrefix(executed', Meaning(program'))
  BY <1>1 DEF Places
<1>9. CASE lineAt(index).op = "end" /\ loopEnd' = index - 1 /\ pc' = "round"
  <2>1. loopEnd' = B + 1 + n
    BY <1>2, <1>4, <1>9
  <2>2. LoopDone(program, i, 0, 0) = Done(program, i)
    BY <1>3, <1>5, <1>6, LoopPart
  <2>3. 0 \in 0 .. program[i].times /\ program[i].times - 0 = program[i].times
        /\ Counted(program, i) + 0 = Counted(program, i)
    BY <1>3, <1>6
  <2>4. InLoop(i, 0, 0)'
    BY <1>1, <1>3, <1>7, <2>1, <2>2, <2>3 DEF InLoop
  <2>5. AtRound'
    BY <2>3, <2>4 DEF AtRound
  <2> QED
    BY <1>8, <1>9, <2>5 DEF Places
<1>10. CASE lineAt(index).op # "end" /\ index' = index + 1 /\ pc' = pc
  <2>1. index' \in B + 1 .. B + 2 + n
    BY <1>1, <1>2, <1>3, <1>4, <1>10
  <2>2. InScan(i)'
    BY <1>1, <1>3, <1>7, <2>1 DEF InScan
  <2>3. AtScan'
    BY <2>2 DEF AtScan
  <2> QED
    BY <1>1, <1>8, <1>10, <2>3 DEF Places
<1> QED
  BY <1>1, <1>9, <1>10

LEMMA RoundPlaces ==
  ASSUME TypeInv, WellFormed, Places, Round, program' = program
  PROVE  Places'
<1>1. /\ pc = "round"
      /\ \/ loopTime > 0 /\ loopStart <= loopEnd /\ index' = loopStart /\ pc' = "body"
         \/ (loopTime = 0 \/ loopStart > loopEnd) /\ index' = loopEnd + 2 /\ pc' = "line"
      /\ UNCHANGED <<loopTime, loopStart, loopEnd, count, executed>>
  BY DEF Round
<1>2. PICK i \in DOMAIN program : \E r \in 0 .. program[i].times :
        InLoop(i, r, 0) /\ (program[i].body = <<>> => r = 0)
  BY <1>1 DEF Places, AtRound
<1>3. PICK r \in 0 .. program[i].times : InLoop(i, r, 0) /\ (program[i].body = <<>> => r = 0)
  BY <1>2
<1> DEFINE B == Base(program, i)
           n == Len(program[i].body)
           times == program[i].times
<1>4. /\ Passed(program, i) /\ program[i].loop /\ times > 0
      /\ loopStart = B + 2 /\ loopEnd = B + 1 + n
      /\ loopTime = times - r
      /\ executed = LoopDone(program, i, r, 0) /\ count = Counted(program, i) + r
  BY <1>3 DEF InLoop
<1>5. program \in Seq(Block)
  BY CopiedType DEF TypeInv
<1>6. /\ i \in 1 .. Len(program) /\ times \in Int /\ Counted(program, i) \in Nat /\ B \in Nat
      /\ n \in Nat /\ program[i].body \in Seq(Int) /\ Len(program) \in Nat
  <2>1. i \in 1 .. Len(program) /\ program[i] \in Block /\ i \in 1 .. Len(program) + 1
        /\ Len(program) \in Nat
    BY <1>5, ProgramFacts
  <2> QED
    BY <1>5, <2>1, BlockFields, Before
<1>7. IsPrefix(executed', Meaning(program'))
  BY <1>1 DEF Places
<1>8. CASE loopTime > 0 /\ loopStart <= loopEnd /\ index' = loopStart /\ pc' = "body"
  <2>1. r \in 0 .. times - 1 /\ 0 \in 0 .. n - 1 /\ index' = loopStart' + 0
    <3>1. r \in 0 .. times
      OBVIOUS
    <3> HIDE DEF B, n, times
    <3> QED
      BY <1>1, <1>4, <1>6, <1>8, <3>1
  <2>2. InLoop(i, r, 0)'
    BY <1>1, <1>4 DEF InLoop
  <2>3. AtBody'
    BY <2>1, <2>2 DEF AtBody
  <2> QED
    BY <1>7, <1>8, <2>3 DEF Places
<1>9. CASE (loopTime = 0 \/ loopStart > loopEnd) /\ index' = loopEnd + 2 /\ pc' = "line"
  <2>1. /\ LoopDone(program, i, 0, 0) = Done(program, i)
        /\ LoopDone(program, i, times, 0) = Done(program, i + 1)
        /\ program[i].body = <<>> =>
             Done(program, i + 1) = Done(program, i) /\ Counted(program, i + 1) = Counted(program, i)
        /\ program[i].body # <<>> => Counted(program, i + 1) = Counted(program, i) + times
        /\ Base(program, i + 1) = B + 3 + n
        /\ Passed(program, i + 1)
    BY <1>4, <1>5, <1>6, LoopPart
  <2>2. index' = Base(program, i + 1)
    <3> HIDE DEF B, n
    <3> QED
      BY <1>4, <1>6, <1>9, <2>1
  <2>3. executed' = Done(program, i + 1) /\ count' = Counted(program, i + 1)
    <3>1. CASE program[i].body = <<>>
      <4>1. r = 0
        BY <1>3, <3>1
      <4> QED
        BY <1>1, <1>4, <1>6, <2>1, <3>1, <4>1
    <3>2. CASE program[i].body # <<>>
      <4>1. n > 0
        BY <1>6, <3>2, EmptySeq
      <4>2. ~ (loopStart > loopEnd)
        BY <1>4, <1>6, <4>1
      <4>3. r = times
        BY <1>4, <1>6, <1>9, <4>2
      <4> QED
        BY <1>1, <1>4, <2>1, <3>2, <4>3
    <3> QED
      BY <3>1, <3>2
  <2>4. AtBlock(i + 1)'
    BY <2>1, <2>2, <2>3 DEF AtBlock
  <2>5. i + 1 \in 1 .. Len(program') + 1
    BY <1>6
  <2>6. AtLine'
    BY <2>4, <2>5 DEF AtLine
  <2> QED
    BY <1>7, <1>9, <2>6 DEF Places
<1> QED
  BY <1>1, <1>8, <1>9

LEMMA BodyLines ==
  ASSUME TypeInv, WellFormed, Places, pc = "body"
  PROVE  index \in 0 .. Len(scriptCmd) - 1 /\ ~ outOfBounds(index)
<1>1. scriptCmd = copied /\ MAX_SC_LINE \in Nat
  BY ScriptAssumption DEF TypeInv
<1>2. PICK i \in DOMAIN program : \E r \in 0 .. program[i].times - 1 :
        \E k \in 0 .. Len(program[i].body) - 1 : InLoop(i, r, k) /\ index = loopStart + k
  BY DEF Places, AtBody
<1>3. PICK k \in 0 .. Len(program[i].body) - 1 :
        program[i].loop /\ loopStart = Base(program, i) + 2 /\ index = loopStart + k
  BY <1>2 DEF InLoop
<1>4. /\ Base(program, i) \in Nat /\ Len(program[i].body) \in Nat
      /\ Len(scriptCmd) \in Nat /\ Len(scriptCmd) <= MAX_SC_LINE
      /\ Base(program, i) + 3 + Len(program[i].body) <= Len(scriptCmd)
  BY <1>1, <1>3, LinesOf
<1>5. index \in 0 .. Len(scriptCmd) - 1 /\ index \in 0 .. MAX_SC_LINE - 1
  BY <1>1, <1>3, <1>4
<1> QED
  BY <1>5 DEF outOfBounds

LEMMA BodyPlaces ==
  ASSUME TypeInv, WellFormed, Places, Body, program' = program
  PROVE  Places'
<1>1. /\ pc = "body" /\ scriptCmd = copied /\ cmd_proc(lineAt(index))
      /\ \/ /\ index < loopEnd /\ index' = index + 1
            /\ UNCHANGED <<loopTime, count, pc>>
         \/ /\ index = loopEnd
            /\ count' = count + 1 /\ loopTime' = loopTime - 1 /\ pc' = "round"
      /\ UNCHANGED <<loopStart, loopEnd>>
  BY DEF Body, TypeInv
<1>2. PICK i \in DOMAIN program : \E r \in 0 .. program[i].times - 1 :
        \E k \in 0 .. Len(program[i].body) - 1 : InLoop(i, r, k) /\ index = loopStart + k
  BY <1>1 DEF Places, AtBody
<1>3. PICK r \in 0 .. program[i].times - 1, k \in 0 .. Len(program[i].body) - 1 :
        InLoop(i, r, k) /\ index = loopStart + k
  BY <1>2
<1> DEFINE B == Base(program, i)
           s == program[i].body
           n == Len(program[i].body)
           times == program[i].times
<1>4. /\ Passed(program, i) /\ program[i].loop /\ times > 0
      /\ loopStart = B + 2 /\ loopEnd = B + 1 + n
      /\ loopTime = times - r /\ index = loopStart + k
      /\ executed = LoopDone(program, i, r, k) /\ count = Counted(program, i) + r
  BY <1>3 DEF InLoop
<1>5. program \in Seq(Block)
  BY CopiedType DEF TypeInv
<1>6. /\ i \in 1 .. Len(program) /\ times \in Int /\ Counted(program, i) \in Nat /\ B \in Nat
      /\ n \in Nat
  <2>1. i \in 1 .. Len(program) /\ program[i] \in Block /\ i \in 1 .. Len(program) + 1
    BY <1>5, ProgramFacts
  <2> QED
    BY <1>5, <2>1, BlockFields, Before
<1>7. executed' = Append(executed, s[k + 1])
  <2>1. lineAt(B + 2 + k) = Line("cmd", s[k + 1])
    BY <1>1, <1>4, LinesOf
  <2>2. index = B + 2 + k
    BY <1>4
  <2> QED
    BY <1>1, <2>1, <2>2 DEF cmd_proc, Line
<1>8. /\ Append(LoopDone(program, i, r, k), s[k + 1]) = LoopDone(program, i, r, k + 1)
      /\ \A l \in 0 .. n : IsPrefix(LoopDone(program, i, r, l), Meaning(program))
      /\ LoopDone(program, i, r, n) = LoopDone(program, i, r + 1, 0)
  BY <1>4, <1>5, <1>6, LoopPart
<1>9. executed' = LoopDone(program, i, r, k + 1) /\ k + 1 \in 0 .. n /\ k \in Nat /\ r \in Nat
  <2>1. k \in 0 .. n - 1 /\ r \in 0 .. times - 1
    OBVIOUS
  <2> HIDE DEF B, s, n, times
  <2>2. k + 1 \in 0 .. n /\ k \in Nat /\ r \in Nat
    BY <1>6, <2>1
  <2> QED
    BY <1>4, <1>7, <1>8, <2>2
<1>10. IsPrefix(executed', Meaning(program'))
  BY <1>8, <1>9
<1>11. CASE index < loopEnd /\ index' = index + 1 /\ UNCHANGED <<loopTime, count, pc>>
  <2>1. k + 1 \in 0 .. n - 1 /\ index' = loopStart' + (k + 1)
    <3> HIDE DEF B, s, n, times
    <3> QED
      BY <1>1, <1>4, <1>6, <1>9, <1>11
  <2>2. InLoop(i, r, k + 1)'
    BY <1>1, <1>4, <1>9, <1>11 DEF InLoop
  <2>3. AtBody'
    BY <2>1, <2>2 DEF AtBody
  <2> QED
    BY <1>1, <1>10, <1>11, <2>3 DEF Places
<1>12. CASE index = loopEnd /\ count' = count + 1 /\ loopTime' = loopTime - 1 /\ pc' = "round"
  <2>1. k + 1 = n /\ r + 1 \in 0 .. times /\ loopTime' = times - (r + 1) /\ n > 0
        /\ count' = Counted(program, i) + (r + 1)
    <3>1. r \in 0 .. times - 1
      OBVIOUS
    <3> HIDE DEF B, s, n, times
    <3> QED
      BY <1>4, <1>6, <1>9, <1>12, <3>1
  <2>2. executed' = LoopDone(program, i, r + 1, 0)
    BY <1>8, <1>9, <2>1
  <2>3. InLoop(i, r + 1, 0)'
    BY <1>1, <1>4, <2>1, <2>2 DEF InLoop
  <2>4. s # <<>>
    BY <2>1, EmptySeq
  <2>5. AtRound'
    BY <2>1, <2>3, <2>4 DEF AtRound
  <2> QED
    BY <1>10, <1>12, <2>5 DEF Places
<1> QED
  BY <1>1, <1>11, <1>12

LEMMA ScriptInvStep == ScriptInv /\ [Next]_vars => ScriptInv'
<1> SUFFICES ASSUME ScriptInv, [Next]_vars, WellFormed' PROVE Places'
  BY TypeInvStep DEF ScriptInv
<1>1. program' = program /\ TypeInv
  BY DEF ScriptInv, Next, Engine, vars, locals, crash, OpenFails, Open, OpenOverruns,
         EndOfScript, RunLine, EnterLoop, Scan, ScanOverruns, Round, Body, BodyOverruns, Stopped
<1>2. WellFormed /\ Places
  <2>1. copied' = copied
    BY <1>1 DEF copied
  <2> QED
    BY <1>1, <2>1 DEF WellFormed, ScriptInv
<1>3. CASE OpenFails
  BY <1>1, <1>2, <1>3 DEF OpenFails, Places, locals
<1>4. CASE OpenOverruns
  BY <1>2, <1>4, CopiedType, ScriptAssumption DEF OpenOverruns, WellFormed, TypeInv
<1>5. CASE ScanOverruns
  BY <1>1, <1>2, <1>5, ScanLines DEF ScanOverruns
<1>6. CASE BodyOverruns
  BY <1>1, <1>2, <1>6, BodyLines DEF BodyOverruns
<1>7. CASE Stopped
  BY <1>1, <1>2, <1>7 DEF Stopped, Places, locals
<1>8. CASE UNCHANGED vars
  <2>1. /\ UNCHANGED <<program, scriptCmd, executed, pc, count, index, loopTime, loopStart, loopEnd>>
    BY <1>8 DEF vars, locals
  <2> QED
    BY <1>2, <2>1 DEF Places, AtLine, AtScan, AtRound, AtBody, AtBlock, InPlain, InScan, InLoop
<1> QED
  BY <1>1, <1>2, <1>3, <1>4, <1>5, <1>6, <1>7, <1>8, OpenPlaces, EndOfScriptPlaces, RunLinePlaces,
     EnterLoopPlaces, ScanPlaces, RoundPlaces, BodyPlaces DEF Next, Engine

LEMMA ScriptInvariant == Spec => []ScriptInv
<1>1. Init => ScriptInv
  BY TypeInvInit, PlacesInit DEF ScriptInv
<1> QED
  BY <1>1, ScriptInvStep, PTL DEF Spec

(* A well-formed script never makes the engine leave its array, neither    *)
(* while it looks for the end of a loop nor while it executes one.         *)
THEOREM ScriptStaysInside == Spec => []StaysInside
<1>1. ScriptInv => StaysInside
  BY ScanLines, BodyLines DEF ScriptInv, StaysInside, Places
<1> QED
  BY <1>1, ScriptInvariant, PTL

(* What has been executed is at any time the beginning of what the script  *)
(* asks for: no command is left out, done twice or done too early.         *)
THEOREM ScriptIsFollowed == Spec => []FollowsScript
<1>1. ScriptInv => FollowsScript
  BY DEF ScriptInv, FollowsScript, Places
<1> QED
  BY <1>1, ScriptInvariant, PTL

(* A script that has ended by itself has been executed to its end, and the *)
(* rounds look reports are those of its loops.                             *)
THEOREM ScriptIsCompleted == Spec => []CompletesScript
<1>1. ScriptInv => CompletesScript
  BY DEF ScriptInv, CompletesScript, Places
<1> QED
  BY <1>1, ScriptInvariant, PTL
=============================================================================
