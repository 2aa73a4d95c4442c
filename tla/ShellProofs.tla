---------------------------- MODULE ShellProofs ----------------------------
(***************************************************************************)
(* The tokeniser of kernel/shell.c finds the words of the line, and        *)
(* timer_sleep of drivers/timer.c sleeps the ticks asked for.              *)
(***************************************************************************)
EXTENDS Shell, SequenceTheorems, WellFoundedInduction, TLAPS

(* Position e ends the word that starts at a in the line t, in the array   *)
(* l: a terminator, where the line had a blank or its end, and the line's  *)
(* own characters up to it.                                                *)
EndsAt(l, t, a, e) ==
  /\ a < e /\ e <= Len(t)
  /\ l[e] = NUL
  /\ e < Len(t) => t[e + 1] = Blank
  /\ \A k \in a .. e - 1 : l[k] = t[k + 1] /\ t[k + 1] # Blank

(* The provers do not know of themselves that a literal is a string.       *)
Char == STRING \cup {NUL}

ShellTypes ==
  /\ line \in [Positions -> Char]
  /\ typed \in Seq(Char) /\ Len(typed) < MAX_LINE
  /\ \A k \in DOMAIN typed : typed[k] # NUL
  /\ p \in 0 .. Len(typed)
  /\ args \in Seq(0 .. Len(typed))
  /\ pc \in {"prompt", "tokenise", "run", "test", "hlt", "halted", "terminated", "reset"}
  /\ timer_ticks \in 0 .. WordLimit - 1
  /\ ticked \in BOOLEAN
  /\ asked \in Nat /\ began \in 0 .. WordLimit - 1 /\ elapsed \in 0 .. WordLimit

(* The line as the tokeniser has left it: from p on as it was typed, its   *)
(* terminator in place, and p at the front or behind a blank or at the end.*)
LineAhead ==
  /\ line[Len(typed)] = NUL
  /\ \A k \in 0 .. Len(typed) - 1 : p <= k => line[k] = typed[k + 1]
  /\ 0 < p /\ p < Len(typed) => typed[p] = Blank

(* The words behind p are the arguments.                                   *)
WordsBehind ==
  /\ Len(args) < MAX_ARGS
  /\ \A n \in DOMAIN args : /\ args[n] < p /\ args[n] + 1 \in Starts
                            /\ \E e \in 0 .. p : EndsAt(line, typed, args[n], e)
  /\ \A m, n \in DOMAIN args : m < n => args[m] < args[n]
  /\ \A k \in Starts : k <= p => \E n \in DOMAIN args : args[n] + 1 = k

(* The tokeniser is done.                                                  *)
Tokenised == args # <<>> /\ ~MoreArgs

Tokens ==
  /\ pc \in {"tokenise", "run"} => LineAhead /\ WordsBehind
  /\ pc = "run" => Tokenised

(* The sleeps whose arithmetic 32 bits hold, and how far one may be.       *)
Due == asked * timer_frequency
Fits == asked * PerSecond * timer_frequency < WordLimit /\ began + Due < WordLimit - 1
SleepSoFar ==
  pc \in {"test", "hlt", "halted"} /\ Fits =>
    /\ target = began + Due /\ timer_ticks = began + elapsed
    /\ pc = "test" /\ ~ticked => elapsed <= Due
    /\ pc = "test" /\ ticked => elapsed <= Due + 1
    /\ pc = "hlt" /\ ~ticked => elapsed < Due
    /\ pc = "hlt" /\ ticked => elapsed <= Due
    /\ pc = "halted" => ~ticked /\ elapsed <= Due

ShellInv == ShellTypes /\ Tokens /\ SleepSoFar

-----------------------------------------------------------------------------
(* A set of naturals that is not empty has a least element, and one that   *)
(* holds 0 and every successor of its elements holds all of them.  They    *)
(* stand in for induction in what follows.                                 *)
LEMMA Least ==
  ASSUME NEW T \in SUBSET Nat, T # {}
  PROVE  \E n \in T : \A m \in T : n <= m
<1> DEFINE R == OpToRel(<, Nat)
<1>1. IsWellFoundedOn(R, Nat)
  BY NatLessThanWellFounded
<1>2. \A m, n \in Nat : m < n => <<m, n>> \in R
  BY DEF OpToRel
<1> HIDE DEF R
<1>3. PICK n \in T : \A m \in T : <<m, n>> \notin R
  BY <1>1, WFMin
<1>4. \A m \in T : ~ (m < n)
  BY <1>2, <1>3
<1>5. \A m \in T : n <= m
  BY <1>4
<1> QED BY <1>5

LEMMA SetInduction ==
  ASSUME NEW S \in SUBSET Nat, 0 \in S, \A n \in S : n + 1 \in S
  PROVE  S = Nat
<1>1. SUFFICES ASSUME Nat \ S # {} PROVE FALSE
  OBVIOUS
<1>2. PICK n \in Nat \ S : \A m \in Nat \ S : n <= m
  BY <1>1, Least
<1>3. n - 1 \in Nat /\ n - 1 \notin S
  BY <1>2
<1> QED BY <1>2, <1>3

(* A scan that some position ends, ends at the first such position.        *)
LEMMA FirstFound ==
  ASSUME NEW C, NEW k \in Positions, NEW n \in Positions, k <= n, line[n] \in C
  PROVE  /\ First(C, k) \in Positions /\ k <= First(C, k) /\ First(C, k) <= n
         /\ line[First(C, k)] \in C
         /\ \A m \in Positions : k <= m /\ m < First(C, k) => line[m] \notin C
<1> USE ShellAssumption DEF Positions
<1> DEFINE T == { m \in Positions : k <= m /\ line[m] \in C }
<1>1. PICK f \in T : \A m \in T : f <= m
  <2>1. n \in T /\ T \in SUBSET Nat
    OBVIOUS
  <2> QED BY <2>1, Least
<1>2. f \in Positions /\ f >= k /\ line[f] \in C /\
        \A m \in Positions : k <= m /\ m < f => line[m] \notin C
  BY <1>1
<1>3. /\ First(C, k) \in Positions /\ First(C, k) >= k /\ line[First(C, k)] \in C
      /\ \A m \in Positions : k <= m /\ m < First(C, k) => line[m] \notin C
  BY <1>2 DEF First
<1> QED BY <1>3

LEMMA FirstNotFound ==
  ASSUME NEW C, NEW k \in Positions, NEW n \in Positions, k <= n, line[n] \notin C
  PROVE  /\ FirstNot(C, k) \in Positions /\ k <= FirstNot(C, k) /\ FirstNot(C, k) <= n
         /\ line[FirstNot(C, k)] \notin C
         /\ \A m \in Positions : k <= m /\ m < FirstNot(C, k) => line[m] \in C
<1> USE ShellAssumption DEF Positions
<1> DEFINE T == { m \in Positions : k <= m /\ line[m] \notin C }
<1>1. PICK f \in T : \A m \in T : f <= m
  <2>1. n \in T /\ T \in SUBSET Nat
    OBVIOUS
  <2> QED BY <2>1, Least
<1>2. f \in Positions /\ f >= k /\ line[f] \notin C /\
        \A m \in Positions : k <= m /\ m < f => line[m] \in C
  BY <1>1
<1>3. /\ FirstNot(C, k) \in Positions /\ FirstNot(C, k) >= k /\ line[FirstNot(C, k)] \notin C
      /\ \A m \in Positions : k <= m /\ m < FirstNot(C, k) => line[m] \in C
  BY <1>2 DEF FirstNot
<1> QED BY <1>3

-----------------------------------------------------------------------------
(* What atoi computes is a number of 32 bits, whatever the string.         *)
LEMMA DigitRunFound ==
  ASSUME NEW s \in Seq(Char)
  PROVE  /\ DigitRun(s) \in 0 .. Len(s)
         /\ \A n \in 1 .. DigitRun(s) : s[n] \in DOMAIN DigitOf
<1> DEFINE T == { k \in 0 .. Len(s) : k < Len(s) => s[k + 1] \notin DOMAIN DigitOf }
<1>0. Len(s) \in Nat
  OBVIOUS
<1>1. PICK r \in T : \A m \in T : r <= m
  <2>1. Len(s) \in T /\ T \in SUBSET Nat
    BY <1>0
  <2> QED BY <2>1, Least
<1>2. ASSUME NEW n \in 1 .. r PROVE s[n] \in DOMAIN DigitOf
  <2>1. r \in 0 .. Len(s)
    BY <1>1
  <2>2. n - 1 \in 0 .. Len(s) /\ n - 1 < r /\ n - 1 < Len(s) /\ (n - 1) + 1 = n
    BY <1>0, <2>1
  <2>3. n - 1 \notin T
    <3>1. ~ (r <= n - 1)
      BY <2>1, <2>2
    <3> HIDE DEF T
    <3> QED BY <1>1, <3>1
  <2> QED BY <2>2, <2>3
<1>3. \E k \in 0 .. Len(s) : /\ \A n \in 1 .. k : s[n] \in DOMAIN DigitOf
                             /\ k < Len(s) => s[k + 1] \notin DOMAIN DigitOf
  BY <1>1, <1>2
<1> QED BY <1>3 DEF DigitRun

LEMMA DigitsWord ==
  ASSUME NEW s \in Seq(Char)
  PROVE  Digits(s) \in 0 .. WordLimit - 1
<1> DEFINE r == DigitRun(s)
           Step1(v, k) == (10 * v + DigitOf[s[k]]) % WordLimit
           IsValue(f, n) == f = [k \in 0 .. n |-> IF k = 0 THEN 0 ELSE Step1(f[k - 1], k)]
           Word == 0 .. WordLimit - 1
           S == { n \in Nat : n <= r => \E f \in [0 .. n -> Word] : IsValue(f, n) }
<1>1. r \in Nat /\ r <= Len(s) /\ \A n \in 1 .. r : s[n] \in DOMAIN DigitOf
  BY DigitRunFound
<1>2. ASSUME NEW v \in Word, NEW k \in 1 .. r PROVE Step1(v, k) \in Word
  <2>1. DigitOf[s[k]] \in 0 .. 9
    BY <1>1, ShellAssumption
  <2>2. ASSUME NEW d \in 0 .. 9 PROVE (10 * v + d) % WordLimit \in Word
    BY ShellAssumption
  <2> HIDE DEF Word
  <2> QED BY <2>1, <2>2
<1> HIDE DEF r, Step1, Word
<1>3. 0 \in S
  <2> DEFINE f == [k \in 0 .. 0 |-> 0]
  <2>1. f \in [0 .. 0 -> Word] /\ IsValue(f, 0)
    BY ShellAssumption DEF Word
  <2> QED BY <2>1
<1>4. ASSUME NEW n \in S PROVE n + 1 \in S
  <2>0. n \in Nat
    OBVIOUS
  <2>1. SUFFICES ASSUME n + 1 <= r PROVE \E f \in [0 .. n + 1 -> Word] : IsValue(f, n + 1)
    <3> HIDE DEF IsValue
    <3> QED BY <2>0
  <2>2. PICK f \in [0 .. n -> Word] : IsValue(f, n)
    <3>1. n <= r
      BY <1>1, <2>0, <2>1
    <3> HIDE DEF IsValue
    <3> QED BY <3>1
  <2> DEFINE g == [k \in 0 .. n + 1 |-> IF k = n + 1 THEN Step1(f[n], n + 1) ELSE f[k]]
  <2>3. Step1(f[n], n + 1) \in Word
    <3>1. f[n] \in Word /\ n + 1 \in 1 .. r
      BY <1>1, <2>0, <2>1, <2>2
    <3> QED BY <1>2, <3>1
  <2>4. g \in [0 .. n + 1 -> Word]
    BY <2>3
  <2>5. \A k \in 0 .. n + 1 : g[k] = IF k = 0 THEN 0 ELSE Step1(g[k - 1], k)
    <3> TAKE k \in 0 .. n + 1
    <3>1. CASE k = n + 1
      <4>1. k # 0 /\ k - 1 = n /\ g[k] = Step1(f[n], n + 1) /\ g[n] = f[n]
        BY <3>1
      <4> QED BY <3>1, <4>1
    <3>2. CASE k \in 1 .. n
      <4>1. g[k] = f[k] /\ g[k - 1] = f[k - 1]
        BY <3>2
      <4>2. f[k] = Step1(f[k - 1], k)
        BY <2>2, <3>2
      <4> QED BY <4>1, <4>2, <3>2
    <3>3. CASE k = 0
      BY <2>2, <3>3
    <3> QED BY <3>1, <3>2, <3>3
  <2>6. IsValue(g, n + 1)
    BY <2>5
  <2> QED BY <2>4, <2>6
<1>5. S = Nat
  <2> HIDE DEF S
  <2>1. S \in SUBSET Nat
    BY DEF S
  <2> QED BY <1>3, <1>4, <2>1, SetInduction
<1>6. PICK f \in [0 .. r -> Word] : IsValue(f, r)
  <2> HIDE DEF IsValue, S
  <2>1. r \in S /\ r <= r
    BY <1>1, <1>5
  <2> QED BY <2>1 DEF S
<1> DEFINE v == CHOOSE w : IsValue(w, r)
<1>7. IsValue(v, r)
  BY <1>6, Zenon
<1>8. Digits(s) = v[r]
  BY DEF Digits, r, Step1
<1> HIDE DEF v
<1> DEFINE U == { n \in Nat : n <= r => v[n] \in Word }
<1>9. 0 \in U
  BY <1>1, <1>7, ShellAssumption DEF Word
<1>10. ASSUME NEW n \in U PROVE n + 1 \in U
  <2>1. SUFFICES ASSUME n + 1 <= r PROVE v[n + 1] \in Word
    OBVIOUS
  <2>2. v[n] \in Word /\ v[n + 1] = Step1(v[n], n + 1)
    BY <1>1, <1>7, <2>1
  <2>3. n + 1 \in 1 .. r
    BY <1>1, <2>1
  <2> QED BY <1>2, <2>2, <2>3
<1>11. U = Nat
  <2> HIDE DEF U
  <2>1. U \in SUBSET Nat
    BY DEF U
  <2> QED BY <1>9, <1>10, <2>1, SetInduction
<1> QED BY <1>1, <1>8, <1>11 DEF Word

LEMMA AtoiWord ==
  ASSUME NEW s \in Seq(Char), s # <<>>
  PROVE  atoi(s) \in 0 .. WordLimit - 1
<1>1. Tail(s) \in Seq(Char)
  OBVIOUS
<1>2. Digits(s) \in 0 .. WordLimit - 1 /\ Digits(Tail(s)) \in 0 .. WordLimit - 1
  BY <1>1, DigitsWord
<1>3. (WordLimit - Digits(Tail(s))) % WordLimit \in 0 .. WordLimit - 1
  BY <1>2, ShellAssumption
<1> QED BY <1>2, <1>3 DEF atoi

-----------------------------------------------------------------------------
(* Every argument is the word of the typed line where it points.           *)
LEMMA EndIsFirst ==
  ASSUME ShellTypes, NEW a \in 0 .. Len(typed), NEW e \in 0 .. Len(typed), EndsAt(line, typed, a, e)
  PROVE  First({NUL}, a) = e
<1>0. /\ Len(typed) \in Nat /\ Len(typed) < MAX_LINE
      /\ a \in Positions /\ e \in Positions /\ a < e
  BY ShellAssumption DEF ShellTypes, EndsAt, Positions
<1>1. line[e] \in {NUL}
  BY DEF EndsAt
<1> DEFINE f == First({NUL}, a)
<1>2. f \in Positions /\ a <= f /\ f <= e /\ line[f] = NUL
  BY <1>0, <1>1, FirstFound
<1> HIDE DEF f
<1>3. ASSUME f < e PROVE FALSE
  <2>1. f \in a .. e - 1 /\ f + 1 \in 1 .. Len(typed)
    BY <1>0, <1>2, <1>3 DEF Positions
  <2>2. line[f] = typed[f + 1]
    BY <2>1 DEF EndsAt
  <2>3. typed[f + 1] # NUL
    BY <2>1 DEF ShellTypes
  <2> QED BY <1>2, <2>2, <2>3
<1> QED BY <1>0, <1>2, <1>3 DEF Positions, f

LEMMA ArgIsWord ==
  ASSUME ShellTypes, NEW a \in 0 .. Len(typed), NEW e \in 0 .. Len(typed), EndsAt(line, typed, a, e)
  PROVE  /\ StringAt(a) \in Seq(Char) /\ StringAt(a) # <<>>
         /\ IsWord(StringAt(a), a + 1)
<1> DEFINE n == e - a
           w == [k \in 1 .. n |-> line[a + k - 1]]
<1>0. Len(typed) \in Nat /\ a \in Nat /\ e \in Nat /\ a < e /\ e <= Len(typed)
  BY DEF ShellTypes, EndsAt
<1>1. n \in Nat \ {0}
  BY <1>0
<1>2. StringAt(a) = w
  BY EndIsFirst DEF StringAt
<1>3. ASSUME NEW k \in 1 .. n
      PROVE  /\ w[k] = typed[a + k] /\ typed[a + k] # Blank
             /\ typed[a + k] \in Char
  <2>1. a + k - 1 \in a .. e - 1 /\ a + k - 1 + 1 = a + k /\ a + k \in 1 .. Len(typed)
    BY <1>0
  <2>2. line[a + k - 1] = typed[a + k] /\ typed[a + k] # Blank
    BY <2>1 DEF EndsAt
  <2> QED BY <2>1, <2>2 DEF ShellTypes
<1>4. w \in Seq(Char) /\ Len(w) = n /\ w # <<>>
  <2>1. w \in [1 .. n -> Char]
    BY <1>3
  <2> HIDE DEF w, n
  <2> QED BY <1>1, <2>1
<1>5. a + 1 + Len(w) - 1 = e /\ a + 1 + Len(w) = e + 1
  BY <1>0, <1>4
<1>6. w = SubSeq(typed, a + 1, e)
  <2> DEFINE t == SubSeq(typed, a + 1, e)
  <2>1. t \in Seq(Char) /\ Len(t) = n /\ \A k \in 1 .. n : t[k] = typed[a + k]
    <3>1. typed \in Seq(Char) /\ a + 1 \in 1 .. Len(typed) + 1 /\ e \in a + 1 - 1 .. Len(typed)
      BY <1>0 DEF ShellTypes
    <3> QED BY <1>0, <3>1, SubSeqProperties
  <2>2. \A k \in 1 .. n : w[k] = t[k]
    BY <1>3, <2>1
  <2>3. w = t
    <3> HIDE DEF w, t, n
    <3> QED BY <1>4, <2>1, <2>2, SeqEqual
  <2> QED BY <2>3
<1>7. \A k \in DOMAIN w : w[k] # Blank
  BY <1>3
<1>8. e + 1 <= Len(typed) => typed[e + 1] = Blank
  BY <1>0 DEF EndsAt
<1> HIDE DEF w, n
<1>9. IsWord(w, a + 1)
  BY <1>0, <1>5, <1>6, <1>7, <1>8 DEF IsWord
<1> QED BY <1>2, <1>4, <1>9

LEMMA ArgWord ==
  ASSUME ShellTypes, WordsBehind, NEW n \in DOMAIN args
  PROVE  /\ Arg(n) \in Seq(Char) /\ Arg(n) # <<>>
         /\ IsWord(Arg(n), args[n] + 1)
<1>1. PICK e \in 0 .. p : EndsAt(line, typed, args[n], e)
  BY DEF WordsBehind
<1>2. args[n] \in 0 .. Len(typed) /\ e \in 0 .. Len(typed)
  BY DEF ShellTypes
<1> QED BY <1>1, <1>2, ArgIsWord DEF Arg

(* The arguments are the words when the command runs.                      *)
LEMMA TokensGiveWords ==
  ASSUME ShellTypes, Tokens
  PROVE  ArgsAreWords
<1> SUFFICES ASSUME pc = "run"
             PROVE  /\ Len(args) < MAX_ARGS
                    /\ \A n \in DOMAIN args : args[n] + 1 \in Starts /\ IsWord(Arg(n), args[n] + 1)
                    /\ \A m, n \in DOMAIN args : m < n => args[m] < args[n]
                    /\ \A k \in Starts : (\E n \in DOMAIN args : args[n] + 1 = k)
                                         \/ (Len(args) = MAX_ARGS - 1 /\ k > args[Len(args)] + 1)
  BY DEF ArgsAreWords
<1>1. LineAhead /\ WordsBehind /\ Tokenised
  BY DEF Tokens
<1>2. ASSUME NEW n \in DOMAIN args
      PROVE  args[n] + 1 \in Starts /\ IsWord(Arg(n), args[n] + 1)
  BY <1>1, ArgWord DEF WordsBehind
<1>3. ASSUME NEW k \in Starts
      PROVE  (\E n \in DOMAIN args : args[n] + 1 = k)
             \/ (Len(args) = MAX_ARGS - 1 /\ k > args[Len(args)] + 1)
  <2>0. /\ k \in 1 .. Len(typed) /\ p \in 0 .. Len(typed) /\ Len(typed) \in Nat
        /\ Len(args) \in Nat \ {0} /\ Len(args) \in DOMAIN args
        /\ args[Len(args)] \in Nat /\ args[Len(args)] < p
    BY <1>1 DEF ShellTypes, Starts, Tokenised, WordsBehind
  <2>1. CASE k <= p
    BY <1>1, <2>1 DEF WordsBehind
  <2>2. CASE k > p
    <3>1. line[p] # NUL
      <4>1. p \in 0 .. Len(typed) - 1 /\ p + 1 \in DOMAIN typed
        BY <2>0, <2>2 DEF ShellTypes
      <4>2. line[p] = typed[p + 1]
        BY <1>1, <2>0, <4>1 DEF LineAhead
      <4> QED BY <4>1, <4>2 DEF ShellTypes
    <3>2. Len(args) = MAX_ARGS - 1
      BY <1>1, <2>0, <3>1, ShellAssumption DEF Tokenised, MoreArgs, WordsBehind
    <3> QED BY <2>0, <2>2, <3>2
  <2> QED BY <2>0, <2>1, <2>2
<1> QED BY <1>1, <1>2, <1>3 DEF WordsBehind

-----------------------------------------------------------------------------
(* One turn of the tokeniser's loop finds the next word, or only blanks.   *)
LEMMA TokeniseTokens ==
  ASSUME ShellInv, Tokenise
  PROVE  ShellTypes' /\ Tokens'
<1> DEFINE n == Len(typed)
           start == FirstNot({Blank}, p)
           e == First({Blank, NUL}, start)
<1>0. /\ MAX_LINE \in Nat /\ MAX_ARGS \in Nat
      /\ n \in Nat /\ n < MAX_LINE /\ typed \in Seq(Char)
      /\ \A k \in 1 .. n : typed[k] # NUL
      /\ line \in [Positions -> Char] /\ p \in 0 .. n
      /\ pc = "tokenise" /\ line[n] = NUL
      /\ \A k \in 0 .. n - 1 : p <= k => line[k] = typed[k + 1]
      /\ 0 < p /\ p < n => typed[p] = Blank
      /\ args \in Seq(0 .. n)
      /\ WordsBehind
  BY ShellAssumption DEF ShellInv, ShellTypes, Tokens, LineAhead, Tokenise
<1>1. p \in Positions /\ n \in Positions /\ line[n] \notin {Blank}
  <2>1. NUL \notin {Blank}
    BY DEF NUL, Blank
  <2> HIDE DEF n
  <2> QED BY <1>0, <2>1 DEF Positions
<1>2. /\ start \in p .. n /\ line[start] # Blank
      /\ \A k \in p .. start - 1 : line[k] = Blank
  <2>1. /\ start \in Positions /\ p <= start /\ start <= n /\ line[start] \notin {Blank}
        /\ \A k \in Positions : p <= k /\ k < start => line[k] \in {Blank}
    BY <1>0, <1>1, FirstNotFound
  <2> HIDE DEF start
  <2> QED BY <1>0, <2>1 DEF Positions
<1>3. /\ typed' = typed /\ pc' = pc /\ timer_ticks' = timer_ticks /\ ticked' \in BOOLEAN
      /\ asked' = asked /\ began' = began /\ elapsed' = elapsed
      /\ Starts' = Starts
  BY DEF Tokenise, Starts
<1>4. \A k \in p .. start - 1 : typed[k + 1] = Blank /\ k + 1 \notin Starts
  <2> HIDE DEF start
  <2> TAKE k \in p .. start - 1
  <2>1. k \in 0 .. n - 1 /\ p <= k /\ k + 1 \in Nat
    <3> HIDE DEF n
    <3> QED BY <1>0, <1>2
  <2>2. line[k] = typed[k + 1] /\ line[k] = Blank
    BY <1>0, <1>2, <2>1
  <2> QED BY <2>2 DEF Starts
<1>t. SUFFICES /\ line' \in [Positions -> Char] /\ p' \in 0 .. n /\ args' \in Seq(0 .. n)
               /\ LineAhead' /\ WordsBehind'
  BY <1>0, <1>3 DEF ShellInv, ShellTypes, Tokens
<1>5. CASE line[start] = NUL
  <2>1. p' = start /\ line' = line /\ args' = args
    BY <1>5 DEF Tokenise
  <2> HIDE DEF start
  <2>2. start = n
    <3>1. ASSUME start < n PROVE FALSE
      <4>1. start \in 0 .. n - 1 /\ p <= start /\ start + 1 \in 1 .. n
        <5> HIDE DEF n
        <5> QED BY <1>0, <1>2, <3>1
      <4> QED BY <1>0, <1>5, <4>1
    <3> HIDE DEF n
    <3> QED BY <1>0, <1>2, <3>1
  <2>3. LineAhead'
    BY <1>0, <1>3, <2>1, <2>2 DEF LineAhead
  <2>4. ASSUME NEW m \in DOMAIN args
        PROVE  args[m] < p' /\ \E f \in 0 .. p' : EndsAt(line', typed', args[m], f)
    <3>1. PICK f \in 0 .. p : EndsAt(line, typed, args[m], f)
      BY <1>0 DEF WordsBehind
    <3>2. args[m] < p /\ args[m] \in 0 .. n
      BY <1>0 DEF WordsBehind
    <3>3. EndsAt(line', typed', args[m], f) /\ f \in 0 .. p'
      BY <1>0, <1>2, <1>3, <2>1, <3>1 DEF EndsAt
    <3> QED BY <1>0, <1>2, <2>1, <3>2, <3>3
  <2>5. ASSUME NEW k \in Starts, k <= p' PROVE \E m \in DOMAIN args : args[m] + 1 = k
    <3>1. k \in 1 .. n
      BY DEF Starts
    <3>2. k - 1 \notin p .. start - 1
      BY <1>4, <3>1
    <3>3. k <= p
      BY <1>0, <1>2, <2>1, <2>5, <3>1, <3>2
    <3> QED BY <1>0, <3>3 DEF WordsBehind
  <2>6. WordsBehind'
    BY <1>0, <1>3, <2>1, <2>4, <2>5 DEF WordsBehind
  <2> QED BY <1>0, <1>2, <2>1, <2>3, <2>6
<1>6. CASE line[start] # NUL
  <2>0. args' = Append(args, start) /\ Cut(e) /\ Len(args) < MAX_ARGS - 1
    BY <1>6 DEF Tokenise, MoreArgs
  <2>1. start \in 0 .. n - 1 /\ start \in Positions
    BY <1>0, <1>2, <1>6 DEF Positions
  <2> HIDE DEF start
  <2>2. /\ e \in start + 1 .. n /\ line[e] \in {Blank, NUL}
        /\ \A k \in start .. e - 1 : line[k] \notin {Blank, NUL}
    <3>1. /\ e \in Positions /\ start <= e /\ e <= n /\ line[e] \in {Blank, NUL}
          /\ \A k \in Positions : start <= k /\ k < e => line[k] \notin {Blank, NUL}
      BY <1>0, <1>1, <2>1, FirstFound
    <3>2. e # start
      BY <3>1, <1>2, <1>6
    <3> HIDE DEF e
    <3> QED BY <1>0, <2>1, <3>1, <3>2 DEF Positions
  <2> HIDE DEF e
  <2>3. \A k \in start .. e - 1 : line[k] = typed[k + 1] /\ typed[k + 1] # Blank
    BY <1>0, <1>2, <2>1, <2>2
  <2>4. start + 1 \in Starts
    <3>1. start + 1 \in 1 .. n /\ start \in start .. e - 1
      <4> HIDE DEF n
      <4> QED BY <1>0, <2>1, <2>2
    <3>2. typed[start + 1] # Blank
      BY <2>3, <3>1
    <3>3. ASSUME start + 1 > 1 PROVE typed[start + 1 - 1] = Blank
      <4> HIDE DEF n
      <4>1. start + 1 - 1 = start /\ start > 0
        BY <1>0, <2>1, <3>3
      <4>2. CASE start = p
        BY <1>0, <2>1, <4>1, <4>2
      <4>3. CASE start > p
        <5>1. start - 1 \in p .. start - 1 /\ start - 1 + 1 = start
          BY <1>0, <2>1, <4>3
        <5> QED BY <1>4, <4>1, <5>1
      <4> QED BY <1>0, <1>2, <4>2, <4>3
    <3> QED BY <3>1, <3>2, <3>3 DEF Starts
  <2>5. \A k \in start + 1 .. e - 1 : k + 1 \notin Starts
    <3> TAKE k \in start + 1 .. e - 1
    <3>1. k - 1 \in start .. e - 1 /\ k - 1 + 1 = k /\ k \in Nat /\ k > 0
      BY <1>0, <2>1, <2>2
    <3>2. typed[k] # Blank
      BY <2>3, <3>1
    <3> QED BY <3>1, <3>2 DEF Starts
  (* Where the word ends, what is left of the line.                        *)
  <2>6. /\ p' \in e .. n /\ line' \in [Positions -> Char] /\ line'[e] = NUL
        /\ \A k \in Positions : k # e => line'[k] = line[k]
        /\ e < n => typed[e + 1] = Blank /\ p' = e + 1
        /\ e = n => p' = n
    <3>1. CASE line[e] = NUL
      <4>1. e = n
        <5>1. ASSUME e < n PROVE FALSE
          <6>1. e \in 0 .. n - 1 /\ p <= e /\ e + 1 \in 1 .. n
            <7> HIDE DEF n
            <7> QED BY <1>0, <1>2, <2>1, <2>2, <5>1
          <6> QED BY <1>0, <3>1, <6>1
        <5> HIDE DEF n
        <5> QED BY <1>0, <2>1, <2>2, <5>1
      <4>2. p' = e /\ line' = line
        BY <2>0, <3>1 DEF Cut
      <4> QED BY <1>0, <3>1, <4>1, <4>2
    <3>2. CASE line[e] # NUL
      <4>1. e < n /\ line[e] = Blank
        BY <1>0, <2>1, <2>2, <3>2
      <4>2. p' = e + 1 /\ line' = [line EXCEPT ![e] = NUL]
        BY <2>0, <3>2 DEF Cut
      <4>3. typed[e + 1] = Blank
        <5>1. e \in 0 .. n - 1 /\ p <= e
          <6> HIDE DEF n
          <6> QED BY <1>0, <1>2, <2>1, <2>2, <4>1
        <5> QED BY <1>0, <4>1, <5>1
      <4>4. e \in Positions
        BY <1>0, <2>1, <2>2, <4>1 DEF Positions
      <4>5. line' \in [Positions -> Char] /\ line'[e] = NUL
            /\ \A k \in Positions : k # e => line'[k] = line[k]
        <5>1. line \in [Positions -> Char]
          BY <1>0
        <5>2. NUL \in Char
          BY DEF Char
        <5> QED BY <4>2, <4>4, <5>1, <5>2
      <4>6. p' \in e .. n /\ e # n
        <5> HIDE DEF n
        <5> QED BY <1>0, <2>1, <2>2, <4>1, <4>2
      <4> QED BY <4>2, <4>3, <4>5, <4>6
    <3> QED BY <3>1, <3>2
  <2>7. p <= start /\ start < e /\ e <= p' /\ p' <= n /\ e \in Nat /\ p' \in Nat /\ p \in Nat
        /\ start \in Nat /\ n \in Nat
    BY <1>0, <1>2, <2>1, <2>2, <2>6
  <2>8. LineAhead'
    <3>1. line'[n] = NUL
      BY <1>0, <1>1, <2>6
    <3>2. \A k \in 0 .. n - 1 : p' <= k => line'[k] = typed[k + 1]
      <4> TAKE k \in 0 .. n - 1
      <4> HAVE p' <= k
      <4>1. k \in Positions /\ p <= k /\ (k # e \/ e = n)
        <5> HIDE DEF n
        <5>1. k \in Nat /\ k < n /\ k < MAX_LINE
          BY <1>0
        <5>2. e < n => p' = e + 1
          BY <2>6
        <5>3. n \in Nat /\ MAX_LINE \in Nat
          BY <1>0
        <5> QED BY <2>7, <5>1, <5>2, <5>3 DEF Positions
      <4>2. k # e
        <5> HIDE DEF n
        <5> QED BY <1>0, <4>1
      <4> QED BY <1>0, <2>6, <4>1, <4>2
    <3>3. 0 < p' /\ p' < n => typed[p'] = Blank
      BY <1>0, <2>6, <2>7
    <3> QED BY <1>3, <3>1, <3>2, <3>3 DEF LineAhead
  <2>9. /\ args' \in Seq(0 .. n) /\ Len(args') = Len(args) + 1
        /\ \A m \in DOMAIN args : args'[m] = args[m]
        /\ args'[Len(args) + 1] = start
        /\ DOMAIN args' = 1 .. Len(args) + 1 /\ DOMAIN args = 1 .. Len(args) /\ Len(args) \in Nat
    <3>1. args \in Seq(0 .. n) /\ start \in 0 .. n
      BY <1>0, <2>1
    <3> HIDE DEF n
    <3> QED BY <2>0, <3>1
  <2>10. ASSUME NEW a \in 0 .. n, NEW f \in 0 .. p, EndsAt(line, typed, a, f)
         PROVE  EndsAt(line', typed', a, f)
    <3>1. f \in Positions /\ \A k \in a .. f - 1 : k \in Positions /\ k # e
      <4> HIDE DEF n
      <4>1. f <= p /\ f \in Nat /\ a \in Nat /\ f < MAX_LINE /\ f < e
        BY <1>0, <2>7
      <4> QED BY <1>0, <2>7, <4>1 DEF Positions
    <3>2. line'[f] = NUL
      BY <2>6, <2>10, <3>1 DEF EndsAt
    <3>3. \A k \in a .. f - 1 : line'[k] = line[k]
      BY <2>6, <3>1
    <3> QED BY <1>3, <2>10, <3>2, <3>3 DEF EndsAt
  <2>11. EndsAt(line', typed', start, e)
    <3>1. \A k \in start .. e - 1 : line'[k] = line[k]
      BY <1>0, <2>1, <2>6, <2>7 DEF Positions
    <3> QED BY <1>3, <2>3, <2>6, <2>7, <3>1 DEF EndsAt
  <2>12. ASSUME NEW m \in DOMAIN args'
         PROVE  /\ args'[m] < p' /\ args'[m] + 1 \in Starts
                /\ \E f \in 0 .. p' : EndsAt(line', typed', args'[m], f)
    <3>1. CASE m = Len(args) + 1
      BY <2>1, <2>4, <2>7, <2>9, <2>11, <3>1
    <3>2. CASE m \in DOMAIN args
      <4>1. args'[m] = args[m] /\ args[m] \in 0 .. n /\ args[m] < p /\ args[m] + 1 \in Starts
        BY <1>0, <2>9, <3>2 DEF WordsBehind
      <4>2. PICK f \in 0 .. p : EndsAt(line, typed, args[m], f)
        BY <1>0, <3>2 DEF WordsBehind
      <4>3. EndsAt(line', typed', args[m], f) /\ f \in 0 .. p'
        <5>1. f \in 0 .. p'
          BY <2>7
        <5>2. EndsAt(line', typed', args[m], f)
          <6> HIDE DEF n
          <6> QED BY <2>10, <4>1, <4>2, Zenon
        <5> QED BY <5>1, <5>2
      <4> QED BY <2>7, <4>1, <4>3
    <3> QED BY <2>9, <3>1, <3>2
  <2>13. ASSUME NEW i \in DOMAIN args', NEW m \in DOMAIN args', i < m
         PROVE  args'[i] < args'[m]
    <3>1. i \in DOMAIN args /\ args'[i] = args[i] /\ args[i] < p /\ args[i] \in Nat
      BY <1>0, <2>9, <2>13 DEF WordsBehind
    <3>2. CASE m = Len(args) + 1
      BY <2>1, <2>7, <2>9, <3>1, <3>2
    <3>3. CASE m \in DOMAIN args
      BY <1>0, <2>9, <2>13, <3>1, <3>3 DEF WordsBehind
    <3> QED BY <2>9, <3>2, <3>3
  <2>14. ASSUME NEW k \in Starts, k <= p'
         PROVE  \E m \in DOMAIN args' : args'[m] + 1 = k
    <3>1. k \in 1 .. n /\ typed[k] # Blank
      BY DEF Starts
    <3>2. CASE k <= p
      <4>1. PICK m \in DOMAIN args : args[m] + 1 = k
        BY <1>0, <3>2 DEF WordsBehind
      <4> QED BY <2>9, <4>1
    <3>3. CASE k = start + 1
      BY <2>9, <3>3
    <3>4. CASE p < k /\ k # start + 1
      <4>1. k - 1 \in Nat /\ k - 1 + 1 = k /\ k - 1 \notin p .. start - 1
        BY <1>4, <3>1
      <4>2. k - 1 \notin start + 1 .. e - 1
        BY <2>5, <4>1
      <4>3. k > e
        BY <2>1, <2>7, <3>1, <3>4, <4>1, <4>2
      <4>4. k = e + 1 /\ e < n
        BY <1>0, <2>6, <2>7, <2>14, <3>1, <4>3
      <4> QED BY <2>6, <3>1, <4>4
    <3> QED BY <2>7, <3>1, <3>2, <3>3, <3>4
  <2>15. Len(args') < MAX_ARGS
    BY <1>0, <2>0, <2>9
  <2>16. WordsBehind'
    BY <1>3, <2>12, <2>13, <2>14, <2>15 DEF WordsBehind
  <2> QED BY <2>6, <2>7, <2>8, <2>9, <2>16
<1> QED BY <1>5, <1>6

-----------------------------------------------------------------------------
(* The arithmetic of a sleep that 32 bits hold.                            *)
LEMMA ModSmall ==
  ASSUME NEW x \in Nat, NEW w \in Nat \ {0}, x < w
  PROVE  x % w = x
OBVIOUS

LEMMA DivExact ==
  ASSUME NEW q \in Nat, NEW d \in Nat \ {0}
  PROVE  (d * q) \div d = q
<1>1. d * q \in Nat
  OBVIOUS
<1> DEFINE r == (d * q) \div d
           m == (d * q) % d
<1>2. r \in Int /\ m \in 0 .. d - 1 /\ d * q = d * r + m
  BY <1>1
<1> HIDE DEF r, m
<1>3. d * (q - r) = m
  BY <1>2
<1>4. ASSUME q - r >= 1 PROVE FALSE
  <2>1. d * (q - r) >= d
    BY <1>2, <1>4
  <2> QED BY <1>2, <1>3, <2>1
<1>5. ASSUME q - r <= -1 PROVE FALSE
  <2>1. d * (q - r) <= -d
    BY <1>2, <1>5
  <2> QED BY <1>2, <1>3, <2>1
<1>6. q = r
  BY <1>2, <1>4, <1>5
<1> QED BY <1>6 DEF r

LEMMA SleepTargetExact ==
  ASSUME NEW a \in Nat, timer_ticks \in 0 .. WordLimit - 1,
         a * PerSecond * timer_frequency < WordLimit,
         timer_ticks + a * timer_frequency < WordLimit - 1
  PROVE  SleepTarget(a) = timer_ticks + a * timer_frequency
<1> DEFINE ms == a * PerSecond
           due == a * timer_frequency
<1>1. /\ WordLimit \in Nat \ {0} /\ PerSecond \in Nat \ {0} /\ timer_frequency \in Nat \ {0}
      /\ timer_ticks \in Nat
  BY ShellAssumption
<1>2. ms \in Nat /\ due \in Nat /\ ms * timer_frequency \in Nat
  BY <1>1
<1>3. ms * timer_frequency = PerSecond * due
  BY <1>1
<1>4. ms <= ms * timer_frequency
  <2> HIDE DEF ms
  <2> QED BY <1>1, <1>2
<1>5. (a * PerSecond) % WordLimit = ms
  <2>1. ms < WordLimit
    <3> HIDE DEF ms
    <3> SUFFICES ms * timer_frequency < WordLimit
      BY <1>1, <1>2, <1>4
    <3> QED BY DEF ms
  <2> HIDE DEF ms
  <2>2. ms % WordLimit = ms
    BY <1>1, <1>2, <2>1, ModSmall
  <2> QED BY <2>2 DEF ms
<1>6. (ms * timer_frequency) % WordLimit = PerSecond * due
  BY <1>1, <1>2, <1>3, ModSmall
<1>7. (PerSecond * due) \div PerSecond = due
  <2> HIDE DEF due
  <2> QED BY <1>1, <1>2, DivExact
<1>8. (timer_ticks + due) % WordLimit = timer_ticks + due
  <2>1. timer_ticks + due \in Nat /\ timer_ticks + due < WordLimit
    BY <1>1, <1>2
  <2> HIDE DEF due
  <2> QED BY <1>1, <2>1, ModSmall
<1> QED BY <1>5, <1>6, <1>7, <1>8 DEF SleepTarget

-----------------------------------------------------------------------------
LEMMA InitInv ==
  ASSUME Init PROVE ShellInv
<1>1. MAX_LINE \in Nat \ {0} /\ WordLimit \in Nat \ {0}
  BY ShellAssumption
<1>2. line \in [Positions -> Char]
  BY DEF Init, Char
<1>3. ShellTypes
  <2>1. typed = <<>> /\ Len(typed) = 0 /\ DOMAIN typed = {} /\ typed \in Seq(Char)
    BY DEF Init
  <2>2. p \in 0 .. Len(typed) /\ args \in Seq(0 .. Len(typed)) /\ Len(typed) < MAX_LINE
    BY <1>1, <2>1 DEF Init
  <2>3. /\ timer_ticks \in 0 .. WordLimit - 1 /\ asked \in Nat
        /\ began \in 0 .. WordLimit - 1 /\ elapsed \in 0 .. WordLimit
    BY <1>1 DEF Init
  <2>4. ticked \in BOOLEAN /\ pc = "prompt"
    BY DEF Init
  <2> QED BY <1>2, <2>1, <2>2, <2>3, <2>4 DEF ShellTypes
<1>4. Tokens /\ SleepSoFar
  BY DEF Init, Tokens, SleepSoFar
<1> QED BY <1>3, <1>4 DEF ShellInv

LEMMA GetlineInv ==
  ASSUME ShellInv, NEW s \in Inputs, Getline(s) PROVE ShellInv'
<1>1. /\ MAX_LINE \in Nat \ {0} /\ MAX_ARGS \in Nat \ {0}
      /\ Len(s) \in 1 .. MAX_LINE - 1 /\ \A k \in DOMAIN s : s[k] # NUL
      /\ s \in Seq(STRING)
  BY ShellAssumption
<1>2. s \in Seq(Char) /\ \A k \in 1 .. Len(s) : s[k] \in Char
  BY <1>1 DEF Char
<1>3. /\ typed' = s /\ p' = 0 /\ args' = <<>> /\ pc' = "tokenise" /\ ticked' = FALSE
      /\ UNCHANGED <<timer_ticks, asked, began, elapsed>>
      /\ line' = [k \in Positions |-> IF k < Len(s) THEN s[k + 1]
                                     ELSE IF k = Len(s) THEN NUL ELSE line[k]]
  BY DEF Getline
<1>4. line' \in [Positions -> Char]
  <2>1. ASSUME NEW k \in Positions
        PROVE  (IF k < Len(s) THEN s[k + 1] ELSE IF k = Len(s) THEN NUL ELSE line[k]) \in Char
    <3>1. line[k] \in Char /\ NUL \in Char
      BY DEF ShellInv, ShellTypes, Char
    <3>2. k < Len(s) => k + 1 \in 1 .. Len(s)
      BY <1>1 DEF Positions
    <3> QED BY <1>2, <3>1, <3>2
  <2> QED BY <1>3, <2>1
<1>5. ShellTypes'
  <2>1. p' \in 0 .. Len(s) /\ args' \in Seq(0 .. Len(s)) /\ Len(s) < MAX_LINE
    BY <1>1, <1>3
  <2> QED BY <1>1, <1>2, <1>3, <1>4, <2>1 DEF ShellInv, ShellTypes
<1>6. LineAhead'
  <2>1. \A k \in 0 .. Len(s) : k \in Positions
    BY <1>1 DEF Positions
  <2>2. line'[Len(s)] = NUL /\ \A k \in 0 .. Len(s) - 1 : line'[k] = s[k + 1]
    BY <1>1, <1>3, <2>1
  <2> QED BY <1>1, <1>3, <2>2 DEF LineAhead
<1>7. WordsBehind'
  <2>1. \A k \in Starts' : k > 0
    BY <1>1, <1>3 DEF Starts
  <2>2. Len(args') < MAX_ARGS /\ DOMAIN args' = {}
    BY <1>1, <1>3
  <2>3. \A k \in Starts' : ~ (k <= p')
    BY <1>1, <1>3 DEF Starts
  <2> QED BY <2>2, <2>3 DEF WordsBehind
<1>8. Tokens' /\ SleepSoFar'
  BY <1>3, <1>6, <1>7 DEF Tokens, SleepSoFar
<1> QED BY <1>5, <1>8 DEF ShellInv

(* shell_execute has returned.                                             *)
LEMMA ReturnInv ==
  ASSUME ShellInv, Return, pc' \in {"prompt", "terminated", "reset"},
         ticked' \in BOOLEAN, timer_ticks' \in 0 .. WordLimit - 1
  PROVE  ShellInv'
<1>1. WordLimit \in Nat \ {0} /\ MAX_LINE \in Nat \ {0}
  BY ShellAssumption
<1>2. ShellTypes'
  BY <1>1 DEF ShellInv, ShellTypes, Return
<1>3. Tokens' /\ SleepSoFar'
  BY DEF Tokens, SleepSoFar
<1> QED BY <1>2, <1>3 DEF ShellInv

(* A step that leaves the line, the arguments and the sleep alone.         *)
LEMMA ShellKept ==
  ASSUME ShellInv, UNCHANGED shell, UNCHANGED <<asked, began>>,
         ticked' \in BOOLEAN, timer_ticks' \in 0 .. WordLimit - 1,
         elapsed' \in 0 .. WordLimit,
         pc' = pc \/ pc' \in {"test", "hlt", "halted"}
  PROVE  ShellTypes' /\ Tokens'
<1>1. ShellTypes'
  BY DEF ShellInv, ShellTypes, shell
<1>2. Starts' = Starts /\ (MoreArgs' <=> MoreArgs)
  BY DEF Starts, MoreArgs, shell
<1>3. (LineAhead' <=> LineAhead) /\ (WordsBehind' <=> WordsBehind) /\ (Tokenised' <=> Tokenised)
  BY <1>2 DEF LineAhead, WordsBehind, Tokenised, shell
<1>4. Tokens'
  BY <1>3 DEF ShellInv, Tokens
<1> QED BY <1>1, <1>4

LEMMA RunInv ==
  ASSUME ShellInv, Run PROVE ShellInv'
<1>0. /\ pc = "run" /\ ticked' = FALSE /\ timer_ticks' = timer_ticks
      /\ timer_ticks \in 0 .. WordLimit - 1
  BY DEF Run, ShellInv, ShellTypes
<1>w. WordLimit \in Nat \ {0}
  BY ShellAssumption
<1>1. CASE Sleeps(Command)
  <2> DEFINE a == atoi(Arg(2))
  <2>1. /\ pc' = "test" /\ target' = SleepTarget(a) /\ asked' = a
        /\ began' = timer_ticks /\ elapsed' = 0 /\ UNCHANGED shell
    BY <1>1 DEF Run
  <2>2. a \in 0 .. WordLimit - 1
    <3>1. Len(args) - 1 >= 1
      <4>1. Command = "sleep" /\ ~ Missing("sleep")
        BY <1>1 DEF Sleeps
      <4>2. Operands("sleep") = 1
        BY DEF Operands
      <4>3. Len(args) \in Nat
        BY DEF ShellInv, ShellTypes
      <4> QED BY <4>1, <4>2, <4>3 DEF Missing
    <3>2. args \in Seq(0 .. Len(typed))
      BY DEF ShellInv, ShellTypes
    <3>3. 2 \in DOMAIN args
      BY <3>1, <3>2
    <3>4. ShellTypes /\ WordsBehind
      BY <1>0 DEF ShellInv, Tokens
    <3>5. Arg(2) \in Seq(Char) /\ Arg(2) # <<>>
      BY <3>3, <3>4, ArgWord
    <3> QED BY <3>5, AtoiWord
  <2> HIDE DEF a
  <2>3. ShellTypes'
    <3>1. /\ a \in Nat /\ elapsed' \in 0 .. WordLimit
      BY <1>w, <2>1, <2>2
    <3> QED BY <1>0, <2>1, <3>1 DEF ShellInv, ShellTypes, shell
  <2>4. Tokens'
    BY <2>1 DEF Tokens
  <2>5. SleepSoFar'
    <3> SUFFICES ASSUME Fits'
                 PROVE  /\ target' = began' + Due' /\ timer_ticks' = began' + elapsed'
                        /\ elapsed' <= Due'
      BY <1>0, <2>1 DEF SleepSoFar
    <3>1. /\ a * PerSecond * timer_frequency < WordLimit
          /\ timer_ticks + a * timer_frequency < WordLimit - 1
          /\ Due' = a * timer_frequency
      BY <2>1 DEF Fits, Due
    <3>2. a \in Nat /\ a * timer_frequency \in Nat /\ timer_ticks \in Nat
      BY <1>0, <2>2, ShellAssumption
    <3>3. SleepTarget(a) = timer_ticks + a * timer_frequency
      BY <1>0, <3>1, <3>2, SleepTargetExact
    <3> QED BY <1>0, <2>1, <3>1, <3>2, <3>3
  <2> QED BY <2>3, <2>4, <2>5 DEF ShellInv
<1>2. CASE ~ Sleeps(Command)
  <2>1. Return /\ pc' \in {"prompt", "terminated", "reset"}
    BY <1>2 DEF Run
  <2> QED BY <1>0, <2>1, ReturnInv
<1> QED BY <1>1, <1>2

(* What the loop of timer_sleep and the interrupts change of a sleep.      *)
LEMMA SleepStep ==
  ASSUME ShellInv, pc \in {"test", "hlt", "halted"}, UNCHANGED <<target, asked, began>>,
         Fits' => /\ pc' \in {"test", "hlt", "halted"} => timer_ticks' = began + elapsed'
                  /\ pc' = "test" /\ ~ticked' => elapsed' <= Due
                  /\ pc' = "test" /\ ticked' => elapsed' <= Due + 1
                  /\ pc' = "hlt" /\ ~ticked' => elapsed' < Due
                  /\ pc' = "hlt" /\ ticked' => elapsed' <= Due
                  /\ pc' = "halted" => ~ticked' /\ elapsed' <= Due
  PROVE  SleepSoFar'
<1>1. Due' = Due /\ (Fits' <=> Fits)
  BY DEF Due, Fits
<1>2. Fits => target' = began' + Due'
  BY <1>1 DEF ShellInv, SleepSoFar
<1> QED BY <1>1, <1>2 DEF SleepSoFar

LEMMA DueNat ==
  ASSUME ShellTypes PROVE Due \in Nat
BY ShellAssumption DEF ShellTypes, Due

LEMMA TestTicksInv ==
  ASSUME ShellInv, TestTicks PROVE ShellInv'
<1>0. /\ pc = "test" /\ ticked' = FALSE /\ timer_ticks' = timer_ticks
      /\ timer_ticks \in 0 .. WordLimit - 1 /\ elapsed \in 0 .. WordLimit
      /\ began \in 0 .. WordLimit - 1 /\ WordLimit \in Nat
  BY ShellAssumption DEF TestTicks, ShellInv, ShellTypes
<1>1. CASE timer_ticks < target
  <2>1. pc' = "hlt" /\ UNCHANGED <<shell, target, asked, began, elapsed>>
    BY <1>1 DEF TestTicks
  <2>2. ShellTypes' /\ Tokens'
    BY <1>0, <2>1, ShellKept
  <2>3. Due' = Due /\ (Fits' <=> Fits) /\ Due \in Nat
    BY <2>1, DueNat DEF Due, Fits, ShellInv
  <2>4. Fits => timer_ticks = began + elapsed /\ elapsed < Due
    <3> SUFFICES ASSUME Fits PROVE timer_ticks = began + elapsed /\ elapsed < Due
      OBVIOUS
    <3>1. target = began + Due /\ timer_ticks = began + elapsed
      BY <1>0 DEF ShellInv, SleepSoFar
    <3> QED BY <1>0, <1>1, <2>3, <3>1
  <2>5. SleepSoFar'
    BY <1>0, <2>1, <2>3, <2>4, SleepStep
  <2> QED BY <2>2, <2>5 DEF ShellInv
<1>2. CASE ~ (timer_ticks < target)
  <2>1. pc' = "prompt" /\ Return
    BY <1>2 DEF TestTicks
  <2> QED BY <1>0, <2>1, ReturnInv
<1> QED BY <1>1, <1>2

LEMMA HltInv ==
  ASSUME ShellInv, Hlt PROVE ShellInv'
<1>0. /\ pc = "hlt" /\ pc' = "halted" /\ ticked' = FALSE
      /\ UNCHANGED <<shell, timer_ticks, target, asked, began, elapsed>>
      /\ timer_ticks \in 0 .. WordLimit - 1 /\ elapsed \in 0 .. WordLimit
      /\ ticked \in BOOLEAN
  BY DEF Hlt, ShellInv, ShellTypes
<1>1. ShellTypes' /\ Tokens'
  BY <1>0, ShellKept
<1>2. Due' = Due /\ (Fits' <=> Fits) /\ Due \in Nat
  BY <1>0, DueNat DEF Due, Fits, ShellInv
<1>3. Fits => timer_ticks = began + elapsed /\ elapsed <= Due
  <2> SUFFICES ASSUME Fits PROVE timer_ticks = began + elapsed /\ elapsed <= Due
    OBVIOUS
  <2>1. timer_ticks = began + elapsed /\ (elapsed < Due \/ elapsed <= Due)
    BY <1>0 DEF ShellInv, SleepSoFar
  <2> QED BY <1>0, <1>2, <2>1
<1>4. SleepSoFar'
  BY <1>0, <1>2, <1>3, SleepStep
<1> QED BY <1>1, <1>4 DEF ShellInv

LEMMA TickInv ==
  ASSUME ShellInv, Tick PROVE ShellInv'
<1>0. /\ timer_ticks \in 0 .. WordLimit - 1 /\ elapsed \in 0 .. WordLimit
      /\ began \in 0 .. WordLimit - 1 /\ WordLimit \in Nat \ {0} /\ ticked \in BOOLEAN
  BY ShellAssumption DEF ShellInv, ShellTypes
<1>1. /\ UNCHANGED <<shell, target, asked, began>>
      /\ timer_ticks' = (timer_ticks + 1) % WordLimit
      /\ pc' = pc \/ (pc = "halted" /\ pc' = "test")
      /\ ticked' = (pc \notin {"prompt", "terminated"})
      /\ ticked => pc \in {"prompt", "halted", "terminated"}
  BY DEF Tick, Woken, Waits
<1>2. elapsed' \in 0 .. WordLimit /\ timer_ticks' \in 0 .. WordLimit - 1
  BY <1>0, <1>1 DEF Tick
<1>3. ShellTypes' /\ Tokens'
  BY <1>1, <1>2, ShellKept
<1>4. SleepSoFar'
  <2>1. CASE pc \in {"test", "hlt", "halted"}
    <3>1. Due' = Due /\ (Fits' <=> Fits) /\ Due \in Nat
      BY <1>1, DueNat DEF Due, Fits, ShellInv
    <3>2. ASSUME Fits
          PROVE  /\ timer_ticks' = began + elapsed' /\ elapsed' <= Due + 1
                 /\ pc = "hlt" => elapsed' <= Due
      <4>1. /\ timer_ticks = began + elapsed /\ elapsed <= Due
            /\ pc = "hlt" => elapsed < Due
            /\ began + Due < WordLimit - 1
        <5>1. /\ timer_ticks = began + elapsed /\ began + Due < WordLimit - 1
              /\ pc = "test" => elapsed <= Due
              /\ pc = "hlt" => elapsed < Due
              /\ pc = "halted" => elapsed <= Due
          BY <1>1, <2>1, <3>2 DEF ShellInv, SleepSoFar, Fits
        <5> QED BY <1>0, <2>1, <3>1, <5>1
      <4>2. elapsed < WordLimit /\ timer_ticks + 1 \in Nat /\ timer_ticks + 1 < WordLimit
        BY <1>0, <3>1, <4>1
      <4>3. elapsed' = elapsed + 1
        BY <2>1, <4>2 DEF Tick
      <4>4. timer_ticks' = timer_ticks + 1
        BY <1>0, <1>1, <4>2, ModSmall
      <4> QED BY <1>0, <3>1, <4>1, <4>3, <4>4
    <3>3. ticked' = TRUE /\ pc' # "halted"
      BY <1>1, <2>1 DEF Tick, Woken
    <3> QED BY <1>1, <2>1, <3>1, <3>2, <3>3, SleepStep
  <2>2. CASE pc \notin {"test", "hlt", "halted"}
    BY <1>1, <2>2 DEF SleepSoFar
  <2> QED BY <2>1, <2>2
<1> QED BY <1>3, <1>4 DEF ShellInv

LEMMA KeyInv ==
  ASSUME ShellInv, KeyIRQ PROVE ShellInv'
<1>0. /\ pc = "halted" /\ pc' = "test" /\ UNCHANGED <<shell, target, asked, began>>
      /\ timer_ticks' = timer_ticks /\ elapsed' = elapsed /\ ticked' = ticked
      /\ timer_ticks \in 0 .. WordLimit - 1 /\ elapsed \in 0 .. WordLimit
      /\ ticked \in BOOLEAN
  BY DEF KeyIRQ, Woken, timer, ShellInv, ShellTypes
<1>1. ShellTypes' /\ Tokens'
  BY <1>0, ShellKept
<1>2. Due' = Due /\ (Fits' <=> Fits)
  BY <1>0 DEF Due, Fits
<1>3. Fits => timer_ticks = began + elapsed /\ elapsed <= Due /\ ~ticked
  BY <1>0 DEF ShellInv, SleepSoFar
<1>4. SleepSoFar'
  BY <1>0, <1>2, <1>3, SleepStep
<1> QED BY <1>1, <1>4 DEF ShellInv

LEMMA NextInv ==
  ASSUME ShellInv, [Next]_vars PROVE ShellInv'
<1>0. timer_ticks \in 0 .. WordLimit - 1 /\ 0 \in 0 .. WordLimit - 1
  BY ShellAssumption DEF ShellInv, ShellTypes
<1>1. ASSUME NEW s \in Inputs, Getline(s) PROVE ShellInv'
  BY <1>1, GetlineInv
<1>2. CASE Tokenise
  <2>1. ShellTypes' /\ Tokens'
    BY <1>2, TokeniseTokens
  <2>2. SleepSoFar'
    BY <1>2 DEF Tokenise, SleepSoFar
  <2> QED BY <2>1, <2>2 DEF ShellInv
<1>3. CASE EndTokenise
  <2>1. CASE args = <<>>
    <3>1. pc' = "prompt" /\ Return /\ ticked' = FALSE /\ timer_ticks' = timer_ticks
      BY <1>3, <2>1 DEF EndTokenise
    <3> QED BY <1>0, <3>1, ReturnInv
  <2>2. CASE args # <<>>
    <3>1. /\ pc = "tokenise" /\ pc' = "run" /\ ~MoreArgs /\ ticked' = FALSE
          /\ line' = line /\ p' = p /\ args' = args /\ typed' = typed
          /\ UNCHANGED <<timer_ticks, target, asked, began, elapsed>>
      BY <1>3, <2>2 DEF EndTokenise, shell
    <3>2. ShellTypes'
      BY <3>1 DEF ShellInv, ShellTypes
    <3>3. LineAhead' /\ WordsBehind'
      BY <3>1 DEF ShellInv, Tokens, LineAhead, WordsBehind, Starts
    <3>4. Tokenised'
      BY <2>2, <3>1 DEF Tokenised, MoreArgs
    <3>5. SleepSoFar'
      BY <3>1 DEF SleepSoFar
    <3> QED BY <3>2, <3>3, <3>4, <3>5 DEF ShellInv, Tokens
  <2> QED BY <2>1, <2>2
<1>4. CASE Run
  BY <1>4, RunInv
<1>5. CASE TestTicks
  BY <1>5, TestTicksInv
<1>6. CASE Hlt
  BY <1>6, HltInv
<1>7. CASE Tick
  BY <1>7, TickInv
<1>8. CASE KeyIRQ
  BY <1>8, KeyInv
<1>9. CASE Restart
  <2>1. Return /\ pc' = "prompt" /\ timer_ticks' = 0 /\ ticked' = FALSE
    BY <1>9 DEF Restart
  <2> QED BY <1>0, <2>1, ReturnInv
<1>10. CASE UNCHANGED vars
  <2>1. /\ UNCHANGED shell /\ pc' = pc /\ UNCHANGED <<target, asked, began>>
        /\ timer_ticks' = timer_ticks /\ elapsed' = elapsed /\ ticked' = ticked
    BY <1>10 DEF vars, timer
  <2>2. ShellTypes' /\ Tokens'
    BY <2>1, ShellKept DEF ShellInv, ShellTypes
  <2>3. SleepSoFar'
    BY <2>1 DEF ShellInv, SleepSoFar, Fits, Due
  <2> QED BY <2>2, <2>3 DEF ShellInv
<1> QED BY <1>1, <1>2, <1>3, <1>4, <1>5, <1>6, <1>7, <1>8, <1>9, <1>10 DEF Next, Step

-----------------------------------------------------------------------------
(* The inductive invariant: what the tokeniser has cut off are the words   *)
(* of the line so far, what is ahead of it is as it was typed, and a sleep *)
(* is as far as its place in the loop of timer_sleep says.                 *)
THEOREM ShellInvariant == Spec => []ShellInv
<1>1. Init => ShellInv
  BY InitInv
<1>2. ShellInv /\ [Next]_vars => ShellInv'
  BY NextInv
<1> QED BY <1>1, <1>2, PTL DEF Spec

(* The commands of shell.c see the words of the line, the first            *)
(* MAX_ARGS - 1 of them, whatever its length and its blanks.               *)
THEOREM ArgsAlwaysWords == Spec => []ArgsAreWords
<1>1. ShellInv => ArgsAreWords
  BY TokensGiveWords DEF ShellInv
<1> QED BY <1>1, ShellInvariant, PTL

(* A sleep of timer_sleep whose arithmetic 32 bits hold returns after the  *)
(* ticks asked for or one more, whatever the frequency and wherever the    *)
(* timer interrupts it.                                                    *)
THEOREM SleepAlwaysExact == Spec => SleepExact
<1>1. ASSUME ShellInv, [Next]_vars, pc = "test", pc' = "prompt", Fits
      PROVE  elapsed - Due \in {0, 1}
  <2>1. TestTicks /\ ~ (timer_ticks < target)
    <3>1. Next
      BY <1>1 DEF vars
    <3>2. TestTicks
      BY <1>1, <3>1 DEF Next, Step, Getline, Tokenise, EndTokenise, Run, Hlt, Tick, Woken, KeyIRQ, Restart
    <3> QED BY <1>1, <3>2 DEF TestTicks
  <2>2. /\ began \in Nat /\ elapsed \in Nat /\ Due \in Nat /\ ticked \in BOOLEAN
    BY <1>1, DueNat, ShellAssumption DEF ShellInv, ShellTypes
  <2>3. target = began + Due /\ timer_ticks = began + elapsed /\ (elapsed <= Due \/ elapsed <= Due + 1)
    BY <1>1, <2>2 DEF ShellInv, SleepSoFar
  <2> QED BY <2>1, <2>2, <2>3
<1> DEFINE Exact == LET due == asked * timer_frequency
                    IN  /\ pc = "test" /\ pc' = "prompt"
                        /\ asked * PerSecond * timer_frequency < WordLimit
                        /\ began + due < WordLimit - 1
                        => elapsed - due \in {0, 1}
<1>2. ShellInv /\ [Next]_vars => [Exact]_vars
  BY <1>1 DEF Fits, Due
<1>3. Spec => [][Exact]_vars
  BY <1>2, ShellInvariant, PTL DEF Spec
<1> QED BY <1>3 DEF SleepExact
=============================================================================
