--------------------------- MODULE SequenceProofs ---------------------------
(***************************************************************************)
(* Theorems about Protocols and about AuditLog, the two components whose   *)
(* state is in sequences, for any conversations, calls and bounds.         *)
(*                                                                         *)
(* First the conversations.  What their loops compute for a sequence of    *)
(* any length is proved by induction: a well-founded relation gives every  *)
(* set of numbers a least one, hence NatClosure and SeqClosure, which take *)
(* the set of what is good in the place of a predicate.                    *)
(***************************************************************************)
EXTENDS Protocols, AuditLog, WellFoundedInduction, SequenceTheorems,
        FiniteSetTheorems, TLAPS

UnifiedMessage == [role : {"system", "user", "assistant"}, text : Nat]

----------------------------------------------------------------------------
(***************************************************************************)
(* Induction, with a set in the place of the predicate: what holds of the  *)
(* empty sequence and is kept by Append holds of every sequence.           *)
(***************************************************************************)
LEMMA LeastNumber ==
    ASSUME NEW T, T \subseteq Nat, T # {}
    PROVE  \E x \in T : \A y \in T : ~(y < x)
<1>1. IsWellFoundedOn(OpToRel(<, Nat), Nat)
  BY NatLessThanWellFounded
<1>2. \E x \in T : \A y \in T : ~(<<y, x>> \in OpToRel(<, Nat))
  BY <1>1, WFMin, Zenon
<1> QED
  BY <1>2 DEF OpToRel

LEMMA NatClosure ==
    ASSUME NEW T, 0 \in T, \A n \in Nat : n \in T => n + 1 \in T
    PROVE  Nat \subseteq T
<1> SUFFICES ASSUME Nat \ T # {} PROVE FALSE
  OBVIOUS
<1>1. PICK x \in Nat \ T : \A y \in Nat \ T : ~(y < x)
  BY LeastNumber
<1>2. x # 0 /\ x - 1 \in Nat /\ x - 1 < x /\ (x - 1) + 1 = x
  BY <1>1
<1> QED
  BY <1>1, <1>2

LEMMA SeqClosure ==
    ASSUME NEW E, NEW T, <<>> \in T,
           \A s \in Seq(E), e \in E : s \in T => Append(s, e) \in T
    PROVE  Seq(E) \subseteq T
<1> DEFINE Lengths == {n \in Nat : \A s \in Seq(E) : Len(s) = n => s \in T}
<1>1. 0 \in Lengths
  <2>1. \A s \in Seq(E) : Len(s) = 0 => s = <<>>
    OBVIOUS
  <2> QED
    BY <2>1
<1>2. ASSUME NEW n \in Nat, n \in Lengths PROVE n + 1 \in Lengths
  <2> SUFFICES ASSUME NEW s \in Seq(E), Len(s) = n + 1 PROVE s \in T
    BY <1>2
  <2>1. s # <<>>
    BY <1>2
  <2>2. PICK front \in Seq(E), last \in E : s = Append(front, last) /\ Len(front) = n
    <3>1. /\ SubSeq(s, 1, n) \in Seq(E) /\ Len(SubSeq(s, 1, n)) = n
          /\ s[n + 1] \in E /\ s = Append(SubSeq(s, 1, n), s[n + 1])
      BY <1>2
    <3> QED
      BY <3>1
  <2> QED
    BY <1>2, <2>2
<1>3. Nat \subseteq Lengths
  <2> HIDE DEF Lengths
  <2> QED
    BY <1>1, <1>2, NatClosure
<1> QED
  BY <1>3

(***************************************************************************)
(* A loop over a sequence: f[n] is what it has made of the first n.  The   *)
(* function exists, and two that take the same steps agree.                *)
(***************************************************************************)
Iterates(f, V, base, step, s) ==
    /\ f[0] = base
    /\ \A n \in 1..Len(s) : f[n - 1] \in V => f[n] = step[<<f[n - 1], s[n]>>]

Agree(f, g, V, s) == f[Len(s)] = g[Len(s)] /\ f[Len(s)] \in V
Continues(g, f, step, s, e) == g[Len(s) + 1] = step[<<f[Len(s)], e>>]

LEMMA LoopExists ==
    ASSUME NEW V, NEW E, NEW base \in V, NEW step \in [V \X E -> V], NEW s \in Seq(E)
    PROVE  \E f \in [0..Len(s) -> V] : Iterates(f, V, base, step, s)
<1> DEFINE Upto(n) == \E f \in [0..n -> V] :
              f[0] = base /\ \A k \in 1..n : f[k] = step[<<f[k - 1], s[k]>>]
           Reached == {n \in Nat : n <= Len(s) => Upto(n)}
<1>1. 0 \in Reached
  <2> DEFINE f == [k \in 0..0 |-> base]
  <2>1. f \in [0..0 -> V] /\ f[0] = base /\ 1..0 = {}
    OBVIOUS
  <2> HIDE DEF f
  <2> QED
    BY <2>1
<1>2. ASSUME NEW n \in Nat, n \in Reached PROVE n + 1 \in Reached
  <2> SUFFICES ASSUME n + 1 <= Len(s) PROVE Upto(n + 1)
    OBVIOUS
  <2>1. PICK f \in [0..n -> V] :
            f[0] = base /\ \A k \in 1..n : f[k] = step[<<f[k - 1], s[k]>>]
    BY <1>2
  <2>2. s[n + 1] \in E /\ f[n] \in V
    BY <2>1
  <2> DEFINE g == [k \in 0..n + 1 |-> IF k = n + 1 THEN step[<<f[n], s[n + 1]>>] ELSE f[k]]
  <2>3. g \in [0..n + 1 -> V]
    <3>1. step[<<f[n], s[n + 1]>>] \in V
      BY <2>2
    <3>2. \A k \in 0..n + 1 : k # n + 1 => k \in 0..n
      OBVIOUS
    <3> QED
      BY <2>1, <3>1, <3>2
  <2>4. g[0] = base
    BY <2>1
  <2>5. \A k \in 1..n + 1 : g[k] = step[<<g[k - 1], s[k]>>]
    <3> TAKE k \in 1..n + 1
    <3>1. k - 1 \in 0..n + 1 /\ k - 1 # n + 1 /\ k \in 0..n + 1
      OBVIOUS
    <3>2. g[k - 1] = f[k - 1]
      BY <3>1
    <3>3. CASE k = n + 1
      BY <3>1, <3>2, <3>3
    <3>4. CASE k # n + 1
      <4>1. k \in 1..n /\ g[k] = f[k]
        BY <3>1, <3>4
      <4> QED
        BY <2>1, <3>2, <4>1
    <3> QED
      BY <3>3, <3>4
  <2> HIDE DEF g
  <2> QED
    BY <2>3, <2>4, <2>5
<1>3. Nat \subseteq Reached
  <2> HIDE DEF Reached
  <2> QED
    BY <1>1, <1>2, NatClosure
<1>4. Len(s) \in Nat /\ Len(s) <= Len(s)
  OBVIOUS
<1>5. PICK f \in [0..Len(s) -> V] :
          f[0] = base /\ \A k \in 1..Len(s) : f[k] = step[<<f[k - 1], s[k]>>]
  BY <1>3, <1>4
<1> QED
  BY <1>5 DEF Iterates

LEMMA LoopsAgree ==
    ASSUME NEW V, NEW E, NEW base \in V, NEW step \in [V \X E -> V], NEW s \in Seq(E),
           NEW f, Iterates(f, V, base, step, s),
           NEW g, Iterates(g, V, base, step, s)
    PROVE  Agree(f, g, V, s)
<1> DEFINE Agreed == {n \in Nat : n <= Len(s) => f[n] = g[n] /\ f[n] \in V}
<1>1. 0 \in Agreed
  BY DEF Iterates
<1>2. ASSUME NEW n \in Nat, n \in Agreed PROVE n + 1 \in Agreed
  <2> SUFFICES ASSUME n + 1 <= Len(s) PROVE f[n + 1] = g[n + 1] /\ f[n + 1] \in V
    OBVIOUS
  <2>1. n + 1 \in 1..Len(s) /\ (n + 1) - 1 = n /\ s[n + 1] \in E
    OBVIOUS
  <2>2. f[n] = g[n] /\ f[n] \in V
    BY <1>2
  <2>3. f[n + 1] = step[<<f[n], s[n + 1]>>] /\ g[n + 1] = step[<<g[n], s[n + 1]>>]
    BY <2>1, <2>2 DEF Iterates
  <2> QED
    BY <2>1, <2>2, <2>3
<1>3. Nat \subseteq Agreed
  <2> HIDE DEF Agreed
  <2> QED
    BY <1>1, <1>2, NatClosure
<1> QED
  BY <1>3 DEF Agree

\* A message more is a step more.
LEMMA LoopAppend ==
    ASSUME NEW V, NEW E, NEW base \in V, NEW step \in [V \X E -> V],
           NEW s \in Seq(E), NEW f, Iterates(f, V, base, step, s),
           NEW e \in E, NEW g, Iterates(g, V, base, step, Append(s, e))
    PROVE  Continues(g, f, step, s, e)
<1> DEFINE t == Append(s, e)
<1>1. /\ t \in Seq(E) /\ Len(t) = Len(s) + 1 /\ t[Len(s) + 1] = e
      /\ \A n \in 1..Len(s) : t[n] = s[n] /\ n \in 1..Len(t)
      /\ Len(s) + 1 \in 1..Len(t) /\ (Len(s) + 1) - 1 = Len(s)
  OBVIOUS
<1>2. Iterates(g, V, base, step, t)
  OBVIOUS
<1> HIDE DEF t
<1>3. Iterates(g, V, base, step, s)
  BY <1>1, <1>2 DEF Iterates
<1>4. Agree(f, g, V, s)
  BY <1>3, LoopsAgree
<1> QED
  BY <1>1, <1>2, <1>4 DEF Iterates, Agree, Continues

----------------------------------------------------------------------------
(***************************************************************************)
(* Each loop of the model: what it makes of no message and of one more.    *)
(***************************************************************************)
LEMMA TotalOf ==
    /\ Total(<<>>) = 0
    /\ \A s \in Seq(Nat) :
          /\ Total(s) \in Nat
          /\ \A e \in Nat : Total(Append(s, e)) = Total(s) + e
<1> DEFINE Steps(s, f) == f = [n \in 0..Len(s) |-> IF n = 0 THEN 0 ELSE f[n - 1] + s[n]]
           Loop(s) == CHOOSE f : Steps(s, f)
<1>1. PICK step \in [Nat \X Nat -> Nat] : \A v, e \in Nat : step[<<v, e>>] = v + e
  <2> DEFINE g == [p \in Nat \X Nat |-> p[1] + p[2]]
  <2>1. g \in [Nat \X Nat -> Nat] /\ \A v, e \in Nat : g[<<v, e>>] = v + e
    OBVIOUS
  <2> HIDE DEF g
  <2> QED
    BY <2>1
<1>2. \A s : Total(s) = Loop(s)[Len(s)]
  BY DEF Total, Fold
<1>3. ASSUME NEW s \in Seq(Nat) PROVE Iterates(Loop(s), Nat, 0, step, s)
  <2>1. \A n \in 1..Len(s) :
            n - 1 \in 0..Len(s) /\ n \in 0..Len(s) /\ n # 0 /\ s[n] \in Nat
    OBVIOUS
  <2>2. PICK f \in [0..Len(s) -> Nat] : Iterates(f, Nat, 0, step, s)
    BY 0 \in Nat, LoopExists, Zenon
  <2>3. Steps(s, f)
    <3>1. \A n \in 1..Len(s) : f[n] = f[n - 1] + s[n]
      BY <1>1, <2>1, <2>2 DEF Iterates
    <3> QED
      BY <2>2, <3>1 DEF Iterates
  <2>4. Steps(s, Loop(s))
    <3> HIDE DEF Steps
    <3> QED
      BY <2>3
  <2> HIDE DEF Loop
  <2>5. Loop(s)[0] = 0 /\ \A n \in 1..Len(s) : Loop(s)[n] = Loop(s)[n - 1] + s[n]
    BY <2>1, <2>4
  <2> QED
    BY <1>1, <2>1, <2>5 DEF Iterates
<1> HIDE DEF Loop
<1>4. ASSUME NEW s \in Seq(Nat) PROVE Total(s) \in Nat
  <2>1. Agree(Loop(s), Loop(s), Nat, s)
    BY <1>3, 0 \in Nat, LoopsAgree
  <2> QED
    BY <1>2, <2>1 DEF Agree
<1>5. ASSUME NEW s \in Seq(Nat), NEW e \in Nat PROVE Total(Append(s, e)) = Total(s) + e
  <2>1. Append(s, e) \in Seq(Nat) /\ Len(Append(s, e)) = Len(s) + 1
    OBVIOUS
  <2>2. /\ Iterates(Loop(s), Nat, 0, step, s)
        /\ Iterates(Loop(Append(s, e)), Nat, 0, step, Append(s, e))
    BY <1>3, <2>1
  <2>3. Continues(Loop(Append(s, e)), Loop(s), step, s, e)
    BY <2>2, 0 \in Nat, LoopAppend
  <2> QED
    BY <1>1, <1>2, <1>4, <2>1, <2>3 DEF Continues
<1>6. Total(<<>>) = 0
  <2>1. <<>> \in Seq(Nat) /\ Len(<<>>) = 0
    OBVIOUS
  <2> QED
    BY <1>2, <1>3, <2>1 DEF Iterates
<1> QED
  BY <1>4, <1>5, <1>6

KeptSteps(E, kind) ==
    /\ Kept(<<>>, kind) = <<>>
    /\ \A s \in Seq(E) :
          /\ Kept(s, kind) \in Seq(E \cap kind)
          /\ \A e \in E : Kept(Append(s, e), kind) =
                IF e \in kind THEN Append(Kept(s, kind), e) ELSE Kept(s, kind)

LEMMA KeptOf == ASSUME NEW E, NEW kind PROVE KeptSteps(E, kind)
<1> DEFINE V == Seq(E \cap kind)
           Grown(v, e) == IF e \in kind THEN Append(v, e) ELSE v
           Steps(s, f) == f = [n \in 0..Len(s) |-> IF n = 0 THEN <<>> ELSE Grown(f[n - 1], s[n])]
           Loop(s) == CHOOSE f : Steps(s, f)
<1>1. PICK step \in [V \X E -> V] : \A v \in V, e \in E : step[<<v, e>>] = Grown(v, e)
  <2> DEFINE g == [p \in V \X E |-> Grown(p[1], p[2])]
  <2>1. \A v \in V, e \in E : Grown(v, e) \in V
    OBVIOUS
  <2> HIDE DEF V, Grown
  <2>2. g \in [V \X E -> V] /\ \A v \in V, e \in E : g[<<v, e>>] = Grown(v, e)
    BY <2>1
  <2> HIDE DEF g
  <2> QED
    BY <2>2
<1>2. \A s : Kept(s, kind) = Loop(s)[Len(s)]
  BY DEF Kept, Fold
<1>3. <<>> \in V /\ <<>> \in Seq(E) /\ Len(<<>>) = 0
  OBVIOUS
<1> HIDE DEF V, Grown
<1>4. ASSUME NEW s \in Seq(E) PROVE Iterates(Loop(s), V, <<>>, step, s)
  <2>1. \A n \in 1..Len(s) :
            n - 1 \in 0..Len(s) /\ n \in 0..Len(s) /\ n # 0 /\ s[n] \in E
    OBVIOUS
  <2>2. PICK f \in [0..Len(s) -> V] : Iterates(f, V, <<>>, step, s)
    BY <1>3, LoopExists, Zenon
  <2>3. Steps(s, f)
    <3>1. \A n \in 1..Len(s) : f[n] = Grown(f[n - 1], s[n])
      BY <1>1, <2>1, <2>2 DEF Iterates
    <3> QED
      BY <2>2, <3>1 DEF Iterates
  <2>4. Steps(s, Loop(s))
    <3> HIDE DEF Steps
    <3> QED
      BY <2>3
  <2> HIDE DEF Loop
  <2>5. Loop(s)[0] = <<>> /\ \A n \in 1..Len(s) : Loop(s)[n] = Grown(Loop(s)[n - 1], s[n])
    BY <2>1, <2>4
  <2> QED
    BY <1>1, <2>1, <2>5 DEF Iterates
<1> HIDE DEF Loop
<1>5. ASSUME NEW s \in Seq(E) PROVE Kept(s, kind) \in V
  <2>1. Agree(Loop(s), Loop(s), V, s)
    BY <1>3, <1>4, LoopsAgree
  <2> QED
    BY <1>2, <2>1 DEF Agree
<1>6. ASSUME NEW s \in Seq(E), NEW e \in E
      PROVE  Kept(Append(s, e), kind) = Grown(Kept(s, kind), e)
  <2>1. Append(s, e) \in Seq(E) /\ Len(Append(s, e)) = Len(s) + 1
    OBVIOUS
  <2>2. /\ Iterates(Loop(s), V, <<>>, step, s)
        /\ Iterates(Loop(Append(s, e)), V, <<>>, step, Append(s, e))
    BY <1>4, <2>1
  <2>3. Continues(Loop(Append(s, e)), Loop(s), step, s, e)
    BY <1>3, <2>2, LoopAppend
  <2> QED
    BY <1>1, <1>2, <1>5, <2>1, <2>3 DEF Continues
<1>7. Kept(<<>>, kind) = <<>>
  BY <1>2, <1>3, <1>4 DEF Iterates
<1> QED
  BY <1>5, <1>6, <1>7 DEF KeptSteps, V, Grown

LEMMA SystemOf ==
    /\ System(<<>>) = 0
    /\ \A s \in Seq(Message) :
          /\ System(s) \in Nat
          /\ \A e \in Message : System(Append(s, e)) = LastSystemWins(System(s), e)
<1> DEFINE Steps(s, f) ==
              f = [n \in 0..Len(s) |-> IF n = 0 THEN 0 ELSE LastSystemWins(f[n - 1], s[n])]
           Loop(s) == CHOOSE f : Steps(s, f)
<1>1. PICK step \in [Nat \X Message -> Nat] :
          \A v \in Nat, e \in Message : step[<<v, e>>] = LastSystemWins(v, e)
  <2> DEFINE g == [p \in Nat \X Message |-> LastSystemWins(p[1], p[2])]
  <2>1. \A v \in Nat, e \in Message : LastSystemWins(v, e) \in Nat
    BY DEF LastSystemWins, Message
  <2>2. g \in [Nat \X Message -> Nat]
        /\ \A v \in Nat, e \in Message : g[<<v, e>>] = LastSystemWins(v, e)
    BY <2>1
  <2> HIDE DEF g
  <2> QED
    BY <2>2
<1>2. \A s : System(s) = Loop(s)[Len(s)]
  BY DEF System, Fold
<1>3. <<>> \in Seq(Message) /\ Len(<<>>) = 0
  OBVIOUS
<1>4. ASSUME NEW s \in Seq(Message) PROVE Iterates(Loop(s), Nat, 0, step, s)
  <2>1. \A n \in 1..Len(s) :
            n - 1 \in 0..Len(s) /\ n \in 0..Len(s) /\ n # 0 /\ s[n] \in Message
    OBVIOUS
  <2>2. PICK f \in [0..Len(s) -> Nat] : Iterates(f, Nat, 0, step, s)
    BY 0 \in Nat, LoopExists, Zenon
  <2>3. Steps(s, f)
    <3>1. \A n \in 1..Len(s) : f[n] = LastSystemWins(f[n - 1], s[n])
      BY <1>1, <2>1, <2>2 DEF Iterates
    <3> QED
      BY <2>2, <3>1 DEF Iterates
  <2>4. Steps(s, Loop(s))
    <3> HIDE DEF Steps
    <3> QED
      BY <2>3
  <2> HIDE DEF Loop
  <2>5. /\ Loop(s)[0] = 0
        /\ \A n \in 1..Len(s) : Loop(s)[n] = LastSystemWins(Loop(s)[n - 1], s[n])
    BY <2>1, <2>4
  <2> QED
    BY <1>1, <2>1, <2>5 DEF Iterates
<1> HIDE DEF Loop
<1>5. ASSUME NEW s \in Seq(Message) PROVE System(s) \in Nat
  <2>1. Agree(Loop(s), Loop(s), Nat, s)
    BY <1>4, 0 \in Nat, LoopsAgree
  <2> QED
    BY <1>2, <2>1 DEF Agree
<1>6. ASSUME NEW s \in Seq(Message), NEW e \in Message
      PROVE  System(Append(s, e)) = LastSystemWins(System(s), e)
  <2>1. Append(s, e) \in Seq(Message) /\ Len(Append(s, e)) = Len(s) + 1
    OBVIOUS
  <2>2. /\ Iterates(Loop(s), Nat, 0, step, s)
        /\ Iterates(Loop(Append(s, e)), Nat, 0, step, Append(s, e))
    BY <1>4, <2>1
  <2>3. Continues(Loop(Append(s, e)), Loop(s), step, s, e)
    BY <2>2, 0 \in Nat, LoopAppend
  <2> QED
    BY <1>1, <1>2, <1>5, <2>1, <2>3 DEF Continues
<1>7. System(<<>>) = 0
  BY <1>2, <1>3, <1>4 DEF Iterates
<1> QED
  BY <1>5, <1>6, <1>7
----------------------------------------------------------------------------
(***************************************************************************)
(* What the loops make of each other, by induction over the sequence.      *)
(***************************************************************************)
LEMMA KeptType ==
    ASSUME NEW E, NEW kind, NEW s \in Seq(E)
    PROVE  /\ Kept(s, kind) \in Seq(E \cap kind)
           /\ Kept(s, kind) \in Seq(E)
           /\ Kept(s, kind) \in Seq(kind)
<1>1. KeptSteps(E, kind)
  BY KeptOf
<1>2. Kept(s, kind) \in Seq(E \cap kind)
  BY <1>1 DEF KeptSteps
<1> QED
  BY <1>2

\* To drop some and then more is to drop the more at once.
LEMMA KeptTwice ==
    ASSUME NEW E, NEW A, NEW B, B \subseteq A, NEW s \in Seq(E)
    PROVE  Kept(Kept(s, A), B) = Kept(s, B)
<1> DEFINE Good == {t \in Seq(E) : Kept(Kept(t, A), B) = Kept(t, B)}
<1>0. KeptSteps(E, A) /\ KeptSteps(E, B)
  BY KeptOf
<1>1. <<>> \in Good
  BY <1>0 DEF KeptSteps
<1>2. ASSUME NEW t \in Seq(E), NEW e \in E, t \in Good PROVE Append(t, e) \in Good
  <2>1. Kept(t, A) \in Seq(E) /\ Append(t, e) \in Seq(E)
    BY KeptType, AppendProperties, Zenon
  <2>2. /\ Kept(Append(t, e), A) = IF e \in A THEN Append(Kept(t, A), e) ELSE Kept(t, A)
        /\ Kept(Append(t, e), B) = IF e \in B THEN Append(Kept(t, B), e) ELSE Kept(t, B)
        /\ Kept(Append(Kept(t, A), e), B) =
              IF e \in B THEN Append(Kept(Kept(t, A), B), e) ELSE Kept(Kept(t, A), B)
    BY <1>0, <2>1 DEF KeptSteps
  <2> QED
    BY <1>2, <2>1, <2>2
<1>3. Seq(E) \subseteq Good
  <2> HIDE DEF Good
  <2> QED
    BY <1>1, <1>2, SeqClosure
<1> QED
  BY <1>3

LEMMA PromptRole ==
    ASSUME NEW m \in Message
    PROVE  /\ m \in Prompt <=> m.role = "system"
           /\ m \in Turn <=> m.role # "system"
           /\ m \in Filled <=> m.text # 0
           /\ m.text \in Nat
<1>1. m = [role |-> m.role, text |-> m.text] /\ m.role \in Roles /\ m.text \in Nat
  BY DEF Message
<1> QED
  BY <1>1 DEF Prompt, Turn, Filled

\* The system prompt that survives is that of the last message with one.
LEMMA SystemIsLast ==
    ASSUME NEW s \in Seq(Message)
    PROVE  System(s) = IF Kept(s, Prompt) = <<>> THEN 0
                       ELSE Kept(s, Prompt)[Len(Kept(s, Prompt))].text
<1> DEFINE Last(t) == IF Kept(t, Prompt) = <<>> THEN 0
                      ELSE Kept(t, Prompt)[Len(Kept(t, Prompt))].text
           Good == {t \in Seq(Message) : System(t) = Last(t)}
<1>0. KeptSteps(Message, Prompt)
  BY KeptOf
<1>1. <<>> \in Good
  BY <1>0, SystemOf DEF KeptSteps
<1>2. ASSUME NEW t \in Seq(Message), NEW e \in Message, t \in Good
      PROVE  Append(t, e) \in Good
  <2>1. Kept(t, Prompt) \in Seq(Message) /\ Append(t, e) \in Seq(Message)
    BY KeptType, AppendProperties, Zenon
  <2>2. Kept(Append(t, e), Prompt) =
            IF e \in Prompt THEN Append(Kept(t, Prompt), e) ELSE Kept(t, Prompt)
    BY <1>0 DEF KeptSteps
  <2>3. System(Append(t, e)) = IF e \in Prompt THEN e.text ELSE System(t)
    BY SystemOf, PromptRole DEF LastSystemWins
  <2>4. CASE e \in Prompt
    <3> DEFINE u == Append(Kept(t, Prompt), e)
    <3>1. u # <<>> /\ u[Len(u)] = e
      BY <2>1, AppendProperties
    <3> HIDE DEF u
    <3>2. Kept(Append(t, e), Prompt) = u
      BY <2>2, <2>4 DEF u
    <3> QED
      BY <2>1, <2>3, <2>4, <3>1, <3>2
  <2>5. CASE e \notin Prompt
    BY <1>2, <2>1, <2>2, <2>3, <2>5
  <2> QED
    BY <2>4, <2>5
<1>3. Seq(Message) \subseteq Good
  <2> HIDE DEF Good
  <2> QED
    BY <1>1, <1>2, SeqClosure
<1> QED
  BY <1>3

\* Where the system prompt is in front, an empty one may as well be left out.
LEMMA SystemKept ==
    ASSUME NEW s \in Seq(Message), \A i \in DOMAIN s : s[i].role = "system" => i = 1
    PROVE  System(Kept(s, Turn \cup Filled)) = System(s)
<1> DEFINE A == Turn \cup Filled
           InFront(t) == \A i \in DOMAIN t : t[i].role = "system" => i = 1
           Good == {t \in Seq(Message) : InFront(t) => System(Kept(t, A)) = System(t)}
<1>0. KeptSteps(Message, A)
  BY KeptOf
<1>1. <<>> \in Good
  BY <1>0 DEF KeptSteps
<1>2. ASSUME NEW t \in Seq(Message), NEW e \in Message, t \in Good
      PROVE  Append(t, e) \in Good
  <2> HIDE DEF A
  <2>1. Kept(t, A) \in Seq(Message) /\ Append(t, e) \in Seq(Message)
    BY KeptType, AppendProperties, Zenon
  <2> SUFFICES ASSUME InFront(Append(t, e))
               PROVE  System(Kept(Append(t, e), A)) = System(Append(t, e))
    BY <2>1
  <2>2. /\ \A i \in DOMAIN t : i \in DOMAIN Append(t, e) /\ Append(t, e)[i] = t[i]
        /\ Len(t) + 1 \in DOMAIN Append(t, e) /\ Append(t, e)[Len(t) + 1] = e
    OBVIOUS
  <2>3. System(Kept(t, A)) = System(t)
    BY <1>2, <2>2
  <2>4. Kept(Append(t, e), A) = IF e \in A THEN Append(Kept(t, A), e) ELSE Kept(t, A)
    BY <1>0 DEF KeptSteps
  <2>5. /\ System(Append(t, e)) = LastSystemWins(System(t), e)
        /\ System(Append(Kept(t, A), e)) = LastSystemWins(System(Kept(t, A)), e)
    BY <2>1, SystemOf
  <2>6. CASE e \in A
    BY <2>3, <2>4, <2>5, <2>6
  <2>7. CASE e \notin A
    <3>1. e.role = "system" /\ e.text = 0
      BY <2>7, PromptRole DEF A
    <3>2. t = <<>>
      BY <2>2, <3>1
    <3> QED
      BY <2>3, <2>4, <2>5, <2>7, <3>1, <3>2, SystemOf DEF LastSystemWins
  <2> QED
    BY <2>6, <2>7
<1>3. Seq(Message) \subseteq Good
  <2> HIDE DEF Good
  <2> QED
    BY <1>1, <1>2, SeqClosure
<1> QED
  BY <1>3

AsUser(m) == [m EXCEPT !.role = IF @ = "system" THEN "user" ELSE @]

LEMMA MapAppend ==
    ASSUME NEW E, NEW s \in Seq(E), NEW e \in E
    PROVE  Map(Append(s, e), AsUser) = Append(Map(s, AsUser), AsUser(e))
BY DEF Map

\* To hand the system prompts to the user changes nothing about which messages say
\* something.
LEMMA KeptAsUser ==
    ASSUME NEW s \in Seq(Message)
    PROVE  Kept(Map(s, AsUser), Filled) = Map(Kept(s, Filled), AsUser)
<1> DEFINE Good == {t \in Seq(Message) :
                      Kept(Map(t, AsUser), Filled) = Map(Kept(t, Filled), AsUser)}
<1>0. KeptSteps(Message, Filled)
  BY KeptOf
<1>1. <<>> \in Good
  <2>1. Map(<<>>, AsUser) = <<>>
    BY DEF Map
  <2> QED
    BY <1>0, <2>1 DEF KeptSteps
<1>2. ASSUME NEW t \in Seq(Message), NEW e \in Message, t \in Good
      PROVE  Append(t, e) \in Good
  <2> SUFFICES Kept(Map(Append(t, e), AsUser), Filled) =
               Map(Kept(Append(t, e), Filled), AsUser)
    OBVIOUS
  <2>1. /\ AsUser(e) \in Message
        /\ e \in Filled <=> AsUser(e) \in Filled
    <3>1. AsUser(e) \in Message /\ AsUser(e).text = e.text
      BY DEF AsUser, Message, Roles, Protocols, Vocabulary
    <3> QED
      BY <3>1, PromptRole
  <2>2. Map(t, AsUser) \in Seq(Message)
    <3>1. \A i \in DOMAIN t : t[i] \in Message
      OBVIOUS
    <3>2. \A m \in Message : AsUser(m) \in Message
      BY DEF AsUser, Message, Roles, Protocols, Vocabulary
    <3> QED
      BY <3>1, <3>2 DEF Map
  <2>3. Kept(t, Filled) \in Seq(Message)
    BY KeptType
  <2>4. Map(Append(t, e), AsUser) = Append(Map(t, AsUser), AsUser(e))
    BY MapAppend
  <2>5. Map(Append(Kept(t, Filled), e), AsUser) =
            Append(Map(Kept(t, Filled), AsUser), AsUser(e))
    BY <2>3, MapAppend
  <2>6. /\ Kept(Append(t, e), Filled) =
              IF e \in Filled THEN Append(Kept(t, Filled), e) ELSE Kept(t, Filled)
        /\ Kept(Append(Map(t, AsUser), AsUser(e)), Filled) =
              IF AsUser(e) \in Filled THEN Append(Kept(Map(t, AsUser), Filled), AsUser(e))
              ELSE Kept(Map(t, AsUser), Filled)
    BY <1>0, <2>1, <2>2 DEF KeptSteps
  <2> QED
    BY <1>2, <2>1, <2>4, <2>5, <2>6
<1>3. Seq(Message) \subseteq Good
  <2> HIDE DEF Good
  <2> QED
    BY <1>1, <1>2, SeqClosure
<1> QED
  BY <1>3

----------------------------------------------------------------------------
(***************************************************************************)
(* Counting.                                                               *)
(***************************************************************************)
LEMMA CountOf ==
    /\ CountMessages(<<>>) = 3
    /\ \A s \in Seq(Message) :
          /\ CountMessages(s) \in Nat /\ CountMessages(s) >= 3
          /\ \A e \in Message : CountMessages(Append(s, e)) = CountMessages(s) + e.text + 4
<1> DEFINE Costs(s) == Map(s, LAMBDA m : TextOf(m) + 4)
<1>1. Costs(<<>>) = <<>> /\ \A s : CountMessages(s) = Total(Costs(s)) + 3
  BY DEF CountMessages, Map
<1>2. ASSUME NEW s \in Seq(Message) PROVE Costs(s) \in Seq(Nat)
  <2>1. \A i \in DOMAIN s : s[i] \in Message
    OBVIOUS
  <2>2. \A i \in DOMAIN s : TextOf(s[i]) + 4 \in Nat
    BY <2>1, PromptRole DEF TextOf
  <2> QED
    BY <2>2 DEF Map
<1>3. ASSUME NEW s \in Seq(Message), NEW e \in Message
      PROVE  Costs(Append(s, e)) = Append(Costs(s), e.text + 4) /\ e.text + 4 \in Nat
  BY DEF Map, TextOf, Message
<1> HIDE DEF Costs
<1>4. ASSUME NEW s \in Seq(Message) PROVE Total(Costs(s)) \in Nat
  BY <1>2, TotalOf
<1>5. ASSUME NEW s \in Seq(Message), NEW e \in Message
      PROVE  CountMessages(Append(s, e)) = CountMessages(s) + e.text + 4
  <2>1. Total(Costs(Append(s, e))) = Total(Costs(s)) + (e.text + 4)
    BY <1>2, <1>3, TotalOf
  <2>2. e.text \in Nat /\ Total(Costs(s)) \in Nat
    BY <1>4, PromptRole
  <2>3. /\ CountMessages(s) = Total(Costs(s)) + 3
        /\ CountMessages(Append(s, e)) = Total(Costs(Append(s, e))) + 3
    BY <1>1
  <2>4. \A a, b \in Nat : (a + (b + 4)) + 3 = (a + 3) + b + 4
    OBVIOUS
  <2> QED
    BY <2>1, <2>2, <2>3, <2>4
<1> QED
  BY <1>1, <1>4, <1>5, TotalOf

\* A body that leaves messages out costs no more.
LEMMA CountKept ==
    ASSUME NEW kind, NEW s \in Seq(Message)
    PROVE  CountMessages(Kept(s, kind)) <= CountMessages(s)
<1> DEFINE Good == {t \in Seq(Message) : CountMessages(Kept(t, kind)) <= CountMessages(t)}
<1>0. KeptSteps(Message, kind)
  BY KeptOf
<1>1. <<>> \in Good
  BY <1>0, CountOf DEF KeptSteps
<1>2. ASSUME NEW t \in Seq(Message), NEW e \in Message, t \in Good
      PROVE  Append(t, e) \in Good
  <2>1. Kept(t, kind) \in Seq(Message) /\ Append(t, e) \in Seq(Message) /\ e.text \in Nat
    BY KeptType, PromptRole, AppendProperties, Zenon
  <2>2. Kept(Append(t, e), kind) =
            IF e \in kind THEN Append(Kept(t, kind), e) ELSE Kept(t, kind)
    BY <1>0 DEF KeptSteps
  <2>3. /\ CountMessages(Append(t, e)) = CountMessages(t) + e.text + 4
        /\ CountMessages(Append(Kept(t, kind), e)) =
              CountMessages(Kept(t, kind)) + e.text + 4
        /\ CountMessages(t) \in Nat /\ CountMessages(Kept(t, kind)) \in Nat
    BY <2>1, CountOf
  <2>4. CountMessages(Kept(Append(t, e), kind)) <= CountMessages(Append(t, e))
    <3>1. CASE e \in kind
      BY <1>2, <2>1, <2>2, <2>3, <3>1
    <3>2. CASE e \notin kind
      BY <1>2, <2>1, <2>2, <2>3, <3>2
    <3> QED
      BY <3>1, <3>2
  <2> QED
    BY <2>1, <2>4
<1>3. Seq(Message) \subseteq Good
  <2> HIDE DEF Good
  <2> QED
    BY <1>1, <1>2, SeqClosure
<1> QED
  BY <1>3

\* The system prompt that travels apart is paid by the message it was.
LEMMA CountTurns ==
    ASSUME NEW s \in Seq(Message)
    PROVE  CountMessages(Turns(s)) + System(s) <= CountMessages(s)
<1> DEFINE Good == {t \in Seq(Message) :
                      CountMessages(Turns(t)) + System(t) <= CountMessages(t)}
<1>0. KeptSteps(Message, Turn)
  BY KeptOf
<1>1. <<>> \in Good
  BY <1>0, CountOf, SystemOf DEF KeptSteps, Turns
<1>2. ASSUME NEW t \in Seq(Message), NEW e \in Message, t \in Good
      PROVE  Append(t, e) \in Good
  <2>1. Turns(t) \in Seq(Message) /\ Append(t, e) \in Seq(Message) /\ e.text \in Nat
    BY KeptType, PromptRole, AppendProperties, Zenon DEF Turns
  <2>2. Turns(Append(t, e)) = IF e \in Turn THEN Append(Turns(t), e) ELSE Turns(t)
    BY <1>0 DEF KeptSteps, Turns
  <2>3. /\ CountMessages(Append(t, e)) = CountMessages(t) + e.text + 4
        /\ CountMessages(Append(Turns(t), e)) = CountMessages(Turns(t)) + e.text + 4
        /\ CountMessages(t) \in Nat /\ CountMessages(Turns(t)) \in Nat
    BY <2>1, CountOf
  <2>4. /\ System(t) \in Nat
        /\ System(Append(t, e)) = IF e \in Turn THEN System(t) ELSE e.text
    BY SystemOf, PromptRole DEF LastSystemWins
  <2>5. CountMessages(Turns(Append(t, e))) + System(Append(t, e))
            <= CountMessages(Append(t, e))
    <3>0. CountMessages(Turns(t)) + System(t) <= CountMessages(t)
      BY <1>2
    <3> HIDE DEF Good
    <3>1. CASE e \in Turn
      <4>1. /\ CountMessages(Turns(Append(t, e))) = CountMessages(Turns(t)) + e.text + 4
            /\ System(Append(t, e)) = System(t)
        BY <2>2, <2>3, <2>4, <3>1
      <4> QED
        BY <2>1, <2>3, <2>4, <3>0, <4>1
    <3>2. CASE e \notin Turn
      <4>1. Turns(Append(t, e)) = Turns(t) /\ System(Append(t, e)) = e.text
        BY <2>2, <2>4, <3>2
      <4> QED
        BY <2>1, <2>3, <2>4, <3>0, <4>1
    <3> QED
      BY <3>1, <3>2
  <2> QED
    BY <2>1, <2>5
<1>3. Seq(Message) \subseteq Good
  <2> HIDE DEF Good
  <2> QED
    BY <1>1, <1>2, SeqClosure
<1> QED
  BY <1>3

LEMMA FirstPart ==
    ASSUME NEW s \in Seq(Nat), s # <<>>
    PROVE  s[1] \in Nat /\ s[1] <= Total(s) /\ Total(s) \in Nat /\ Len(s) \in Nat /\ Len(s) >= 1
<1> DEFINE Good == {t \in Seq(Nat) : t # <<>> => t[1] <= Total(t)}
<1>1. <<>> \in Good
  OBVIOUS
<1>2. ASSUME NEW t \in Seq(Nat), NEW e \in Nat, t \in Good PROVE Append(t, e) \in Good
  <2> SUFFICES Append(t, e)[1] <= Total(Append(t, e))
    BY AppendProperties
  <2>1. Total(Append(t, e)) = Total(t) + e /\ Total(t) \in Nat
    BY TotalOf
  <2>2. CASE t = <<>>
    <3>1. Append(t, e)[1] = e
      BY <2>2
    <3> QED
      BY <2>1, <3>1
  <2>3. CASE t # <<>>
    <3>1. Append(t, e)[1] = t[1] /\ t[1] \in Nat
      BY <2>3
    <3> QED
      BY <1>2, <2>1, <2>3, <3>1
  <2> QED
    BY <2>2, <2>3
<1>3. Seq(Nat) \subseteq Good
  <2> HIDE DEF Good
  <2> QED
    BY <1>1, <1>2, SeqClosure
<1>4. s[1] <= Total(s)
  BY <1>3
<1>5. Total(s) \in Nat
  BY TotalOf
<1>6. s[1] \in Nat /\ Len(s) \in Nat /\ Len(s) >= 1
  OBVIOUS
<1> QED
  BY <1>4, <1>5, <1>6

LEMMA TotalMonotone ==
    ASSUME NEW s \in Seq(Nat), NEW t \in Seq(Nat), Len(s) = Len(t),
           \A i \in DOMAIN s : s[i] <= t[i]
    PROVE  Total(s) <= Total(t)
<1> DEFINE Below(u, v) == Len(u) = Len(v) /\ \A i \in DOMAIN u : u[i] <= v[i]
           Good == {v \in Seq(Nat) : \A u \in Seq(Nat) : Below(u, v) => Total(u) <= Total(v)}
<1>1. <<>> \in Good
  <2>1. \A u \in Seq(Nat) : Below(u, <<>>) => u = <<>>
    OBVIOUS
  <2>2. Total(<<>>) <= Total(<<>>)
    BY TotalOf
  <2> HIDE DEF Below
  <2> QED
    BY <2>1, <2>2
<1>2. ASSUME NEW v \in Seq(Nat), NEW e \in Nat, v \in Good PROVE Append(v, e) \in Good
  <2> SUFFICES ASSUME NEW u \in Seq(Nat), Below(u, Append(v, e))
               PROVE  Total(u) <= Total(Append(v, e))
    BY AppendProperties
  <2> DEFINE front == SubSeq(u, 1, Len(v))
             last == u[Len(v) + 1]
  <2>1. /\ front \in Seq(Nat) /\ last \in Nat /\ u = Append(front, last)
        /\ last <= e /\ Below(front, v)
    <3>1. Len(u) = Len(v) + 1 /\ Len(v) \in Nat
      OBVIOUS
    <3>2. /\ \A i \in 1..Len(v) : i \in DOMAIN u /\ Append(v, e)[i] = v[i]
          /\ Len(v) + 1 \in DOMAIN u /\ Append(v, e)[Len(v) + 1] = e
      BY <3>1
    <3>3. front \in Seq(Nat) /\ Len(front) = Len(v) /\ \A i \in 1..Len(v) : front[i] = u[i]
      BY <3>1
    <3>4. u = Append(front, last) /\ last \in Nat
      BY <3>1
    <3> QED
      BY <3>2, <3>3, <3>4
  <2> HIDE DEF front, last
  <2>2. Total(front) <= Total(v)
    BY <1>2, <2>1
  <2>3. /\ Total(Append(front, last)) = Total(front) + last
        /\ Total(Append(v, e)) = Total(v) + e
        /\ Total(front) \in Nat /\ Total(v) \in Nat
    BY <2>1, TotalOf
  <2> QED
    BY <2>1, <2>2, <2>3
<1>3. Seq(Nat) \subseteq Good
  <2> HIDE DEF Good
  <2> QED
    BY <1>1, <1>2, SeqClosure
<1> QED
  BY <1>3

----------------------------------------------------------------------------
(***************************************************************************)
(* The conversions.                                                        *)
(***************************************************************************)
InPlace(s) == Map(s, LAMBDA m : [role |-> m.role, text |-> m.parts[1]])
AsSaid(s) == Said(InPlace(s))
Price(s) == Total(Map(s, LAMBDA m : Total(m.parts) + 4 * Len(m.parts)))

LEMMA ClientMessageParts ==
    ASSUME NEW m \in ClientMessage
    PROVE  /\ m.role \in Roles /\ Meaning(m.role) \in {"system", "user", "assistant"}
           /\ m.parts[1] \in Nat /\ Len(m.parts) \in Nat /\ Len(m.parts) >= 1
           /\ m.parts[1] <= Total(m.parts) /\ Total(m.parts) \in Nat
<1>1. m.role \in Roles /\ m.parts \in Seq(Nat) /\ m.parts # <<>>
  BY DEF ClientMessage
<1>2. Meaning(m.role) \in {"system", "user", "assistant"}
  BY <1>1 DEF Meaning, Roles, Protocols, Vocabulary
<1> QED
  BY <1>1, <1>2, FirstPart

LEMMA UnifiedIsMessage ==
    /\ UnifiedMessage \subseteq Message
    /\ Seq(UnifiedMessage) \subseteq Seq(Message)
    /\ \A m \in UnifiedMessage : Meaning(m.role) = m.role
<1>1. UnifiedMessage \subseteq Message
  BY DEF UnifiedMessage, Message, Roles, Protocols, Vocabulary
<1>2. \A m \in UnifiedMessage : Meaning(m.role) = m.role
  BY DEF UnifiedMessage, Meaning
<1>3. Seq(UnifiedMessage) \subseteq Seq(Message)
  BY <1>1
<1> QED
  BY <1>1, <1>2, <1>3

\* What each protocol makes of a conversation before anything is left out.
LEMMA ConvertedOneByOne ==
    ASSUME NEW p \in Protocols, NEW s \in Seq(ClientMessage), Expressible(p, s)
    PROVE  \E u \in Seq(UnifiedMessage) :
              /\ ToUnified(p, s) = IF p = "anthropic" THEN Kept(u, Turn \cup Filled) ELSE u
              /\ Len(u) = Len(s) /\ DOMAIN u = DOMAIN s
              /\ \A i \in DOMAIN s : u[i].role = Meaning(s[i].role)
              /\ \A i \in DOMAIN s : u[i].text \in {0, s[i].parts[1]}
              /\ \A i \in DOMAIN s : Len(s[i].parts) = 1 => u[i].text = s[i].parts[1]
<1>1. \A i \in DOMAIN s : s[i] \in ClientMessage
  OBVIOUS
<1>2. CASE p = "openai"
  <2>1. \A i \in DOMAIN s : Meaning(s[i].role) = s[i].role
    BY <1>2 DEF Expressible, Vocabulary, Meaning
  <2>2. \A i \in DOMAIN s :
            [role |-> s[i].role, text |-> IF Len(s[i].parts) = 1 THEN s[i].parts[1] ELSE 0]
               \in UnifiedMessage
    BY <1>1, <2>1, ClientMessageParts DEF UnifiedMessage
  <2>3. FromOpenAI(s) \in Seq(UnifiedMessage)
    BY <2>2 DEF FromOpenAI, Map
  <2>4. /\ Len(FromOpenAI(s)) = Len(s) /\ DOMAIN FromOpenAI(s) = DOMAIN s
        /\ \A i \in DOMAIN s :
              /\ FromOpenAI(s)[i].role = s[i].role
              /\ FromOpenAI(s)[i].text = IF Len(s[i].parts) = 1 THEN s[i].parts[1] ELSE 0
    BY DEF FromOpenAI, Map
  <2> QED
    BY <1>2, <2>1, <2>3, <2>4 DEF ToUnified
<1>3. CASE p = "gemini"
  <2>1. \A i \in DOMAIN s :
            (IF s[i].role = "model" THEN "assistant" ELSE s[i].role) = Meaning(s[i].role)
    BY DEF Meaning
  <2>2. \A i \in DOMAIN s :
            [role |-> IF s[i].role = "model" THEN "assistant" ELSE s[i].role,
             text |-> s[i].parts[1]] \in UnifiedMessage
    BY <1>1, <2>1, ClientMessageParts DEF UnifiedMessage
  <2>3. FromGemini(s) \in Seq(UnifiedMessage)
    BY <2>2 DEF FromGemini, Map
  <2>4. /\ Len(FromGemini(s)) = Len(s) /\ DOMAIN FromGemini(s) = DOMAIN s
        /\ \A i \in DOMAIN s : /\ FromGemini(s)[i].role = Meaning(s[i].role)
                               /\ FromGemini(s)[i].text = s[i].parts[1]
    BY DEF FromGemini, Map, Meaning
  <2> QED
    BY <1>3, <2>3, <2>4 DEF ToUnified
<1>4. CASE p = "anthropic"
  <2>1. \A i \in DOMAIN s : Meaning(s[i].role) = s[i].role
    BY <1>4 DEF Expressible, Vocabulary, Meaning
  <2>2. \A i \in DOMAIN s : [role |-> s[i].role, text |-> s[i].parts[1]] \in UnifiedMessage
    BY <1>1, <2>1, ClientMessageParts DEF UnifiedMessage
  <2>3. InPlace(s) \in Seq(UnifiedMessage)
    BY <2>2 DEF InPlace, Map
  <2>4. /\ Len(InPlace(s)) = Len(s) /\ DOMAIN InPlace(s) = DOMAIN s
        /\ \A i \in DOMAIN s : InPlace(s)[i].role = s[i].role
                               /\ InPlace(s)[i].text = s[i].parts[1]
    BY DEF InPlace, Map
  <2>5. ToUnified(p, s) = Kept(InPlace(s), Turn \cup Filled)
    BY <1>4 DEF ToUnified, FromAnthropic, InPlace
  <2> QED
    BY <1>4, <2>1, <2>3, <2>4, <2>5
<1> QED
  BY <1>2, <1>3, <1>4 DEF Protocols

LEMMA UnifiedType ==
    ASSUME NEW p \in Protocols, NEW s \in Seq(ClientMessage), Expressible(p, s)
    PROVE  ToUnified(p, s) \in Seq(UnifiedMessage)
<1>1. PICK u \in Seq(UnifiedMessage) :
          ToUnified(p, s) = IF p = "anthropic" THEN Kept(u, Turn \cup Filled) ELSE u
  BY ConvertedOneByOne
<1>2. Kept(u, Turn \cup Filled) \in Seq(UnifiedMessage)
  BY KeptType
<1> QED
  BY <1>1, <1>2

\* A conversion never makes the prompt dearer than what the client wrote.
LEMMA UnifiedPrice ==
    ASSUME NEW p \in Protocols, NEW s \in Seq(ClientMessage), Expressible(p, s)
    PROVE  CountMessages(ToUnified(p, s)) <= 3 + Price(s)
<1>1. PICK u \in Seq(UnifiedMessage) :
          /\ ToUnified(p, s) = IF p = "anthropic" THEN Kept(u, Turn \cup Filled) ELSE u
          /\ Len(u) = Len(s) /\ DOMAIN u = DOMAIN s
          /\ \A i \in DOMAIN s : u[i].text \in {0, s[i].parts[1]}
  BY ConvertedOneByOne
<1>2. u \in Seq(Message)
  BY UnifiedIsMessage
<1>3. CountMessages(ToUnified(p, s)) <= CountMessages(u)
  <2>1. CountMessages(Kept(u, Turn \cup Filled)) <= CountMessages(u)
    BY <1>2, CountKept
  <2>2. CountMessages(u) <= CountMessages(u)
    BY <1>2, CountOf
  <2> QED
    BY <1>1, <2>1, <2>2
<1> DEFINE costs == Map(u, LAMBDA m : TextOf(m) + 4)
           prices == Map(s, LAMBDA m : Total(m.parts) + 4 * Len(m.parts))
<1>4. \A i \in DOMAIN s :
          /\ TextOf(u[i]) + 4 \in Nat
          /\ Total(s[i].parts) + 4 * Len(s[i].parts) \in Nat
          /\ TextOf(u[i]) + 4 <= Total(s[i].parts) + 4 * Len(s[i].parts)
  <2> TAKE i \in DOMAIN s
  <2>1. s[i] \in ClientMessage /\ u[i].text \in {0, s[i].parts[1]}
    BY <1>1
  <2>2. /\ s[i].parts[1] \in Nat /\ Len(s[i].parts) \in Nat /\ Len(s[i].parts) >= 1
        /\ s[i].parts[1] <= Total(s[i].parts) /\ Total(s[i].parts) \in Nat
    BY <2>1, ClientMessageParts
  <2>3. TextOf(u[i]) \in Nat /\ TextOf(u[i]) <= Total(s[i].parts)
    BY <2>1, <2>2 DEF TextOf
  <2>4. \A a, b, c \in Nat : c >= 1 /\ a <= b =>
            a + 4 \in Nat /\ b + 4 * c \in Nat /\ a + 4 <= b + 4 * c
    OBVIOUS
  <2> QED
    BY <2>2, <2>3, <2>4
<1>5. /\ costs \in Seq(Nat) /\ prices \in Seq(Nat)
      /\ Len(costs) = Len(prices)
      /\ \A i \in DOMAIN costs : costs[i] <= prices[i]
  BY <1>1, <1>4 DEF Map
<1>6. CountMessages(u) = Total(costs) + 3 /\ Price(s) = Total(prices)
  BY DEF CountMessages, Price
<1> HIDE DEF costs, prices
<1>7. Total(costs) <= Total(prices) /\ Total(costs) \in Nat /\ Total(prices) \in Nat
  BY <1>5, TotalMonotone, TotalOf
<1>8. CountMessages(ToUnified(p, s)) \in Nat
  BY UnifiedType, UnifiedIsMessage, CountOf
<1> QED
  BY <1>3, <1>6, <1>7, <1>8

\* Where every content is in one piece, the unified request is what was said, but
\* for an empty system prompt in front, which Anthropic's conversion leaves out.
LEMMA UnifiedSays ==
    ASSUME NEW p \in Protocols, NEW s \in Seq(ClientMessage), Expressible(p, s),
           \A i \in DOMAIN s : Len(s[i].parts) = 1
    PROVE  /\ AsSaid(s) \in Seq(UnifiedMessage)
           /\ ToUnified(p, s) = IF p = "anthropic" THEN Kept(AsSaid(s), Turn \cup Filled)
                                ELSE AsSaid(s)
           /\ p = "anthropic" =>
                 \A i \in DOMAIN AsSaid(s) : AsSaid(s)[i].role = "system" => i = 1
<1>1. PICK u \in Seq(UnifiedMessage) :
          /\ ToUnified(p, s) = IF p = "anthropic" THEN Kept(u, Turn \cup Filled) ELSE u
          /\ Len(u) = Len(s) /\ DOMAIN u = DOMAIN s
          /\ \A i \in DOMAIN s : u[i].role = Meaning(s[i].role)
          /\ \A i \in DOMAIN s : Len(s[i].parts) = 1 => u[i].text = s[i].parts[1]
  BY ConvertedOneByOne
<1>2. u = AsSaid(s)
  <2>1. \A i \in DOMAIN s : u[i] = [role |-> Meaning(s[i].role), text |-> s[i].parts[1]]
    <3>1. \A i \in DOMAIN s : u[i] \in UnifiedMessage
      BY <1>1
    <3> QED
      BY <1>1, <3>1 DEF UnifiedMessage
  <2>2. AsSaid(s) = [i \in DOMAIN s |-> [role |-> Meaning(s[i].role), text |-> s[i].parts[1]]]
    BY DEF AsSaid, InPlace, Said, Map
  <2>3. u = [i \in DOMAIN s |-> u[i]]
    BY <1>1
  <2> QED
    BY <2>1, <2>2, <2>3
<1>3. ASSUME p = "anthropic", NEW i \in DOMAIN u, u[i].role = "system" PROVE i = 1
  BY <1>1, <1>3 DEF Expressible, Meaning
<1> QED
  BY <1>1, <1>2, <1>3

----------------------------------------------------------------------------
(***************************************************************************)
(* The bodies.                                                             *)
(***************************************************************************)
LEMMA BodyType ==
    ASSUME NEW to \in Protocols, NEW u \in Seq(UnifiedMessage)
    PROVE  ToRequest(to, u) \in [messages : Seq(Message), system : Nat]
<1>1. u \in Seq(Message)
  BY UnifiedIsMessage
<1>2. CASE to = "openai"
  BY <1>1, <1>2 DEF ToRequest
<1>3. CASE to = "anthropic"
  <2>1. Turns(u) \in Seq(Message) /\ System(u) \in Nat
    BY <1>1, KeptType, SystemOf DEF Turns
  <2> QED
    BY <1>3, <2>1 DEF ToRequest
<1>4. CASE to = "gemini"
  <2>1. \A i \in DOMAIN u : [u[i] EXCEPT !.role = GeminiRole(@)] \in Message
    <3>1. \A m \in UnifiedMessage : [m EXCEPT !.role = GeminiRole(@)] \in Message
      BY DEF UnifiedMessage, Message, GeminiRole, Roles, Protocols, Vocabulary
    <3> QED
      BY <3>1
  <2>2. Map(u, LAMBDA m : [m EXCEPT !.role = GeminiRole(@)]) \in Seq(Message)
    BY <2>1 DEF Map
  <2> QED
    BY <1>4, <2>2 DEF ToRequest
<1> QED
  BY <1>2, <1>3, <1>4 DEF Protocols

\* No body is dearer than the request it was made from.
LEMMA BodyPrice ==
    ASSUME NEW to \in Protocols, NEW u \in Seq(UnifiedMessage)
    PROVE  CountMessages(ToRequest(to, u).messages) + ToRequest(to, u).system
              <= CountMessages(u)
<1>1. u \in Seq(Message) /\ CountMessages(u) \in Nat
  BY UnifiedIsMessage, CountOf
<1>2. CASE to = "openai"
  BY <1>1, <1>2 DEF ToRequest
<1>3. CASE to = "anthropic"
  BY <1>1, <1>3, CountTurns DEF ToRequest
<1>4. CASE to = "gemini"
  <2> DEFINE g == Map(u, LAMBDA m : [m EXCEPT !.role = GeminiRole(@)])
  <2>1. DOMAIN g = DOMAIN u /\ \A i \in DOMAIN u : TextOf(g[i]) = TextOf(u[i])
    <3>1. \A i \in DOMAIN u : u[i] \in UnifiedMessage
      OBVIOUS
    <3> QED
      BY <3>1 DEF Map, TextOf, UnifiedMessage
  <2>2. ToRequest(to, u).messages = g /\ ToRequest(to, u).system = 0
    BY <1>4 DEF ToRequest
  <2> HIDE DEF g
  <2>3. Map(g, LAMBDA m : TextOf(m) + 4) = Map(u, LAMBDA m : TextOf(m) + 4)
    BY <2>1 DEF Map
  <2>4. CountMessages(g) = CountMessages(u)
    BY <2>3 DEF CountMessages
  <2> QED
    BY <1>1, <2>2, <2>4
<1> QED
  BY <1>2, <1>3, <1>4 DEF Protocols

Heard(to, u) == ToRequest(to, u).messages

\* What a provider hears of a request whose roles are in order.
LEMMA BodySays ==
    ASSUME NEW to \in Protocols, NEW u \in Seq(UnifiedMessage)
    PROVE  /\ \A j \in DOMAIN Heard(to, u) : Heard(to, u)[j].role \in Vocabulary(to)
           /\ to = "openai" => Said(Heard(to, u)) = u
           /\ to = "anthropic" => /\ Said(Heard(to, u)) = Turns(u)
                                  /\ ToRequest(to, u).system = System(u)
           /\ to = "gemini" => Said(Heard(to, u)) = Map(u, AsUser)
<1>1. \A i \in DOMAIN u : u[i] \in UnifiedMessage
  OBVIOUS
<1>2. \A v \in Seq(UnifiedMessage) : Said(v) = v
  <2> TAKE v \in Seq(UnifiedMessage)
  <2>1. \A i \in DOMAIN v : [role |-> Meaning(v[i].role), text |-> v[i].text] = v[i]
    <3>1. \A m \in UnifiedMessage : [role |-> Meaning(m.role), text |-> m.text] = m
      BY DEF UnifiedMessage, Meaning
    <3> QED
      BY <3>1
  <2>2. v = [i \in DOMAIN v |-> v[i]]
    OBVIOUS
  <2> QED
    BY <2>1, <2>2 DEF Said, Map
<1>3. CASE to = "openai"
  BY <1>1, <1>2, <1>3 DEF Heard, ToRequest, Vocabulary, UnifiedMessage
<1>4. CASE to = "anthropic"
  <2>1. Turns(u) \in Seq(UnifiedMessage) /\ Turns(u) \in Seq(UnifiedMessage \cap Turn)
    BY KeptType DEF Turns
  <2>2. \A j \in DOMAIN Turns(u) : Turns(u)[j].role \in Vocabulary(to)
    <3>1. \A m \in UnifiedMessage \cap Turn : m.role \in Vocabulary(to)
      BY <1>4 DEF UnifiedMessage, Turn, Vocabulary
    <3> QED
      BY <2>1, <3>1
  <2> QED
    BY <1>2, <1>4, <2>1, <2>2 DEF Heard, ToRequest
<1>5. CASE to = "gemini"
  <2> DEFINE g == Map(u, LAMBDA m : [m EXCEPT !.role = GeminiRole(@)])
  <2>1. Heard(to, u) = g
    BY <1>5 DEF Heard, ToRequest
  <2>2. \A m \in UnifiedMessage :
            /\ [m EXCEPT !.role = GeminiRole(@)].role \in Vocabulary(to)
            /\ [role |-> Meaning([m EXCEPT !.role = GeminiRole(@)].role),
                text |-> [m EXCEPT !.role = GeminiRole(@)].text] = AsUser(m)
    BY <1>5 DEF UnifiedMessage, GeminiRole, Vocabulary, Meaning, AsUser
  <2>3. \A j \in DOMAIN g : g[j].role \in Vocabulary(to)
    BY <1>1, <2>2 DEF Map
  <2>4. Said(g) = Map(u, AsUser)
    BY <1>1, <2>2 DEF Said, Map
  <2> QED
    BY <1>5, <2>1, <2>3, <2>4
<1> QED
  BY <1>3, <1>4, <1>5 DEF Protocols

----------------------------------------------------------------------------
(***************************************************************************)
(* The specification.                                                      *)
(***************************************************************************)
Waiting ==
    /\ pc \in {"idle", "count"} => sent = <<>> /\ counted = 0
    /\ pc = "answer" => sent # <<>>

\* The request and its bodies stay conversions of what the client wrote.
Converted ==
    /\ pc # "idle" => Expressible(entry, written) /\ unified = ToUnified(entry, written)
    /\ \A i \in DOMAIN sent : sent[i].body = ToRequest(sent[i].to, unified)

\* Only a prompt whose encoding is missing goes without a count, and only one
\* without a count is free.
Counted ==
    /\ counted # 0 => counted = CountMessages(unified)
    /\ pc \in {"send", "answer", "done"} /\ counted = 0 => Missing
    /\ pc = "done" /\ input = 0 => counted = 0 /\ usage = 0

\* The inductive invariant.
ProtocolIInv == ProtocolTypeOK /\ Waiting /\ Converted /\ Counted
LEMMA EncodingType == \A m \in Models : EncodingOf[m] \in Encodings
BY DEF Encodings

LEMMA NothingSent ==
    \A E : <<>> \in Seq(E) /\ Len(<<>>) = 0 /\ 0 <= MaxAttempts
BY ProtocolAssumption

LEMMA ProtocolInitIInv == ProtocolInit => ProtocolIInv
<1> SUFFICES ASSUME ProtocolInit PROVE ProtocolIInv
  OBVIOUS
<1>1. ProtocolTypeOK
  BY NothingSent DEF ProtocolInit, ProtocolTypeOK, Protocols
<1> QED
  BY <1>1 DEF ProtocolInit, ProtocolIInv, Waiting, Converted, Counted

LEMMA ProtocolNextIInv == ProtocolIInv /\ [ProtocolNext]_protocolVars => ProtocolIInv'
<1> SUFFICES ASSUME ProtocolIInv, [ProtocolNext]_protocolVars PROVE ProtocolIInv'
  OBVIOUS
<1> USE DEF ProtocolIInv
<1>1. CASE Arrive
  <2>1. PICK p \in Protocols, s \in Conversations :
            /\ Expressible(p, s) /\ entry' = p /\ written' = s /\ unified' = ToUnified(p, s)
    BY <1>1 DEF Arrive
  <2>2. s \in Seq(ClientMessage) /\ ToUnified(p, s) \in Seq(UnifiedMessage)
    BY <2>1, UnifiedType, ProtocolAssumption
  <2>3. ProtocolTypeOK'
    BY <1>1, <2>1, <2>2 DEF Arrive, ProtocolTypeOK, UnifiedMessage
  <2>4. sent = <<>> /\ counted = 0
    BY <1>1 DEF Arrive, Waiting
  <2>5. Waiting' /\ Converted' /\ Counted'
    BY <1>1, <2>1, <2>4 DEF Arrive, Waiting, Converted, Counted
  <2> QED
    BY <2>3, <2>5
<1>2. CASE Count
  <2>1. CountMessages(unified) \in Nat /\ CountMessages(unified) >= 3
    BY UnifiedIsMessage, CountOf DEF ProtocolTypeOK, UnifiedMessage
  <2>2. loaded' \subseteq Encodings
    <3>1. EncodingOf[model] \in Encodings /\ loaded \subseteq Encodings
      BY EncodingType DEF ProtocolTypeOK
    <3> QED
      BY <1>2, <3>1 DEF Count
  <2>3. ProtocolTypeOK'
    BY <1>2, <2>1, <2>2 DEF Count, ProtocolTypeOK, requestVars
  <2>4. Waiting' /\ Converted' /\ Counted'
    BY <1>2, <2>1 DEF Count, Waiting, Converted, Counted, requestVars
  <2> QED
    BY <2>3, <2>4
<1>3. CASE CountFails
  <2>1. ProtocolTypeOK'
    BY <1>3 DEF CountFails, ProtocolTypeOK, requestVars
  <2>2. Waiting' /\ Converted' /\ Counted'
    BY <1>3 DEF CountFails, Waiting, Converted, Counted, Missing, requestVars
  <2> QED
    BY <2>1, <2>2
<1>4. ASSUME NEW protocol \in Protocols, Send(protocol) PROVE ProtocolIInv'
  <2> DEFINE body == ToRequest(protocol, unified)
  <2>1. body \in [messages : Seq(Message), system : Nat]
    BY BodyType DEF ProtocolTypeOK, UnifiedMessage
  <2> DEFINE one == [to |-> protocol, body |-> body]
             Bodies == [to : Protocols, body : [messages : Seq(Message), system : Nat]]
  <2>2. one \in Bodies /\ one.to = protocol /\ one.body = ToRequest(one.to, unified)
    BY <2>1
  <2>3. sent \in Seq(Bodies) /\ sent' = Append(sent, one)
    BY <1>4 DEF Send, ProtocolTypeOK
  <2> HIDE DEF one, Bodies
  <2>4. /\ sent' \in Seq(Bodies) /\ sent' # <<>> /\ Len(sent') = Len(sent) + 1
        /\ \A i \in DOMAIN sent' : (i \in DOMAIN sent /\ sent'[i] = sent[i]) \/ sent'[i] = one
        /\ Len(sent) \in Nat
    BY <2>2, <2>3
  <2>5. Len(sent') <= MaxAttempts
    BY <1>4, <2>4, ProtocolAssumption DEF Send, MayRetry
  <2>6. ProtocolTypeOK'
    BY <1>4, <2>4, <2>5 DEF Send, ProtocolTypeOK, requestVars, Bodies
  <2>7. Waiting' /\ Counted'
    BY <1>4, <2>4 DEF Send, Waiting, Counted, Missing, requestVars
  <2>8. Converted'
    BY <1>4, <2>2, <2>4 DEF Send, Converted, requestVars
  <2> QED
    BY <2>6, <2>7, <2>8
<1>5. CASE Failover
  BY <1>5 DEF Failover, ProtocolTypeOK, Waiting, Converted, Counted, Missing, requestVars
<1>6. ASSUME NEW reported \in Nat, NEW tokens \in Nat, Finish(reported, tokens),
             pc \in {"send", "answer"}, tokens = 0 => counted = 0 /\ reported = 0
      PROVE  ProtocolIInv'
  <2>1. ProtocolTypeOK'
    BY <1>6 DEF Finish, ProtocolTypeOK, requestVars
  <2>2. Waiting' /\ Converted' /\ Counted'
    BY <1>6 DEF Finish, Waiting, Converted, Counted, Missing, requestVars
  <2> QED
    BY <2>1, <2>2
<1>7. CASE Unavailable \/ BillCounted
  BY <1>6, <1>7 DEF Unavailable, BillCounted, ProtocolTypeOK
<1>8. CASE BillAnswer
  <2>1. PICK reported \in Reported(sent[Len(sent)].body) :
            pc = "answer" /\ Finish(reported, Billed(reported))
    BY <1>8 DEF BillAnswer
  <2>2. sent[Len(sent)].body.messages \in Seq(Message)
    <3> DEFINE Bodies == [to : Protocols, body : [messages : Seq(Message), system : Nat]]
    <3>1. sent # <<>> /\ sent \in Seq(Bodies)
      BY <2>1 DEF Waiting, ProtocolTypeOK
    <3> HIDE DEF Bodies
    <3>2. sent[Len(sent)] \in Bodies
      BY <3>1
    <3> QED
      BY <3>2 DEF Bodies
  <2>3. reported \in Nat
    BY <2>2, CountOf DEF Reported
  <2> QED
    BY <1>6, <2>1, <2>3 DEF Billed, ProtocolTypeOK
<1>9. CASE Forget
  <2>1. ProtocolTypeOK'
    BY <1>9, NothingSent DEF Forget, ProtocolTypeOK, Protocols
  <2> QED
    BY <1>9, <2>1 DEF Forget, Waiting, Converted, Counted
<1>10. CASE UNCHANGED protocolVars
  <2>1. ProtocolTypeOK'
    BY <1>10 DEF protocolVars, requestVars, ProtocolTypeOK
  <2> QED
    BY <1>10, <2>1 DEF protocolVars, requestVars, Waiting, Converted, Counted, Missing
<1> QED
  BY <1>1, <1>2, <1>3, <1>4, <1>5, <1>7, <1>8, <1>9, <1>10 DEF ProtocolNext

\* The invariant holds in every state of every behaviour.
THEOREM ProtocolInvariant == ProtocolSpec => []ProtocolIInv
<1> QED
  BY ProtocolInitIInv, ProtocolNextIInv, PTL DEF ProtocolSpec

\* Every variable keeps its type whatever the client wrote, and at most MaxAttempts
\* bodies are sent.
THEOREM ProtocolTypeCorrect == ProtocolSpec => []ProtocolTypeOK
<1>1. ProtocolIInv => ProtocolTypeOK
  BY DEF ProtocolIInv
<1> QED
  BY <1>1, ProtocolInvariant, PTL

\* Every attempt is addressed to a known protocol.
LEMMA Recipients == ProtocolTypeOK => \A i \in DOMAIN sent : sent[i].to \in Protocols
<1> DEFINE Bodies == [to : Protocols, body : [messages : Seq(Message), system : Nat]]
<1> SUFFICES ASSUME sent \in Seq(Bodies), NEW i \in DOMAIN sent PROVE sent[i].to \in Protocols
  BY DEF ProtocolTypeOK
<1>1. sent[i] \in Bodies
  <2> HIDE DEF Bodies
  <2> QED
    OBVIOUS
<1> QED
  BY <1>1

\* Whoever answers in the end has got the conversation the client wrote: its turns in
\* their order and its latest system prompt, however many conversions and failovers
\* are between the two.
THEOREM KeptForEveryProvider == ProtocolSpec => []ConversationKept
<1>1. ProtocolIInv => ConversationKept
  <2> SUFFICES ASSUME ProtocolIInv, InOnePiece, NEW i \in DOMAIN sent
               PROVE  LET heard == sent[i].body.messages
                          prompts == Kept(Wrote, Prompt)
                      IN  /\ \A j \in DOMAIN heard : heard[j].role \in Vocabulary(sent[i].to)
                          /\ sent[i].to = "openai" => Spoken(Said(heard)) = Spoken(Wrote)
                          /\ sent[i].to = "anthropic" =>
                                /\ Said(heard) = Turns(Wrote)
                                /\ sent[i].body.system =
                                      IF prompts = <<>> THEN 0
                                      ELSE prompts[Len(prompts)].text
                          /\ sent[i].to = "gemini" =>
                                Spoken(Said(heard)) =
                                  Map(Spoken(Wrote), LAMBDA m :
                                        [m EXCEPT !.role = IF @ = "system" THEN "user" ELSE @])
    BY DEF ConversationKept
  <2> DEFINE to == sent[i].to
             w == AsSaid(written)
             prompts == Kept(w, Prompt)
  <2>1. /\ to \in Protocols /\ entry \in Protocols /\ written \in Seq(ClientMessage)
        /\ unified \in Seq(UnifiedMessage)
    BY Recipients DEF ProtocolIInv, ProtocolTypeOK, UnifiedMessage
  <2>2. pc # "idle"
    BY DEF ProtocolIInv, Waiting
  <2>3. /\ Expressible(entry, written) /\ unified = ToUnified(entry, written)
        /\ sent[i].body = ToRequest(to, unified)
    BY <2>2 DEF ProtocolIInv, Converted
  <2>4. Wrote = w
    BY DEF Wrote, AsSaid, InPlace
  <2>5. /\ w \in Seq(UnifiedMessage)
        /\ unified = IF entry = "anthropic" THEN Kept(w, Turn \cup Filled) ELSE w
        /\ entry = "anthropic" => \A j \in DOMAIN w : w[j].role = "system" => j = 1
    BY <2>1, <2>3, UnifiedSays DEF InOnePiece
  <2>6. w \in Seq(Message)
    BY <2>5, UnifiedIsMessage
  <2> HIDE DEF to, w
  <2>7. Spoken(unified) = Spoken(w) /\ Turns(unified) = Turns(w)
    <3>1. /\ Kept(Kept(w, Turn \cup Filled), Filled) = Kept(w, Filled)
          /\ Kept(Kept(w, Turn \cup Filled), Turn) = Kept(w, Turn)
      BY <2>6, KeptTwice
    <3> QED
      BY <2>5, <3>1 DEF Spoken, Turns
  <2>8. System(unified) = IF prompts = <<>> THEN 0 ELSE prompts[Len(prompts)].text
    <3>1. System(unified) = System(w)
      BY <2>5, <2>6, SystemKept
    <3> QED
      BY <2>6, <3>1, SystemIsLast
  <2>9. Spoken(Map(unified, AsUser)) = Map(Spoken(w), AsUser)
    BY <2>1, <2>7, KeptAsUser, UnifiedIsMessage DEF Spoken
  <2>10. /\ \A j \in DOMAIN Heard(to, unified) : Heard(to, unified)[j].role \in Vocabulary(to)
         /\ to = "openai" => Said(Heard(to, unified)) = unified
         /\ to = "anthropic" => /\ Said(Heard(to, unified)) = Turns(unified)
                                /\ ToRequest(to, unified).system = System(unified)
         /\ to = "gemini" => Said(Heard(to, unified)) = Map(unified, AsUser)
    BY <2>1, BodySays
  <2>11. Heard(to, unified) = sent[i].body.messages
    BY <2>3 DEF Heard
  <2>12. Map(Spoken(w), AsUser) =
            Map(Spoken(w), LAMBDA m : [m EXCEPT !.role = IF @ = "system" THEN "user" ELSE @])
    BY DEF Map, AsUser
  <2> HIDE DEF prompts
  <2>13. /\ to = "openai" => Spoken(Said(sent[i].body.messages)) = Spoken(w)
         /\ to = "gemini" => Spoken(Said(sent[i].body.messages)) = Map(Spoken(w), AsUser)
    BY <2>7, <2>9, <2>10, <2>11
  <2>14. to = "anthropic" =>
            /\ Said(sent[i].body.messages) = Turns(w)
            /\ sent[i].body.system =
                  IF prompts = <<>> THEN 0 ELSE prompts[Len(prompts)].text
    BY <2>3, <2>7, <2>8, <2>10, <2>11
  <2> QED
    BY <2>4, <2>10, <2>11, <2>12, <2>13, <2>14 DEF to, prompts
<1> QED
  BY <1>1, ProtocolInvariant, PTL

\* The prompt is counted once, on the unified request, and that covers the bodies of
\* all attempts without exceeding what the client wrote.
THEOREM PromptBilled == ProtocolSpec => []PromptIsBilled
<1>1. ProtocolIInv => PromptIsBilled
  <2> SUFFICES ASSUME ProtocolIInv PROVE PromptIsBilled
    OBVIOUS
  <2>1. /\ entry \in Protocols /\ written \in Seq(ClientMessage)
        /\ unified \in Seq(UnifiedMessage)
        /\ \A i \in DOMAIN sent : sent[i].to \in Protocols
    BY Recipients DEF ProtocolIInv, ProtocolTypeOK, UnifiedMessage
  <2>2. ASSUME counted # 0, NEW i \in DOMAIN sent
        PROVE  CountMessages(sent[i].body.messages) + sent[i].body.system <= counted
    <3>1. counted = CountMessages(unified) /\ sent[i].body = ToRequest(sent[i].to, unified)
      BY <2>2 DEF ProtocolIInv, Counted, Converted
    <3> QED
      BY <2>1, <3>1, BodyPrice
  <2>3. ASSUME counted # 0 PROVE counted <= 3 + Price(written)
    <3>1. /\ counted = CountMessages(unified)
          /\ Expressible(entry, written) /\ unified = ToUnified(entry, written)
      BY <2>3 DEF ProtocolIInv, Counted, Waiting, Converted
    <3> QED
      BY <2>1, <3>1, UnifiedPrice
  <2>4. pc = "done" /\ input = 0 => Missing /\ usage = 0
    BY DEF ProtocolIInv, Counted
  <2> QED
    BY <2>2, <2>3, <2>4 DEF PromptIsBilled, Price
<1> QED
  BY <1>1, ProtocolInvariant, PTL

----------------------------------------------------------------------------
(***************************************************************************)
(* The audit log.  Order is stated apart for the table, the entry being    *)
(* written and the channel, which is what the steps change one at a time;  *)
(* the trail of StoredInOrder is put together from them at the end.        *)
(***************************************************************************)
USE AuditAssumption

Ascending(seq) ==
    \A i, j \in 1..Len(seq) : i < j => Position(seq[i]) < Position(seq[j])

\* Each of the first comes before each of the second.
Precede(first, second) ==
    \A c \in first, d \in second : Position(c) < Position(d)

Shapes ==
    /\ offered \in Seq(Calls) /\ queue \in Seq(Calls) /\ rows \in Seq(Calls)
    /\ lost \subseteq Calls

\* A call is handed over at most once, and not before it has been settled.
OfferedOnce ==
    /\ \A i, j \in 1..Len(offered) : offered[i] = offered[j] => i = j
    /\ \A c \in Calls : c \in Elements(offered) <=> stage[c] = "offered"
    /\ \A c \in charged : stage[c] # "open"

\* What was handed over is stored, on its way or lost, and nothing else is; what
\* is lost is neither stored nor on its way.
Placed ==
    /\ Elements(rows) \cup Held \cup lost = Elements(offered)
    /\ lost \cap (Elements(rows) \cup Held) = {}

InOrder ==
    /\ Ascending(rows) /\ Ascending(queue)
    /\ Precede(Elements(rows), Held)
    /\ Precede({writing} \ {None}, Elements(queue))

\* The inductive invariant.
AuditIInv == TypeOK /\ Shapes /\ OfferedOnce /\ Placed /\ InOrder
----------------------------------------------------------------------------
(***************************************************************************)
(* Lemmas about sequences and positions.                                   *)
(***************************************************************************)
LEMMA ElementsAppend ==
    ASSUME NEW S, NEW seq \in Seq(S), NEW e \in S
    PROVE  Elements(Append(seq, e)) = Elements(seq) \cup {e}
<1> DEFINE t == Append(seq, e)
<1>1. /\ Len(t) = Len(seq) + 1 /\ Len(seq) \in Nat
      /\ DOMAIN t = 1..Len(seq) + 1 /\ DOMAIN seq = 1..Len(seq)
      /\ \A i \in 1..Len(seq) : t[i] = seq[i]
      /\ t[Len(seq) + 1] = e
  OBVIOUS
<1> HIDE DEF t
<1>2. \A i \in 1..Len(seq) + 1 : i \in 1..Len(seq) \/ i = Len(seq) + 1
  BY <1>1
<1>3. \A i \in 1..Len(seq) : i \in 1..Len(seq) + 1
  BY <1>1
<1>4. Len(seq) + 1 \in 1..Len(seq) + 1
  BY <1>1
<1>5. Elements(t) \subseteq Elements(seq) \cup {e}
  BY <1>1, <1>2 DEF Elements
<1>6. Elements(seq) \cup {e} \subseteq Elements(t)
  BY <1>1, <1>3, <1>4 DEF Elements
<1> QED
  BY <1>5, <1>6 DEF t

\* What the worker takes is the head of the channel; the rest follows in the same order.
LEMMA ElementsTail ==
    ASSUME NEW S, NEW seq \in Seq(S), seq # <<>>
    PROVE  /\ Head(seq) \in S /\ Tail(seq) \in Seq(S)
           /\ Len(Tail(seq)) = Len(seq) - 1 /\ Len(seq) \in Nat
           /\ Head(seq) = seq[1]
           /\ \A i \in 1..Len(Tail(seq)) : Tail(seq)[i] = seq[i + 1]
           /\ Elements(seq) = {Head(seq)} \cup Elements(Tail(seq))
<1> DEFINE t == Tail(seq)
<1>1. /\ t \in Seq(S) /\ Len(t) = Len(seq) - 1 /\ Len(seq) \in Nat /\ Len(seq) >= 1
      /\ DOMAIN t = 1..Len(t) /\ DOMAIN seq = 1..Len(seq)
      /\ Head(seq) = seq[1] /\ Head(seq) \in S
      /\ \A i \in 1..Len(t) : t[i] = seq[i + 1]
  OBVIOUS
<1> HIDE DEF t
<1>2. 1 \in 1..Len(seq) /\ \A i \in 1..Len(t) : i + 1 \in 1..Len(seq)
  BY <1>1
<1>3. \A i \in 1..Len(seq) : i = 1 \/ (i - 1 \in 1..Len(t) /\ (i - 1) + 1 = i)
  BY <1>1
<1>4. \A i \in 1..Len(seq) : i = 1 \/ \E j \in 1..Len(t) : t[j] = seq[i]
  BY <1>1, <1>3
<1>5. Elements(seq) \subseteq {Head(seq)} \cup Elements(t)
  <2> SUFFICES ASSUME NEW i \in 1..Len(seq)
               PROVE  seq[i] \in {Head(seq)} \cup Elements(t)
    BY <1>1 DEF Elements
  <2> QED
    BY <1>1, <1>4 DEF Elements
<1>6. {Head(seq)} \cup Elements(t) \subseteq Elements(seq)
  BY <1>1, <1>2 DEF Elements
<1> QED
  BY <1>1, <1>5, <1>6 DEF t

\* An empty channel holds nobody's entry.
LEMMA ElementsEmpty == Elements(<<>>) = {}
BY DEF Elements

\* In a sequence without repetition, CHOOSE finds the place of an element.
LEMMA PlaceOf ==
    ASSUME NEW S, NEW seq \in Seq(S), NEW i \in 1..Len(seq),
           \A j, k \in 1..Len(seq) : seq[j] = seq[k] => j = k
    PROVE  (CHOOSE j \in DOMAIN seq : seq[j] = seq[i]) = i
<1>1. DOMAIN seq = 1..Len(seq)
  OBVIOUS
<1>2. \E j \in DOMAIN seq : seq[j] = seq[i]
  BY <1>1
<1> DEFINE p == CHOOSE j \in DOMAIN seq : seq[j] = seq[i]
<1>3. p \in DOMAIN seq /\ seq[p] = seq[i]
  BY <1>2
<1> HIDE DEF p
<1>4. p = i
  BY <1>1, <1>3
<1> QED
  BY <1>4 DEF p

\* Handing over one more call leaves the others where they are, and puts it last.
LEMMA PositionAppend ==
    ASSUME Shapes, OfferedOnce, Shapes', OfferedOnce', NEW c \in Calls,
           offered' = Append(offered, c)
    PROVE  /\ \A d \in Elements(offered) : Position(d)' = Position(d)
           /\ \A d \in Elements(offered) : Position(d) < Position(c)'
<1>1. /\ Len(offered) \in Nat /\ Len(offered') = Len(offered) + 1
      /\ DOMAIN offered = 1..Len(offered)
      /\ \A i \in 1..Len(offered) : offered'[i] = offered[i]
      /\ offered'[Len(offered')] = c
  BY DEF Shapes
<1>2. ASSUME NEW i \in 1..Len(offered'), NEW d, d = offered'[i]
      PROVE  Position(d)' = i
  <2>1. /\ offered' \in Seq(Calls)
        /\ \A j, k \in 1..Len(offered') : offered'[j] = offered'[k] => j = k
    BY DEF Shapes, OfferedOnce
  <2>2. (CHOOSE j \in DOMAIN offered' : offered'[j] = offered'[i]) = i
    BY <1>2, <2>1, PlaceOf
  <2> QED
    BY <1>2, <2>2 DEF Position
<1>3. ASSUME NEW i \in 1..Len(offered), NEW d, d = offered[i]
      PROVE  Position(d) = i
  BY <1>3, PlaceOf DEF Shapes, OfferedOnce, Position
<1>4. Position(c)' = Len(offered) + 1
  <2>1. Len(offered') \in 1..Len(offered')
    BY <1>1
  <2> QED
    BY <1>1, <1>2, <2>1
<1>5. \A d \in Elements(offered) : \E i \in 1..Len(offered) : d = offered[i]
  BY <1>1 DEF Elements
<1>6. ASSUME NEW d \in Elements(offered)
      PROVE  Position(d)' = Position(d) /\ Position(d) < Position(c)'
  <2>1. PICK i \in 1..Len(offered) : d = offered[i]
    BY <1>5
  <2>2. i \in 1..Len(offered') /\ i < Len(offered) + 1 /\ d = offered'[i]
    BY <1>1, <2>1
  <2>3. Position(d)' = i /\ Position(d) = i
    BY <1>2, <1>3, <2>1, <2>2
  <2> QED
    BY <1>4, <2>2, <2>3
<1> QED
  BY <1>6

\* Every call that was handed over has a place; nothing comes before itself.
LEMMA PositionType ==
    ASSUME Shapes, OfferedOnce, NEW c \in Elements(offered)
    PROVE  Position(c) \in Nat /\ ~(Position(c) < Position(c))
<1>1. PICK i \in 1..Len(offered) : c = offered[i]
  BY DEF Elements, Shapes
<1>2. Position(c) = i
  BY <1>1, PlaceOf DEF Shapes, OfferedOnce, Position
<1> QED
  BY <1>2 DEF Shapes

\* An entry offered after all that wait goes behind them and keeps the order.
LEMMA AscendingAppend ==
    ASSUME NEW seq \in Seq(Calls), NEW e \in Calls, Ascending(seq),
           Precede(Elements(seq), {e})
    PROVE  Ascending(Append(seq, e))
<1> DEFINE t == Append(seq, e)
<1>1. /\ Len(t) = Len(seq) + 1 /\ Len(seq) \in Nat
      /\ DOMAIN seq = 1..Len(seq)
      /\ \A i \in 1..Len(seq) : t[i] = seq[i]
      /\ t[Len(seq) + 1] = e
  OBVIOUS
<1> HIDE DEF t
<1>2. ASSUME NEW i \in 1..Len(t), NEW j \in 1..Len(t), i < j
      PROVE  Position(t[i]) < Position(t[j])
  <2>1. i \in 1..Len(seq)
    BY <1>1, <1>2
  <2>2. CASE j \in 1..Len(seq)
    BY <1>1, <1>2, <2>1, <2>2 DEF Ascending
  <2>3. CASE j = Len(seq) + 1
    <3>1. t[i] \in Elements(seq)
      BY <1>1, <2>1 DEF Elements
    <3> QED
      BY <1>1, <2>3, <3>1 DEF Precede
  <2> QED
    BY <1>1, <2>2, <2>3
<1> QED
  BY <1>2 DEF Ascending, t

\* Without its head the channel is still in order, and the head came before the rest.
LEMMA AscendingTail ==
    ASSUME NEW seq \in Seq(Calls), seq # <<>>, Ascending(seq)
    PROVE  Ascending(Tail(seq)) /\ Precede({Head(seq)}, Elements(Tail(seq)))
<1> DEFINE t == Tail(seq)
<1>1. /\ t \in Seq(Calls) /\ Len(t) = Len(seq) - 1 /\ Len(seq) \in Nat
      /\ Head(seq) = seq[1] /\ \A i \in 1..Len(t) : t[i] = seq[i + 1]
  BY ElementsTail
<1>2. DOMAIN t = 1..Len(t)
  BY <1>1
<1> HIDE DEF t
<1>3. \A i \in 1..Len(t) : i + 1 \in 1..Len(seq)
  BY <1>1
<1>4. ASSUME NEW i \in 1..Len(t), NEW j \in 1..Len(t), i < j
      PROVE  Position(t[i]) < Position(t[j])
  <2>1. i + 1 < j + 1
    BY <1>4
  <2> QED
    BY <1>1, <1>3, <2>1 DEF Ascending
<1>5. ASSUME NEW j \in 1..Len(t)
      PROVE  Position(seq[1]) < Position(t[j])
  <2>1. 1 \in 1..Len(seq) /\ 1 < j + 1 /\ j + 1 \in 1..Len(seq)
    BY <1>1, <1>3
  <2> QED
    BY <1>1, <2>1 DEF Ascending
<1>6. Precede({Head(seq)}, Elements(t))
  BY <1>1, <1>2, <1>5 DEF Precede, Elements
<1> QED
  BY <1>4, <1>6 DEF Ascending, t

\* Two ordered sequences of which the first precedes the second are ordered together.
LEMMA AscendingConcat ==
    ASSUME NEW s \in Seq(Calls), NEW t \in Seq(Calls), Ascending(s), Ascending(t),
           Precede(Elements(s), Elements(t))
    PROVE  /\ s \o t \in Seq(Calls) /\ Ascending(s \o t)
           /\ Elements(s \o t) = Elements(s) \cup Elements(t)
<1> DEFINE u == s \o t
<1>1. /\ u \in Seq(Calls) /\ Len(u) = Len(s) + Len(t)
      /\ \A i \in 1..Len(s) : u[i] = s[i]
      /\ \A i \in Len(s) + 1..Len(s) + Len(t) : u[i] = t[i - Len(s)]
  BY ConcatProperties
<1>2. /\ Len(s) \in Nat /\ Len(t) \in Nat /\ DOMAIN u = 1..Len(u)
      /\ DOMAIN s = 1..Len(s) /\ DOMAIN t = 1..Len(t)
  BY <1>1
<1> HIDE DEF u
<1>3. \A i \in 1..Len(u) :
        \/ i \in 1..Len(s) /\ u[i] = s[i] /\ s[i] \in Elements(s)
        \/ /\ i > Len(s) /\ i - Len(s) \in 1..Len(t)
           /\ u[i] = t[i - Len(s)] /\ t[i - Len(s)] \in Elements(t)
  <2>1. /\ \A i \in 1..Len(s) : s[i] \in Elements(s)
        /\ \A i \in 1..Len(t) : t[i] \in Elements(t)
    BY <1>2 DEF Elements
  <2>2. \A i \in 1..Len(u) : \/ i \in 1..Len(s)
                             \/ /\ i > Len(s) /\ i - Len(s) \in 1..Len(t)
                                /\ i \in Len(s) + 1..Len(s) + Len(t)
    BY <1>1, <1>2
  <2> QED
    BY <1>1, <2>1, <2>2
<1>4. ASSUME NEW i \in 1..Len(u), NEW j \in 1..Len(u), i < j
      PROVE  Position(u[i]) < Position(u[j])
  <2>1. CASE i > Len(s) /\ j > Len(s)
    <3>1. /\ i - Len(s) \in 1..Len(t) /\ j - Len(s) \in 1..Len(t)
          /\ i - Len(s) < j - Len(s)
      BY <1>1, <1>2, <1>4, <2>1
    <3>2. u[i] = t[i - Len(s)] /\ u[j] = t[j - Len(s)]
      <4>1. i \notin 1..Len(s) /\ j \notin 1..Len(s)
        BY <1>2, <2>1
      <4> QED
        BY <1>3, <1>4, <4>1
    <3> HIDE <1>3
    <3> QED
      BY <3>1, <3>2 DEF Ascending
  <2>2. CASE i <= Len(s) /\ j > Len(s)
    BY <1>2, <1>3, <2>2 DEF Precede
  <2>3. CASE j <= Len(s)
    BY <1>2, <1>3, <1>4, <2>3 DEF Ascending
  <2> QED
    BY <1>2, <2>1, <2>2, <2>3
<1>5. Elements(u) \subseteq Elements(s) \cup Elements(t)
  BY <1>2, <1>3 DEF Elements
<1>6. Elements(s) \cup Elements(t) \subseteq Elements(u)
  <2>1. ASSUME NEW i \in 1..Len(s) PROVE s[i] \in Elements(u)
    BY <1>1, <1>2 DEF Elements
  <2>2. ASSUME NEW i \in 1..Len(t) PROVE t[i] \in Elements(u)
    <3>1. i + Len(s) \in Len(s) + 1..Len(s) + Len(t) /\ (i + Len(s)) - Len(s) = i
      BY <1>2
    <3>2. i + Len(s) \in DOMAIN u
      BY <1>1, <1>2
    <3>3. u[i + Len(s)] = t[i]
      BY <1>1, <3>1
    <3> QED
      BY <3>2, <3>3 DEF Elements
  <2> QED
    BY <1>2, <2>1, <2>2 DEF Elements
<1> QED
  BY <1>1, <1>4, <1>5, <1>6 DEF Ascending, u

----------------------------------------------------------------------------
\* The invariant holds when the gateway starts, with empty channel and table.
THEOREM AuditInitIInv == Init => AuditIInv
<1> SUFFICES ASSUME Init PROVE AuditIInv
  OBVIOUS
<1>1. TypeOK
  <2>1. connected \in BOOLEAN
    BY DEF Init
  <2>2. stage \in [Calls -> {"open", "settled", "offered", "dead"}]
    BY DEF Init
  <2>3. Len(queue) <= Capacity
    BY DEF Init
  <2> QED
    BY <2>1, <2>2, <2>3, ElementsEmpty DEF Init, TypeOK
<1>2. Shapes
  BY DEF Init, Shapes
<1>3. OfferedOnce
  <2>1. \A c \in Calls : c \notin Elements(offered) /\ stage[c] # "offered"
    BY ElementsEmpty DEF Init
  <2> QED
    BY <2>1 DEF Init, OfferedOnce
<1>4. Placed
  BY ElementsEmpty DEF Init, Placed, Held
<1>5. InOrder
  BY ElementsEmpty DEF Init, InOrder, Ascending, Precede, Held
<1> QED
  BY <1>1, <1>4, <1>5, <1>2, <1>3 DEF AuditIInv

\* What the shapes say of the elements.
LEMMA ElementsType ==
    ASSUME Shapes
    PROVE  \A seq \in {offered, queue, rows} : Elements(seq) \subseteq Calls
BY DEF Shapes, Elements

\* A step that touches no sequence and gives nothing up leaves every entry in its place.
LEMMA OrderKept ==
    ASSUME Placed, InOrder, UNCHANGED <<offered, queue, writing, rows, lost>>
    PROVE  Placed' /\ InOrder'
<1>1. Placed'
  BY DEF Placed, Held, Elements
<1>2. \A c : Position(c)' = Position(c)
  BY DEF Position
<1>3. Ascending(rows)' /\ Ascending(queue)'
  BY <1>2 DEF InOrder, Ascending
<1>4. Elements(rows)' = Elements(rows) /\ Elements(queue)' = Elements(queue) /\ Held' = Held
  BY DEF Elements, Held
<1>5. Precede(Elements(rows), Held)' /\ Precede({writing} \ {None}, Elements(queue))'
  BY <1>2, <1>4 DEF InOrder, Precede
<1> QED
  BY <1>1, <1>3, <1>5 DEF InOrder

\* Every step keeps the inductive invariant.
THEOREM AuditNextIInv == AuditIInv /\ [Next]_vars => AuditIInv'
<1> SUFFICES ASSUME AuditIInv, [Next]_vars PROVE AuditIInv'
  OBVIOUS
<1>0. TypeOK /\ Shapes /\ OfferedOnce /\ Placed /\ InOrder
  BY DEF AuditIInv
<1>a. offered' = offered => \A c : Position(c)' = Position(c)
  BY DEF Position
<1>1. ASSUME NEW c \in Calls, Settle(c) PROVE AuditIInv'
  <2>1. /\ UNCHANGED <<offered, queue, writing, rows, lost, connected>>
        /\ stage[c] = "open" /\ stage' = [stage EXCEPT ![c] = "settled"]
        /\ charged' \subseteq charged \cup {c}
    BY <1>1 DEF Settle, queueVars
  <2>2. TypeOK' /\ Shapes'
    BY <1>0, <2>1 DEF TypeOK, Shapes, Elements
  <2>3. OfferedOnce'
    BY <1>0, <2>1 DEF TypeOK, OfferedOnce, Elements
  <2>4. Placed' /\ InOrder'
    BY <1>0, <2>1, OrderKept
  <2> QED
    BY <2>2, <2>3, <2>4 DEF AuditIInv
<1>2. ASSUME NEW c \in Calls, Log(c) PROVE AuditIInv'
  <2>1. /\ stage[c] = "settled" /\ stage' = [stage EXCEPT ![c] = "offered"]
        /\ offered' = Append(offered, c)
        /\ \/ lost' = lost \cup {c} /\ queue' = queue
           \/ queue' = Append(queue, c) /\ lost' = lost /\ Len(queue) < Capacity
        /\ UNCHANGED <<charged, connected, writing, rows>>
    BY <1>0, <1>2 DEF Log, Full, Enqueue, Shapes
  <2>2. Elements(offered') = Elements(offered) \cup {c} /\ c \notin Elements(offered)
    BY <1>0, <2>1, ElementsAppend DEF Shapes, OfferedOnce
  <2>3. Shapes'
    <3>1. offered' \in Seq(Calls) /\ rows' \in Seq(Calls)
      BY <1>0, <2>1 DEF Shapes
    <3>2. queue' \in Seq(Calls)
      <4>1. queue \in Seq(Calls) /\ Append(queue, c) \in Seq(Calls)
        BY <1>0 DEF Shapes
      <4> QED
        BY <2>1, <4>1
    <3>3. lost' \subseteq Calls
      BY <1>0, <2>1 DEF Shapes
    <3> QED
      BY <3>1, <3>2, <3>3 DEF Shapes
  <2>4. TypeOK'
    <3>1. Len(queue') <= Capacity
      BY <1>0, <2>1 DEF TypeOK, Shapes
    <3>2. \A seq \in {offered', queue', rows'} : Elements(seq) \subseteq Calls
      BY <2>3 DEF Shapes, Elements
    <3> QED
      BY <1>0, <2>1, <2>3, <3>1, <3>2 DEF TypeOK, Shapes
  <2>5. OfferedOnce'
    <3>1. \A i, j \in 1..Len(offered') : offered'[i] = offered'[j] => i = j
      <4>1. /\ Len(offered') = Len(offered) + 1 /\ Len(offered) \in Nat
            /\ \A i \in 1..Len(offered) :
                  offered'[i] = offered[i] /\ offered[i] \in Elements(offered)
            /\ offered'[Len(offered')] = c
        BY <1>0, <2>1 DEF Shapes, Elements
      <4>2. \A i \in 1..Len(offered') : i \in 1..Len(offered) \/ i = Len(offered')
        BY <4>1
      <4> QED
        BY <1>0, <2>2, <4>1, <4>2 DEF OfferedOnce
    <3>2. \A d \in Calls : d \in Elements(offered') <=> stage'[d] = "offered"
      BY <1>0, <2>1, <2>2 DEF OfferedOnce, TypeOK
    <3>3. \A d \in charged' : stage'[d] # "open"
      BY <1>0, <2>1 DEF OfferedOnce, TypeOK
    <3> QED
      BY <3>1, <3>2, <3>3 DEF OfferedOnce
  <2>6. /\ \A d \in Elements(offered) : Position(d)' = Position(d)
        /\ \A d \in Elements(offered) : Position(d) < Position(c)'
    BY <1>0, <2>1, <2>3, <2>5, PositionAppend
  <2>7. Elements(rows) \subseteq Elements(offered) /\ Held \subseteq Elements(offered)
    BY <1>0 DEF Placed
  <2>8. Elements(queue') = Elements(queue) \/ Elements(queue') = Elements(queue) \cup {c}
    BY <1>0, <2>1, ElementsAppend DEF Shapes
  <2>9. Placed'
    <3>1. CASE lost' = lost \cup {c} /\ queue' = queue
      <4>1. Held' = Held /\ Elements(rows') = Elements(rows)
        BY <2>1, <3>1 DEF Held
      <4>2. c \notin Elements(rows) \cup Held
        BY <2>2, <2>7
      <4> QED
        BY <1>0, <2>2, <3>1, <4>1, <4>2 DEF Placed
    <3>2. CASE queue' = Append(queue, c) /\ lost' = lost
      <4>1. Elements(queue') = Elements(queue) \cup {c}
        BY <1>0, <3>2, ElementsAppend DEF Shapes
      <4>2. Held' = Held \cup {c} /\ Elements(rows') = Elements(rows)
        BY <2>1, <4>1 DEF Held
      <4>3. c \notin lost
        BY <1>0, <2>2 DEF Placed
      <4> QED
        BY <1>0, <2>2, <3>2, <4>2, <4>3 DEF Placed
    <3> QED
      BY <2>1, <3>1, <3>2
  <2>10. InOrder'
    <3>a. \A seq \in {rows, queue} : \A i \in 1..Len(seq) :
            Position(seq[i])' = Position(seq[i]) /\ Position(seq[i]) < Position(c)'
      <4>1. \A seq \in {rows, queue} : \A i \in 1..Len(seq) : seq[i] \in Elements(seq)
        BY <1>0 DEF Elements, Shapes
      <4>2. \A seq \in {rows, queue} : Elements(seq) \subseteq Elements(offered)
        BY <2>7 DEF Held
      <4> QED
        BY <2>6, <4>1, <4>2
    <3>1. Ascending(rows)'
      BY <1>0, <2>1, <3>a DEF InOrder, Ascending
    <3>2. Ascending(queue)'
      <4>1. CASE queue' = queue
        BY <1>0, <3>a, <4>1 DEF InOrder, Ascending
      <4>2. CASE queue' = Append(queue, c)
        <5>1. /\ Len(queue') = Len(queue) + 1 /\ Len(queue) \in Nat
              /\ \A i \in 1..Len(queue) : queue'[i] = queue[i]
              /\ queue'[Len(queue) + 1] = c
          BY <1>0, <4>2 DEF Shapes
        <5>2. ASSUME NEW i \in 1..Len(queue'), NEW j \in 1..Len(queue'), i < j
              PROVE  (Position(queue[i]) < Position(queue[j]))'
          <6>1. i \in 1..Len(queue)
            BY <5>1, <5>2
          <6> DEFINE d == queue[i]
          <6>a. queue'[i] = d /\ Position(d)' = Position(d) /\ Position(d) < Position(c)'
            BY <3>a, <5>1, <6>1
          <6>2. CASE j \in 1..Len(queue)
            <7> DEFINE e == queue[j]
            <7>1. queue'[j] = e /\ Position(e)' = Position(e)
              BY <3>a, <5>1, <6>2
            <7>2. Position(d) < Position(e)
              BY <1>0, <5>2, <6>1, <6>2 DEF InOrder, Ascending
            <7> QED
              BY <6>a, <7>1, <7>2
          <6>3. CASE j = Len(queue) + 1
            BY <5>1, <6>a, <6>3
          <6> QED
            BY <5>1, <6>2, <6>3
        <5> QED
          BY <5>2 DEF Ascending
      <4> QED
        BY <2>1, <4>1, <4>2
    <3>3. Precede(Elements(rows), Held)'
      BY <1>0, <2>1, <2>6, <2>7, <2>8 DEF InOrder, Precede, Held
    <3>4. Precede({writing} \ {None}, Elements(queue))'
      BY <1>0, <2>1, <2>6, <2>7, <2>8 DEF InOrder, Precede, Held
    <3> QED
      BY <3>1, <3>2, <3>3, <3>4 DEF InOrder
  <2> QED
    BY <2>3, <2>4, <2>5, <2>9, <2>10 DEF AuditIInv
\* The other actions hand nothing over: positions stay what they are.
<1>b. ASSUME offered' = offered, Ascending(rows'), Ascending(queue'),
             Precede(Elements(rows'), Held'),
             Precede({writing'} \ {None}, Elements(queue'))
      PROVE  InOrder'
  BY <1>a, <1>b DEF InOrder, Ascending, Precede
<1>c. ASSUME offered' = offered, stage' = stage, charged' = charged
      PROVE  OfferedOnce'
  BY <1>0, <1>c DEF OfferedOnce
<1>d. ASSUME Shapes', stage' = stage, charged' = charged,
             connected' \in BOOLEAN, writing' \in Calls \cup {None},
             Len(queue') <= Capacity
      PROVE  TypeOK'
  <2>1. \A seq \in {offered', queue', rows'} : Elements(seq) \subseteq Calls
    BY <1>d DEF Shapes, Elements
  <2>2. lost' \subseteq Calls
    BY <1>d DEF Shapes
  <2> QED
    BY <1>0, <1>d, <2>1, <2>2 DEF TypeOK
<1>3. ASSUME Take PROVE AuditIInv'
  <2> DEFINE head == Head(queue)
  <2>1. /\ UNCHANGED <<stage, charged, connected, offered, rows>>
        /\ queue \in Seq(Calls) /\ queue # <<>>
        /\ writing = None /\ queue' = Tail(queue)
        /\ \/ writing' = head /\ lost' = lost
           \/ writing' = None /\ lost' = lost \cup {head}
    BY <1>0, <1>3 DEF Take, Ready, Dequeue, Shapes
  <2>2. /\ head \in Calls /\ head # None /\ Tail(queue) \in Seq(Calls)
        /\ Len(queue') = Len(queue) - 1 /\ Len(queue) \in Nat
        /\ Elements(queue) = {head} \cup Elements(queue')
    BY <2>1, ElementsTail
  <2>3. Ascending(queue') /\ Precede({head}, Elements(queue'))
    BY <1>0, <2>1, AscendingTail DEF InOrder
  <2> HIDE DEF head
  <2>4. Held = {head} \cup Elements(queue')
    BY <2>1, <2>2 DEF Held
  <2>5. head \in Elements(offered) /\ head \notin Elements(queue')
    <3>1. head \in Elements(offered)
      BY <1>0, <2>4 DEF Placed
    <3> QED
      BY <1>0, <2>3, <3>1, PositionType DEF Precede
  <2>6. Shapes'
    BY <1>0, <2>1, <2>2 DEF Shapes
  <2>7. TypeOK'
    <3>1. Len(queue') <= Capacity
      BY <1>0, <2>2 DEF TypeOK
    <3> QED
      BY <1>0, <1>d, <2>1, <2>2, <2>6, <3>1 DEF TypeOK
  <2>8. head \notin Elements(rows)
    BY <1>0, <2>4, <2>5, PositionType DEF InOrder, Precede
  <2>9. Held' \subseteq Held /\ Held' \cup lost' = Held \cup lost
    BY <2>1, <2>2, <2>4 DEF Held
  <2>10. Placed'
    <3>1. lost' \cap Held' = {}
      BY <1>0, <2>1, <2>2, <2>4, <2>5 DEF Placed, Held
    <3>2. lost' \cap Elements(rows') = {}
      BY <1>0, <2>1, <2>8 DEF Placed
    <3>3. Elements(rows') = Elements(rows) /\ Elements(offered') = Elements(offered)
      BY <2>1
    <3> QED
      BY <1>0, <2>9, <3>1, <3>2, <3>3 DEF Placed
  <2>11. InOrder'
    <3>1. Ascending(rows') /\ Precede(Elements(rows'), Held')
      BY <1>0, <2>1, <2>9 DEF InOrder, Precede
    <3>2. Precede({writing'} \ {None}, Elements(queue'))
      BY <2>1, <2>3 DEF Precede
    <3> QED
      BY <1>b, <2>1, <2>3, <3>1, <3>2
  <2> QED
    BY <1>0, <1>c, <2>1, <2>6, <2>7, <2>10, <2>11 DEF AuditIInv
\* An entry that is being written follows all rows and precedes all queued ones.
<1>e. ASSUME writing # None
      PROVE  /\ writing \in Calls /\ Append(rows, writing) \in Seq(Calls)
             /\ Elements(Append(rows, writing)) = Elements(rows) \cup {writing}
             /\ Ascending(Append(rows, writing))
             /\ Held = {writing} \cup Elements(queue)
             /\ writing \notin Elements(rows) \cup Elements(queue) \cup lost
             /\ Precede({writing}, Elements(queue))
  <2>1. writing \in Calls /\ rows \in Seq(Calls) /\ Held = {writing} \cup Elements(queue)
    BY <1>0, <1>e DEF TypeOK, Shapes, Held
  <2>2. Precede(Elements(rows), {writing}) /\ Precede({writing}, Elements(queue))
    BY <1>0, <1>e, <2>1 DEF InOrder, Precede
  <2>3. Ascending(Append(rows, writing))
    BY <1>0, <2>1, <2>2, AscendingAppend DEF InOrder
  <2>4. writing \in Elements(offered)
    BY <1>0, <2>1 DEF Placed
  <2>5. writing \notin Elements(rows) \cup Elements(queue)
    BY <1>0, <2>2, <2>4, PositionType DEF Precede
  <2>6. writing \notin lost
    BY <1>0, <2>1 DEF Placed
  <2> QED
    BY <2>1, <2>2, <2>3, <2>5, <2>6, ElementsAppend
<1>4. ASSUME Insert PROVE AuditIInv'
  <2>1. /\ UNCHANGED <<stage, charged, connected, offered, queue>>
        /\ writing # None /\ writing' = None
        /\ \/ rows' = Append(rows, writing) /\ lost' = lost
           \/ rows' = rows /\ lost' = lost \cup {writing}
    BY <1>4 DEF Insert, Written, GivenUp
  <2>2. Held' = Elements(queue)
    BY <2>1 DEF Held
  <2>3. Shapes'
    <3>1. rows' \in Seq(Calls)
      BY <1>0, <1>e, <2>1 DEF Shapes
    <3>2. lost' \subseteq Calls
      BY <1>0, <1>e, <2>1 DEF Shapes
    <3> QED
      BY <1>0, <2>1, <3>1, <3>2 DEF Shapes
  <2>4. TypeOK'
    BY <1>0, <1>d, <2>1, <2>3 DEF TypeOK
  <2>5. Placed'
    <3>1. CASE rows' = Append(rows, writing) /\ lost' = lost
      <4>1. Elements(rows') = Elements(rows) \cup {writing}
        BY <1>e, <2>1, <3>1
      <4> QED
        BY <1>0, <1>e, <2>1, <2>2, <3>1, <4>1 DEF Placed
    <3>2. CASE rows' = rows /\ lost' = lost \cup {writing}
      BY <1>0, <1>e, <2>1, <2>2, <3>2 DEF Placed
    <3> QED
      BY <2>1, <3>1, <3>2
  <2>6. InOrder'
    <3>1. Ascending(rows')
      BY <1>0, <1>e, <2>1 DEF InOrder
    <3>2. Precede(Elements(rows'), Held')
      BY <1>0, <1>e, <2>1, <2>2 DEF InOrder, Precede
    <3>3. Ascending(queue') /\ Precede({writing'} \ {None}, Elements(queue'))
      BY <1>0, <2>1 DEF InOrder, Precede
    <3> QED
      BY <1>b, <2>1, <3>1, <3>2, <3>3
  <2> QED
    BY <1>0, <1>c, <2>1, <2>3, <2>4, <2>5, <2>6 DEF AuditIInv
<1>5. ASSUME Crash PROVE AuditIInv'
  <2>1. /\ stage' = [c \in Calls |-> IF stage[c] = "settled" THEN "dead" ELSE stage[c]]
        /\ \/ rows' = rows /\ lost' = lost \cup Held
           \/ /\ writing # None
              /\ rows' = Append(rows, writing) /\ lost' = lost \cup Elements(queue)
        /\ queue' = <<>> /\ writing' = None
        /\ connected' \in BOOLEAN
        /\ charged' = charged /\ offered' = offered
    BY <1>5 DEF Crash
  <2>2. Elements(queue') = {} /\ Held' = {}
    BY <2>1, ElementsEmpty DEF Held
  <2>3. Held \subseteq Calls /\ Elements(queue) \subseteq Calls
    BY <1>0 DEF TypeOK, Held
  <2>4. Shapes'
    <3>1. rows' \in Seq(Calls)
      BY <1>0, <1>e, <2>1 DEF Shapes
    <3>2. lost' \subseteq Calls
      BY <1>0, <2>1, <2>3 DEF Shapes
    <3> QED
      BY <1>0, <2>1, <3>1, <3>2 DEF Shapes
  <2>5. TypeOK'
    <3>1. \A seq \in {offered', queue', rows'} : Elements(seq) \subseteq Calls
      BY <2>4 DEF Shapes, Elements
    <3>2. stage' \in [Calls -> {"open", "settled", "offered", "dead"}]
      BY <1>0, <2>1 DEF TypeOK
    <3>3. Len(queue') <= Capacity
      BY <2>1
    <3> QED
      BY <1>0, <2>1, <2>4, <3>1, <3>2, <3>3 DEF TypeOK, Shapes
  <2>6. OfferedOnce'
    <3>1. /\ \A c \in Calls : stage'[c] = "offered" <=> stage[c] = "offered"
          /\ \A c \in Calls : stage'[c] = "open" <=> stage[c] = "open"
      BY <2>1
    <3>2. Elements(offered') = Elements(offered) /\ charged \subseteq Calls
      BY <1>0, <2>1 DEF TypeOK
    <3>3. ASSUME NEW c \in Calls
          PROVE  c \in Elements(offered') <=> stage'[c] = "offered"
      <4>1. c \in Elements(offered) <=> stage[c] = "offered"
        BY <1>0 DEF OfferedOnce
      <4>2. stage'[c] = "offered" <=> stage[c] = "offered"
        BY <3>1, Zenon
      <4>3. c \in Elements(offered') <=> c \in Elements(offered)
        BY <3>2
      <4> QED
        BY <4>1, <4>2, <4>3
    <3>4. \A c \in charged' : stage'[c] # "open"
      BY <1>0, <2>1, <3>1, <3>2 DEF OfferedOnce
    <3> QED
      BY <1>0, <2>1, <3>3, <3>4 DEF OfferedOnce
  <2>7. Placed' /\ Ascending(rows')
    <3>1. CASE rows' = rows /\ lost' = lost \cup Held
      <4>1. Held \cap Elements(rows) = {}
        <5>1. Held \subseteq Elements(offered)
          BY <1>0 DEF Placed
        <5> QED
          BY <1>0, <5>1, PositionType DEF InOrder, Precede
      <4> QED
        BY <1>0, <2>1, <2>2, <3>1, <4>1 DEF Placed, InOrder
    <3>2. CASE /\ writing # None
               /\ rows' = Append(rows, writing) /\ lost' = lost \cup Elements(queue)
      <4>1. /\ Elements(rows') = Elements(rows) \cup {writing} /\ Ascending(rows')
            /\ Held = {writing} \cup Elements(queue)
            /\ writing \notin Elements(rows) \cup Elements(queue) \cup lost
        BY <1>e, <3>2
      <4>2. Elements(queue) \cap Elements(rows) = {}
        <5>1. Held \subseteq Elements(offered)
          BY <1>0 DEF Placed
        <5> QED
          BY <1>0, <4>1, <5>1, PositionType DEF InOrder, Precede
      <4> QED
        BY <1>0, <2>1, <2>2, <3>2, <4>1, <4>2 DEF Placed
    <3> QED
      BY <2>1, <3>1, <3>2
  <2>8. InOrder'
    <3>1. Ascending(queue')
      BY <2>1 DEF Ascending
    <3>2. /\ Precede(Elements(rows'), Held')
          /\ Precede({writing'} \ {None}, Elements(queue'))
      BY <2>2 DEF Precede
    <3> QED
      BY <1>b, <2>1, <2>7, <3>1, <3>2
  <2> QED
    BY <2>4, <2>5, <2>6, <2>7, <2>8 DEF AuditIInv
<1>6. ASSUME UNCHANGED vars PROVE AuditIInv'
  <2>1. UNCHANGED <<stage, charged, connected, offered, queue, writing, rows, lost>>
    BY <1>6 DEF vars, queueVars
  <2>2. TypeOK' /\ Shapes' /\ OfferedOnce'
    BY <1>0, <2>1 DEF TypeOK, Shapes, OfferedOnce
  <2>3. Placed' /\ InOrder'
    BY <1>0, <1>b, <2>1 DEF Placed, InOrder, Held
  <2> QED
    BY <2>2, <2>3 DEF AuditIInv
<1> QED
  BY <1>1, <1>2, <1>3, <1>4, <1>5, <1>6 DEF Next, Idle

\* The invariant holds in every state of every behaviour.
THEOREM AuditInvariant == Spec => []AuditIInv
BY AuditInitIInv, AuditNextIInv, PTL DEF Spec

\* Every variable keeps its type, and the channel never holds more than its
\* capacity, whatever the load and the failures.
THEOREM AuditTypeCorrect == Spec => []TypeOK
<1>1. AuditIInv => TypeOK
  BY DEF AuditIInv
<1> QED
  BY <1>1, AuditInvariant, PTL
\* The table keeps the order in which the calls were handed over, and so does
\* all that is still on its way to it: nothing is stored twice, nothing
\* overtakes, whatever is dropped, fails or dies.
THEOREM EntriesInOrder == Spec => []StoredInOrder
<1>1. AuditIInv => StoredInOrder
  <2> SUFFICES ASSUME AuditIInv PROVE StoredInOrder
    OBVIOUS
  <2>0. TypeOK /\ Shapes /\ OfferedOnce /\ Placed /\ InOrder
    BY DEF AuditIInv
  <2> DEFINE middle == IF writing = None THEN <<>> ELSE <<writing>>
             front == rows \o middle
             trail == front \o queue
  <2>1. middle \in Seq(Calls) /\ Elements(middle) = {writing} \ {None}
    <3>1. CASE writing = None
      BY <3>1, ElementsEmpty
    <3>2. CASE writing # None
      <4>1. writing \in Calls
        BY <2>0, <3>2 DEF TypeOK
      <4>2. Elements(<<writing>>) = {writing}
        BY DEF Elements
      <4> QED
        BY <3>2, <4>1, <4>2
    <3> QED
      BY <3>1, <3>2
  <2>2. Ascending(middle)
    <3>1. Len(middle) \in Nat /\ Len(middle) <= 1
      OBVIOUS
    <3> QED
      BY <3>1 DEF Ascending
  <2> HIDE DEF middle
  <2>3. /\ front \in Seq(Calls) /\ Ascending(front)
        /\ Elements(front) = Elements(rows) \cup Elements(middle)
    <3>1. Precede(Elements(rows), Elements(middle))
      BY <2>0, <2>1 DEF InOrder, Precede, Held
    <3> QED
      BY <2>0, <2>1, <2>2, <3>1, AscendingConcat DEF Shapes, InOrder
  <2> HIDE DEF front
  <2>4. trail \in Seq(Calls) /\ Ascending(trail)
    <3>1. Precede(Elements(front), Elements(queue))
      BY <2>0, <2>1, <2>3 DEF InOrder, Precede, Held
    <3> QED
      BY <2>0, <2>3, <3>1, AscendingConcat DEF Shapes, InOrder
  <2>5. DOMAIN trail = 1..Len(trail)
    BY <2>4
  <2> HIDE DEF trail
  <2>6. \A i, j \in DOMAIN trail : i < j => Position(trail[i]) < Position(trail[j])
    BY <2>4, <2>5 DEF Ascending
  <2> QED
    BY <2>6 DEF StoredInOrder, trail, front, middle
<1> QED
  BY <1>1, AuditInvariant, PTL

\* Every call that was charged is in exactly one of the places where its entry
\* can be: none is forgotten, none is counted as lost and stored as well.
THEOREM NothingForgotten == Spec => []ChargedAccounted
<1>1. AuditIInv => ChargedAccounted
  <2> SUFFICES ASSUME AuditIInv, NEW c \in charged
               PROVE  Cardinality({place \in {"handler", "held", "stored", "lost"} :
                        CASE place = "handler" -> stage[c] \in {"settled", "dead"}
                          [] place = "held" -> c \in Held
                          [] place = "stored" -> c \in Elements(rows)
                          [] place = "lost" -> c \in lost}) = 1
    BY DEF ChargedAccounted
  <2>0. TypeOK /\ Shapes /\ OfferedOnce /\ Placed /\ InOrder
    BY DEF AuditIInv
  <2> DEFINE At(place) == CASE place = "handler" -> stage[c] \in {"settled", "dead"}
                            [] place = "held" -> c \in Held
                            [] place = "stored" -> c \in Elements(rows)
                            [] place = "lost" -> c \in lost
             places == {place \in {"handler", "held", "stored", "lost"} : At(place)}
  <2>1. /\ At("handler") <=> stage[c] \in {"settled", "dead"}
        /\ At("held") <=> c \in Held
        /\ At("stored") <=> c \in Elements(rows)
        /\ At("lost") <=> c \in lost
    OBVIOUS
  <2> HIDE DEF At
  <2>2. /\ c \in Calls /\ stage[c] \in {"settled", "offered", "dead"}
        /\ c \in Elements(offered) <=> stage[c] = "offered"
    BY <2>0 DEF TypeOK, OfferedOnce
  <2>3. /\ c \in Elements(rows) \cup Held \cup lost <=> c \in Elements(offered)
        /\ c \in lost => c \notin Elements(rows) \cup Held
    BY <2>0 DEF Placed
  <2>4. c \in Elements(rows) => c \notin Held
    BY <2>0, <2>3, PositionType DEF InOrder, Precede
  <2>5. \E place \in {"handler", "held", "stored", "lost"} : places = {place}
    BY <2>1, <2>2, <2>3, <2>4
  <2>6. Cardinality(places) = 1
    BY <2>5, FS_Singleton
  <2> QED
    BY <2>6 DEF places, At
<1> QED
  BY <1>1, AuditInvariant, PTL
=============================================================================
