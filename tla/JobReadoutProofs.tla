--------------------------- MODULE JobReadoutProofs ---------------------------
(***************************************************************************)
(* From submission to result: what is read of a program's results is what  *)
(* the client's program says, for all devices, programs, widths of the     *)
(* register of bits and orders in which the service lists the qubits.      *)
(***************************************************************************)
EXTENDS JobProgramsProofs

-----------------------------------------------------------------------------
(* The first and the last element of a selection.                          *)

(* The value x is the first, or the last, of p up to n that is in S.       *)
FirstIn(p, S, n, x) ==
  \E j \in 1 .. n : p[j] \in S /\ x = p[j] /\ \A m \in 1 .. n : p[m] \in S => j <= m
LastIn(p, S, n, x) ==
  \E j \in 1 .. n : p[j] \in S /\ x = p[j] /\ \A m \in 1 .. n : p[m] \in S => m <= j

(* What f begins and ends with.                                            *)
Ends(p, S, n, f) ==
  /\ f = <<>> <=> \A m \in 1 .. n : p[m] \notin S
  /\ f # <<>> => FirstIn(p, S, n, f[1]) /\ LastIn(p, S, n, f[Len(f)])

(* One more element of p.                                                  *)
LEMMA EndsAppend ==
  ASSUME NEW X, NEW p, NEW S, NEW k \in Nat \ {0}, NEW f \in Seq(X), Ends(p, S, k - 1, f),
         p[k] \in X, p[k] \in S
  PROVE  Ends(p, S, k, Longer(f, p[k]))
  <1> DEFINE g == Append(f, p[k])
  <1>1. /\ Len(f) \in Nat /\ g \in Seq(X) /\ Len(g) = Len(f) + 1
        /\ g[Len(f) + 1] = p[k] /\ \A i \in 1 .. Len(f) : g[i] = f[i]
    BY AppendProperties
  <1>2. g # <<>> /\ g[Len(g)] = p[k]
    BY <1>1, EmptySeq
  <1>3. k \in 1 .. k /\ \A m \in 1 .. k : m = k \/ m \in 1 .. k - 1
    OBVIOUS
  <1>4. \A m \in 1 .. k - 1 : m \in 1 .. k /\ m <= k
    OBVIOUS
  <1>5. LastIn(p, S, k, p[k])
    BY <1>3, <1>4 DEF LastIn
  <1>6. FirstIn(p, S, k, g[1])
    <2>1. CASE f = <<>>
      <3>1. Len(f) = 0 /\ \A m \in 1 .. k - 1 : p[m] \notin S
        BY <2>1, EmptySeq DEF Ends
      <3>2. g[1] = p[k]
        BY <1>1, <3>1
      <3> QED
        BY <1>3, <3>1, <3>2 DEF FirstIn
    <2>2. CASE f # <<>>
      <3>1. PICK j \in 1 .. k - 1 : /\ p[j] \in S /\ f[1] = p[j]
                                    /\ \A m \in 1 .. k - 1 : p[m] \in S => j <= m
        BY <2>2 DEF Ends, FirstIn
      <3>2. Len(f) # 0
        BY <2>2, EmptySeq
      <3>3. g[1] = p[j]
        BY <1>1, <3>1, <3>2
      <3>4. j \in 1 .. k /\ \A m \in 1 .. k : p[m] \in S => j <= m
        BY <1>3, <1>4, <3>1
      <3> QED
        BY <3>1, <3>3, <3>4 DEF FirstIn
    <2> QED
      BY <2>1, <2>2
  <1> HIDE DEF g
  <1>7. Ends(p, S, k, g)
    BY <1>2, <1>3, <1>5, <1>6 DEF Ends
  <1> QED
    BY <1>7 DEF g, Longer

(* An element of p that is not in S.                                       *)
LEMMA EndsSkip ==
  ASSUME NEW p, NEW S, NEW k \in Nat \ {0}, NEW f, Ends(p, S, k - 1, f), p[k] \notin S
  PROVE  Ends(p, S, k, f)
  <1>1. \A m \in 1 .. k : m = k \/ m \in 1 .. k - 1
    OBVIOUS
  <1>2. \A m \in 1 .. k - 1 : m \in 1 .. k
    OBVIOUS
  <1>3. f = <<>> <=> \A m \in 1 .. k : p[m] \notin S
    BY <1>1, <1>2 DEF Ends
  <1>4. \A x : FirstIn(p, S, k - 1, x) => FirstIn(p, S, k, x)
    BY <1>1, <1>2 DEF FirstIn
  <1>5. \A x : LastIn(p, S, k - 1, x) => LastIn(p, S, k, x)
    BY <1>1, <1>2 DEF LastIn
  <1> QED
    BY <1>3, <1>4, <1>5 DEF Ends

(* Every selection.                                                        *)
LEMMA SelectionEnds ==
  ASSUME NEW p, IsSeq(p), NEW S
  PROVE  Ends(p, S, Len(p), Selection(p, S))
  <1> DEFINE X == ToSet(p)
             f == Selected(p, S)
             T == {n \in 0 .. Len(p) : Ends(p, S, n, f[n])}
  <1>1. Len(p) \in Nat /\ \A n \in 1 .. Len(p) : p[n] \in X
    BY SeqFacts
  <1>2. f[0] = <<>> /\ \A n \in 1 .. Len(p) :
          f[n] = IF p[n] \in S THEN Append(f[n - 1], p[n]) ELSE f[n - 1]
    BY <1>1, SelectedEquation
  <1>3. \A n \in 0 .. Len(p) : f[n] \in Seq(X \intersect S)
    BY SelectedIsSeq DEF IsSeq
  <1>4. Selection(p, S) = f[Len(p)]
    BY DEF Selection
  <1> HIDE DEF f, X
  <1>5. 0 \in T
    <2>1. Ends(p, S, 0, f[0])
      BY <1>2 DEF Ends
    <2>2. 0 \in 0 .. Len(p)
      BY <1>1
    <2> QED
      BY <2>1, <2>2
  <1>6. ASSUME NEW k \in 1 .. Len(p), k - 1 \in T PROVE k \in T
    <2>1. k \in Nat \ {0} /\ k \in 0 .. Len(p) /\ k - 1 \in 0 .. Len(p)
      BY <1>1
    <2>2. Ends(p, S, k - 1, f[k - 1])
      BY <1>6
    <2>3. CASE p[k] \in S
      <3>1. f[k - 1] \in Seq(X \intersect S) /\ p[k] \in X \intersect S
        BY <1>1, <1>3, <2>1, <2>3
      <3>2. Ends(p, S, k, Longer(f[k - 1], p[k]))
        BY <2>1, <2>2, <2>3, <3>1, EndsAppend
      <3>3. f[k] = Append(f[k - 1], p[k])
        BY <1>2, <2>3
      <3>4. Ends(p, S, k, f[k])
        BY <3>2, <3>3, Zenon DEF Longer
      <3> QED
        BY <2>1, <3>4
    <2>4. CASE p[k] \notin S
      <3>1. f[k] = f[k - 1]
        BY <1>2, <2>4
      <3>2. Ends(p, S, k, f[k])
        BY <2>1, <2>2, <2>4, <3>1, EndsSkip
      <3> QED
        BY <2>1, <3>2
    <2> QED
      BY <2>3, <2>4
  <1> HIDE DEF T
  <1>7. \A k \in 0 .. Len(p) : k \in T
    BY <1>1, <1>5, <1>6, UpTo
  <1>8. Len(p) \in T
    BY <1>1, <1>7
  <1> QED
    BY <1>4, <1>8 DEF T

(* What came before a statement.                                           *)
LEMMA BeforeFacts ==
  ASSUME NEW p, IsSeq(p), NEW i \in DOMAIN p
  PROVE  /\ IsSeq(Before(p, i)) /\ Len(Before(p, i)) = i - 1 /\ i \in Nat \ {0}
         /\ \A j \in 1 .. i - 1 : Before(p, i)[j] = p[j] /\ j \in DOMAIN p
         /\ ToSet(Before(p, i)) \subseteq ToSet(p)
  <1>1. Len(p) \in Nat /\ DOMAIN p = 1 .. Len(p) /\ p \in Seq(ToSet(p))
    BY SeqFacts DEF IsSeq
  <1>2. i \in Nat \ {0} /\ i - 1 \in 0 .. Len(p) /\ i - 1 \in Int
        /\ \A j \in 1 .. i - 1 : j \in 1 .. Len(p)
    BY <1>1
  <1>3. /\ Before(p, i) \in Seq(ToSet(p)) /\ Len(Before(p, i)) = i - 1
        /\ \A j \in 1 .. i - 1 : Before(p, i)[j] = p[j]
    BY <1>1, <1>2, SubSeqProperties DEF Before
  <1> QED
    BY <1>1, <1>2, <1>3, IsSeqOf

(* The last of a bounded set of naturals.                                  *)
LEMMA MaxIsGreatest ==
  ASSUME NEW n \in Nat, NEW T, T \subseteq 1 .. n, T # {}
  PROVE  Max(T) \in T /\ (\A m \in T : m <= Max(T))
         /\ \A j \in T : (\A m \in T : m <= j) => j = Max(T)
  <1> DEFINE U == {n - m : m \in T}
  <1>0. \A m \in T : m \in 1 .. n /\ m \in Int
    OBVIOUS
  <1>1. U \subseteq Nat /\ U # {}
    <2>1. \A m \in T : n - m \in Nat
      BY <1>0
    <2> QED
      BY <2>1
  <1>2. PICK u \in U : \A m \in U : u <= m
    BY <1>1, LeastNumber
  <1>3. PICK j \in T : u = n - j
    BY <1>2
  <1>4. \A m \in T : n - j <= n - m /\ m \in Int
    BY <1>2, <1>3
  <1>5. \A m \in T : j >= m
    BY <1>4
  <1>6. Max(T) \in T /\ \A m \in T : Max(T) >= m
    BY <1>3, <1>5 DEF Max
  <1> DEFINE x == Max(T)
  <1> HIDE DEF x, U
  <1>7. x \in T /\ x \in Int /\ \A m \in T : m <= x
    BY <1>0, <1>6 DEF x
  <1>8. ASSUME NEW k \in T, \A m \in T : m <= k PROVE k = x
    <2>1. x <= k /\ k <= x /\ k \in Int
      BY <1>0, <1>7, <1>8
    <2> QED
      BY <1>7, <2>1
  <1> QED
    BY <1>7, <1>8 DEF x

(* The positions of the elements that are in T.                            *)
Where(s, T) == {i \in DOMAIN s : s[i] \in T}

(* The last of them is where a selection ends.                             *)
LEMMA LastWhere ==
  ASSUME NEW s, IsSeq(s), NEW T
  PROVE  /\ Where(s, T) = {} <=> Selection(s, T) = <<>>
         /\ Where(s, T) # {} => /\ Max(Where(s, T)) \in Where(s, T)
                                /\ s[Max(Where(s, T))] = Last(Selection(s, T))
  <1> DEFINE W == Where(s, T)
             f == Selection(s, T)
  <1>1. Len(s) \in Nat /\ DOMAIN s = 1 .. Len(s)
    BY SeqFacts
  <1>2. Ends(s, T, Len(s), f)
    BY SelectionEnds
  <1>3. W \subseteq 1 .. Len(s) /\ \A m \in 1 .. Len(s) : s[m] \in T <=> m \in W
    BY <1>1 DEF Where
  <1> HIDE DEF W, f
  <1>4. W = {} <=> f = <<>>
    BY <1>2, <1>3 DEF Ends
  <1>5. ASSUME W # {} PROVE Max(W) \in W /\ s[Max(W)] = Last(f)
    <2>1. LastIn(s, T, Len(s), f[Len(f)])
      BY <1>2, <1>4, <1>5 DEF Ends
    <2>2. PICK j \in 1 .. Len(s) : /\ s[j] \in T /\ f[Len(f)] = s[j]
                                   /\ \A m \in 1 .. Len(s) : s[m] \in T => m <= j
      BY <2>1 DEF LastIn
    <2>3. j \in W /\ \A m \in W : m <= j
      BY <1>3, <2>2
    <2>4. j = Max(W) /\ Max(W) \in W
      BY <1>1, <1>3, <1>5, <2>3, MaxIsGreatest
    <2> QED
      BY <2>2, <2>4 DEF Last
  <1> QED
    BY <1>4, <1>5 DEF W, f

(* The first statement of some kinds.                                      *)
FirstOf(p, K, n, x) ==
  \E j \in 1 .. n : /\ p[j].kind \in K /\ x = p[j]
                    /\ \A m \in 1 .. n : p[m].kind \in K => j <= m

(* A selection has something if there is something to select.              *)
LEMMA HasMeans ==
  ASSUME NEW p, IsSeq(p), NEW K
  PROVE  /\ Has(p, K) <=> \E j \in 1 .. Len(p) : p[j].kind \in K
         /\ Has(p, K) => FirstOf(p, K, Len(p), Of(p, K)[1])
  <1> DEFINE S == {s \in ToSet(p) : s.kind \in K}
  <1>1. Len(p) \in Nat /\ \A j \in 1 .. Len(p) : p[j] \in S <=> p[j].kind \in K
    BY SeqFacts
  <1>2. Of(p, K) = Selection(p, S)
    BY DEF Of
  <1>3. Ends(p, S, Len(p), Of(p, K))
    BY <1>2, SelectionEnds
  <1> HIDE DEF S
  <1>4. Has(p, K) <=> \E j \in 1 .. Len(p) : p[j].kind \in K
    BY <1>1, <1>3 DEF Ends, Has
  <1>5. Has(p, K) => FirstIn(p, S, Len(p), Of(p, K)[1])
    BY <1>3 DEF Ends, Has
  <1>6. \A x : FirstIn(p, S, Len(p), x) => FirstOf(p, K, Len(p), x)
    BY <1>1 DEF FirstIn, FirstOf
  <1> QED
    BY <1>4, <1>5, <1>6

(* What comes before a statement begins like the program.                  *)
LEMMA BeforeHas ==
  ASSUME NEW p, IsSeq(p), NEW i \in DOMAIN p, NEW K
  PROVE  /\ Has(Before(p, i), K) <=> \E j \in 1 .. i - 1 : p[j].kind \in K
         /\ Has(Before(p, i), K) => Has(p, K) /\ Of(Before(p, i), K)[1] = Of(p, K)[1]
  <1> DEFINE b == Before(p, i)
  <1>1. Len(p) \in Nat /\ DOMAIN p = 1 .. Len(p) /\ i \in 1 .. Len(p)
    BY SeqFacts
  <1>2. IsSeq(b) /\ Len(b) = i - 1 /\ \A j \in 1 .. i - 1 : b[j] = p[j] /\ j \in 1 .. Len(p)
    BY <1>1, BeforeFacts
  <1> HIDE DEF b
  <1>3. Has(b, K) <=> \E j \in 1 .. i - 1 : p[j].kind \in K
    BY <1>2, HasMeans
  <1>4. Has(p, K) <=> \E j \in 1 .. Len(p) : p[j].kind \in K
    BY HasMeans
  <1>5. ASSUME Has(b, K) PROVE Of(b, K)[1] = Of(p, K)[1] /\ Has(p, K)
    <2>1. Has(p, K)
      BY <1>2, <1>3, <1>4, <1>5
    <2>2. FirstOf(p, K, Len(p), Of(p, K)[1]) /\ FirstOf(b, K, i - 1, Of(b, K)[1])
      BY <1>2, <1>5, <2>1, HasMeans
    <2>3. PICK j \in 1 .. Len(p) : /\ p[j].kind \in K /\ Of(p, K)[1] = p[j]
                                   /\ \A m \in 1 .. Len(p) : p[m].kind \in K => j <= m
      BY <2>2 DEF FirstOf
    <2>4. PICK k \in 1 .. i - 1 : /\ b[k].kind \in K /\ Of(b, K)[1] = b[k]
                                  /\ \A m \in 1 .. i - 1 : b[m].kind \in K => k <= m
      BY <2>2 DEF FirstOf
    <2>5. b[k] = p[k] /\ k \in 1 .. Len(p)
      BY <1>2, <2>4
    <2>6. j <= k /\ j \in 1 .. i - 1
      BY <1>1, <2>3, <2>4, <2>5
    <2>7. b[j] = p[j]
      BY <1>2, <2>6
    <2>8. k <= j
      BY <2>3, <2>4, <2>6, <2>7
    <2>9. j = k
      BY <2>6, <2>8
    <2> QED
      BY <2>1, <2>3, <2>4, <2>5, <2>9
  <1> QED
    BY <1>3, <1>5 DEF b

(* A register declared before a statement is the program's.                *)
LEMMA BeforeRegister ==
  ASSUME NEW p, IsSeq(p), NEW i \in DOMAIN p, NEW k, Has(Before(p, i), {k})
  PROVE  /\ Register(Before(p, i), k) = Register(p, k)
         /\ Width(Before(p, i), k) = Width(p, k)
  BY BeforeHas DEF Register, Width

-----------------------------------------------------------------------------
(* A selection has every element that is selected.                         *)
LEMMA SelectionHasAll ==
  ASSUME NEW p, IsSeq(p), NEW S, NEW x \in ToSet(p), x \in S
  PROVE  x \in ToSet(Selection(p, S))
  <1> SUFFICES ASSUME x \notin ToSet(Selection(p, S)) PROVE FALSE
    OBVIOUS
  <1>1. Selection(p, S) \in Seq(ToSet(p) \intersect S) /\ p \in Seq(ToSet(p))
    BY SelectedIsSeq DEF IsSeq
  <1>2. \A s \in ToSet(Selection(p, S)) : s \notin {x}
    OBVIOUS
  <1>3. Selection(Selection(p, S), {x}) = <<>>
    BY <1>1, <1>2, SelectionOfNone
  <1>4. Selection(Selection(p, S), {x}) = Selection(p, S \intersect {x})
    BY <1>1, SelectionTwice
  <1>5. S \intersect {x} = {x}
    OBVIOUS
  <1>6. Selection(p, {x}) = <<>>
    BY <1>3, <1>4, <1>5
  <1>7. PICK j \in DOMAIN p : x = p[j]
    BY SeqFacts
  <1>8. j \in 1 .. Len(p)
    BY <1>7, SeqFacts
  <1>9. Ends(p, {x}, Len(p), Selection(p, {x}))
    BY SelectionEnds
  <1> QED
    BY <1>6, <1>7, <1>8, <1>9 DEF Ends

(* So has that of the statements of some kinds.                            *)
LEMMA OfHasAll ==
  ASSUME NEW p, IsSeq(p), NEW K, NEW s \in ToSet(p), s.kind \in K
  PROVE  s \in ToSet(Of(p, K))
  BY SelectionHasAll DEF Of

-----------------------------------------------------------------------------
(* Two well-formed parts.                                                  *)
LEMMA JoinedWellFormed ==
  ASSUME NEW x, NEW y, WellFormed(x), WellFormed(y)
  PROVE  WellFormed(Joined(x, y))
  <1>1. IsSeq(x) /\ IsSeq(y)
    BY ProgramIsSeq
  <1>2. IsSeq(Joined(x, y)) /\ ToSet(Joined(x, y)) = ToSet(x) \union ToSet(y)
    BY <1>1, ConcatIsSeq DEF Joined
  <1> QED
    BY <1>2 DEF WellFormed, IsSeq

(* Some statements of a program.                                           *)
LEMMA PartWellFormed ==
  ASSUME NEW p, WellFormed(p), NEW y, IsSeq(y), ToSet(y) \subseteq ToSet(p)
  PROVE  WellFormed(y)
  BY DEF WellFormed, IsSeq

(* A device's qubit.                                                       *)
LEMMA ReferenceIsWellFormed ==
  ASSUME NEW p, WellFormed(p), NEW a, NEW n \in Sites(p)
  PROVE  Reference(a, p, n) \in [reg : {Reference(a, p, n).reg}, index : Nat]
  <1>1. n \in Nat /\ Sites(p) \subseteq Nat /\ IsFiniteSet(Sites(p))
    BY SitesAreNumbers
  <1>2. {s \in Sites(p) : s < n} \subseteq Sites(p)
    OBVIOUS
  <1>3. Dense(p, n) \in Nat
    BY <1>1, <1>2, FS_Subset, FS_CardinalityType DEF Dense
  <1> QED
    BY <1>1, <1>3 DEF Reference

(* Renamed statements are well-formed.                                     *)
LEMMA RewrittenWellFormed ==
  ASSUME NEW p, WellFormed(p), NEW a, NEW st, IsSeq(st),
         ToSet(st) \subseteq ToSet(Kept(p)) \union ToSet(Of(p, {"assign"}))
  PROVE  WellFormed(Rewritten(a, p, st)) /\ Renamed(a, p, st, Rewritten(a, p, st))
  <1> DEFINE new == Rewritten(a, p, st)
  <1>1. \A s \in ToSet(st) :
          /\ s \in ToSet(p) /\ "refs" \in DOMAIN s /\ IsSeq(s.refs)
          /\ \A r \in ToSet(s.refs) : r.index \in Sites(p)
    BY SitesAreNumbers
  <1>2. \A s \in ToSet(st) : s.kind \in {"gate", "assign"}
    BY KeptIsSeq, OfIsSeq, ProgramIsSeq
  <1>3. Renamed(a, p, st, new)
    BY <1>1, RewrittenStatements DEF HaveRefs
  <1>4. IsSeq(new) /\ DOMAIN new = DOMAIN st
        /\ \A i \in DOMAIN st : RenamedAs(a, p, st[i], new[i])
    BY <1>3 DEF Renamed
  <1>5. \A i \in DOMAIN st : new[i] = [st[i] EXCEPT !.refs =
                                         [k \in DOMAIN @ |-> Reference(a, p, @[k].index)]]
    BY DEF Rewritten
  <1> HIDE DEF new
  <1>6. ASSUME NEW i \in DOMAIN st PROVE WellFormedStatement(new[i])
    <2> DEFINE s == st[i]
               t == new[i]
               refs == [k \in DOMAIN s.refs |-> Reference(a, p, s.refs[k].index)]
    <2>1. s \in ToSet(st)
      BY SeqFacts
    <2>2. /\ s \in ToSet(p) /\ "refs" \in DOMAIN s /\ IsSeq(s.refs)
          /\ \A r \in ToSet(s.refs) : r.index \in Sites(p)
          /\ s.kind \in {"gate", "assign"}
      BY <1>1, <1>2, <2>1
    <2>3. WellFormedStatement(s)
      BY <2>2 DEF WellFormed
    <2>4. t = [s EXCEPT !.refs = [k \in DOMAIN @ |-> Reference(a, p, @[k].index)]]
      BY <1>5
    <2>5. t.kind = s.kind /\ t.refs = refs
      BY <1>4 DEF RenamedAs
    <2>6. Len(s.refs) \in Nat /\ DOMAIN s.refs = 1 .. Len(s.refs)
          /\ \A k \in DOMAIN s.refs : s.refs[k] \in ToSet(s.refs)
      BY <2>2, SeqFacts
    <2>7. IsSeq(refs) /\ Len(refs) = Len(s.refs) /\ DOMAIN refs = DOMAIN s.refs
      BY <2>6, FunctionIsSeq
    <2>8. ASSUME NEW r \in ToSet(refs) PROVE r \in [reg : {r.reg}, index : Nat]
      <3>1. PICK k \in DOMAIN refs : r = refs[k]
        BY <2>7, SeqFacts
      <3>2. r = Reference(a, p, s.refs[k].index) /\ s.refs[k].index \in Sites(p)
        BY <2>2, <2>6, <2>7, <3>1
      <3> QED
        BY <3>2, ReferenceIsWellFormed
    <2> HIDE DEF s, refs
    <2>9. t = [s EXCEPT !.refs = refs]
      BY <2>4 DEF refs
    <2> HIDE DEF t
    <2>10. DOMAIN t = DOMAIN s
      BY <2>9
    <2>11. ASSUME s.kind = "assign"
           PROVE  /\ {"name", "slot"} \subseteq DOMAIN t
                  /\ t.slot \in Nat /\ Len(t.refs) = 1
      <3>1. {"name", "slot"} \subseteq DOMAIN s /\ s.slot \in Nat /\ Len(s.refs) = 1
        BY <2>3, <2>11 DEF WellFormedStatement
      <3>2. t.slot = s.slot
        BY <2>9, <3>1
      <3> QED
        BY <2>5, <2>7, <2>10, <3>1, <3>2
    <2>12. "refs" \in DOMAIN t /\ t.refs \in Seq(ToSet(t.refs))
      BY <2>2, <2>5, <2>7, <2>10 DEF IsSeq
    <2>13. \A r \in ToSet(t.refs) : r \in [reg : {r.reg}, index : Nat]
      BY <2>5, <2>8
    <2>14. t.kind \notin {"init", "bit"}
      BY <2>2, <2>5
    <2> QED
      BY <2>5, <2>11, <2>12, <2>13, <2>14 DEF WellFormedStatement, t
  <1>7. \A t \in ToSet(new) : WellFormedStatement(t)
    BY <1>4, <1>6, SeqFacts
  <1> QED
    BY <1>3, <1>4, <1>7 DEF WellFormed, IsSeq, new

(* Adaptation makes well-formed programs of well-formed programs.          *)
LEMMA AdaptedIsWellFormed ==
  ASSUME NEW p, WellFormed(p), NEW a
  PROVE  WellFormed(AdaptProgram(p, a))
  <1> DEFINE q == QubitRegister(a, p)
             b == Of(p, {"bit"})
             i == Initialization(p)
             v == Verbatim(a)
             k == Rewritten(a, p, Kept(p))
             m == Rewritten(a, p, Of(p, {"assign"}))
             u == Supplement(a, p)
             x == Seven(q, b, i, v, k, m, u)
  <1>1. CASE ~IsNative(p, a)
    BY <1>1, OtherParts, PartWellFormed
  <1>2. CASE IsNative(p, a)
    <2>1. AdaptProgram(p, a) = x
      BY <1>2, Zenon DEF AdaptProgram, Seven, Joined
    <2>2. /\ IsSeq(q) /\ \A s \in ToSet(q) : s.kind = "qubit"
          /\ IsSeq(i) /\ \A s \in ToSet(i) : s.kind = "init"
          /\ IsSeq(v) /\ \A s \in ToSet(v) : s.kind = "verbatim"
          /\ IsSeq(u) /\ \A s \in ToSet(u) : s.kind = "measure"
      BY AdaptedParts
    <2>3. WellFormed(q) /\ WellFormed(v)
      BY <2>2 DEF WellFormed, WellFormedStatement, IsSeq
    <2>4. WellFormed(b)
      BY OfIsSeq, ProgramIsSeq, PartWellFormed
    <2>5. WellFormed(i)
      <3> DEFINE inits == Of(p, {"init"})
      <3>1. IsSeq(inits) /\ ToSet(inits) \subseteq ToSet(p)
        BY OfIsSeq, ProgramIsSeq
      <3>2. i = IF inits = <<>> THEN <<>> ELSE <<Last(inits)>>
        BY DEF Initialization
      <3> HIDE DEF inits, i
      <3>3. ASSUME inits # <<>> PROVE Last(inits) \in ToSet(inits)
        <4>1. Len(inits) \in DOMAIN inits
          BY <3>1, <3>3, SeqFacts, EmptySeq DEF IsSeq
        <4> QED
          BY <3>1, <4>1, SeqFacts DEF Last
      <3>4. ToSet(i) \subseteq ToSet(p)
        BY <3>1, <3>2, <3>3, EmptyIsSeq, SingleIsSeq
      <3> QED
        BY <2>2, <3>4, PartWellFormed DEF i
    <2>6. WellFormed(k)
      <3>1. IsSeq(Kept(p))
        BY KeptIsSeq, ProgramIsSeq
      <3> QED
        BY <3>1, RewrittenWellFormed
    <2>7. WellFormed(m)
      <3>1. IsSeq(Of(p, {"assign"}))
        BY OfIsSeq, ProgramIsSeq
      <3> QED
        BY <3>1, RewrittenWellFormed
    <2>8. WellFormed(u)
      <3> DEFINE rest == IF a.requiresAllQubitsMeasurement THEN Sites(p) \ Measured(p) ELSE {}
                 sorted == Ascending(rest)
      <3>1. rest \subseteq Sites(p) /\ IsFiniteSet(rest) /\ rest \subseteq Nat
        BY SitesAreNumbers, FS_Subset
      <3> HIDE DEF rest
      <3>2. \A j \in DOMAIN sorted : sorted[j] \in rest
        BY <3>1, AscendingListsAll, SeqFacts
      <3>3. u = [j \in DOMAIN sorted |->
                   [kind |-> "measure", refs |-> <<Reference(a, p, sorted[j])>>]]
        BY DEF Supplement, Ascending, rest
      <3> HIDE DEF sorted, u
      <3>4. ASSUME NEW s \in ToSet(u) PROVE WellFormedStatement(s)
        <4>1. PICK j \in DOMAIN u : s = u[j]
          BY DEF ToSet
        <4> DEFINE r == Reference(a, p, sorted[j])
        <4>2. s = [kind |-> "measure", refs |-> <<r>>] /\ sorted[j] \in Sites(p)
          BY <3>1, <3>2, <3>3, <4>1
        <4>3. r \in [reg : {r.reg}, index : Nat]
          BY <4>2, ReferenceIsWellFormed
        <4> HIDE DEF r
        <4>4. IsSeq(<<r>>) /\ ToSet(<<r>>) = {r}
          BY SingleIsSeq
        <4>5. s.kind = "measure" /\ s.refs = <<r>> /\ "refs" \in DOMAIN s
          BY <4>2
        <4> QED
          BY <4>3, <4>4, <4>5 DEF WellFormedStatement, IsSeq
      <3> QED
        BY <2>2, <3>4 DEF WellFormed, IsSeq, u
    <2> HIDE DEF q, b, i, v, k, m, u
    <2>9. WellFormed(Joined(Joined(q, b), i))
      BY <2>3, <2>4, <2>5, JoinedWellFormed
    <2>10. WellFormed(Joined(Joined(Joined(Joined(q, b), i), v), k))
      BY <2>3, <2>6, <2>9, JoinedWellFormed
    <2>11. WellFormed(Joined(Joined(Joined(Joined(Joined(Joined(q, b), i), v), k), m), u))
      BY <2>7, <2>8, <2>10, JoinedWellFormed
    <2> QED
      BY <2>1, <2>11 DEF Seven
  <1> QED
    BY <1>1, <1>2

-----------------------------------------------------------------------------
(* What a statement has besides its qubits.                                *)
LEMMA BareKeeps ==
  ASSUME NEW s, NEW t, {"name", "slot"} \subseteq DOMAIN s, Bare(t) = Bare(s)
  PROVE  t.name = s.name /\ t.slot = s.slot
  <1>1. DOMAIN Bare(t) = DOMAIN t /\ DOMAIN Bare(s) = DOMAIN s
    BY DEF Bare
  <1>2. {"name", "slot"} \subseteq DOMAIN t
    BY <1>1
  <1>3. /\ Bare(t).name = t.name /\ Bare(t).slot = t.slot
        /\ Bare(s).name = s.name /\ Bare(s).slot = s.slot
    BY <1>2 DEF Bare
  <1> QED
    BY <1>3

(* Adaptation keeps what is assigned to the bits, in order.                *)
LEMMA AdaptedAssignments ==
  ASSUME NEW p, WellFormed(p), NEW a
  PROVE  LET x == AdaptProgram(p, a)
             m == Of(p, {"assign"})
             m1 == Of(x, {"assign"})
         IN /\ IsSeq(m) /\ IsSeq(m1) /\ DOMAIN m1 = DOMAIN m
            /\ \A j \in DOMAIN m : /\ m1[j].slot = m[j].slot /\ m1[j].name = m[j].name
                                   /\ <<m[j].refs[1], m1[j].refs[1]>> \in Roles(p, x)
  <1> DEFINE x == AdaptProgram(p, a)
             m == Of(p, {"assign"})
             m1 == Of(x, {"assign"})
             k == Kept(p)
             k1 == Kept(x)
  <1>1. WellFormed(x) /\ IsSeq(p) /\ IsSeq(x)
    BY AdaptedIsWellFormed, ProgramIsSeq
  <1>2. /\ IsSeq(m) /\ ToSet(m) \subseteq ToSet(p) /\ \A s \in ToSet(m) : s.kind \in {"assign"}
        /\ IsSeq(k) /\ IsSeq(k1) /\ IsSeq(m1)
    BY <1>1, OfIsSeq, KeptIsSeq
  <1>3. /\ Len(k1) = Len(k) /\ Len(m1) = Len(m) /\ DOMAIN m1 = DOMAIN m
        /\ \A j \in DOMAIN m : Bare(m1[j]) = Bare(m[j])
    <2>1. CASE IsNative(p, a)
      <3>1. k1 = Rewritten(a, p, k) /\ m1 = Rewritten(a, p, m)
        BY <2>1, NativeParts
      <3>2. Renamed(a, p, k, k1) /\ Renamed(a, p, m, m1)
        BY <1>2, <3>1, RewrittenWellFormed
      <3> QED
        BY <3>2 DEF Renamed, RenamedAs
    <2>2. CASE ~IsNative(p, a)
      <3>1. k1 = k /\ m1 = m
        BY <2>2, OtherParts
      <3> QED
        BY <3>1
    <2> QED
      BY <2>1, <2>2
  <1>4. Uses(p) = k \o m /\ Uses(x) = k1 \o m1
    BY DEF Uses
  <1> HIDE DEF x, m, m1, k, k1
  <1>5. Len(k) \in Nat /\ Len(m) \in Nat /\ DOMAIN m = 1 .. Len(m)
    BY <1>2, SeqFacts
  <1>6. ASSUME NEW j \in DOMAIN m
        PROVE  /\ m1[j].slot = m[j].slot /\ m1[j].name = m[j].name
               /\ <<m[j].refs[1], m1[j].refs[1]>> \in Roles(p, x)
    <2>1. m[j] \in ToSet(m)
      BY <1>2, SeqFacts
    <2>2. m[j] \in ToSet(p) /\ m[j].kind = "assign"
      BY <1>2, <2>1
    <2>3. WellFormedStatement(m[j])
      BY <2>2 DEF WellFormed
    <2>4. /\ {"name", "slot"} \subseteq DOMAIN m[j] /\ Len(m[j].refs) = 1
          /\ IsSeq(m[j].refs)
      BY <2>2, <2>3 DEF WellFormedStatement, IsSeq
    <2>5. Bare(m1[j]) = Bare(m[j])
      BY <1>3
    <2>6. m1[j].slot = m[j].slot /\ m1[j].name = m[j].name
      BY <2>4, <2>5, BareKeeps
    <2> DEFINE n == Len(k) + j
    <2>7. n \in 1 .. Len(k) + Len(m) /\ ~(n <= Len(k)) /\ n - Len(k) = j
      BY <1>5
    <2>8. /\ IsSeq(k \o m) /\ Len(k \o m) = Len(k) + Len(m)
          /\ (k \o m)[n] = m[j] /\ (k1 \o m1)[n] = m1[j]
      BY <1>2, <1>3, <2>7, ConcatElements
    <2> HIDE DEF n
    <2>9. n \in DOMAIN Uses(p) /\ Uses(p)[n] = m[j] /\ Uses(x)[n] = m1[j]
      BY <1>4, <2>7, <2>8, SeqFacts
    <2>10. 1 \in DOMAIN Uses(p)[n].refs
      BY <2>4, <2>9, SeqFacts
    <2>11. <<Uses(p)[n].refs[1], Uses(x)[n].refs[1]>> \in Roles(p, x)
      BY <2>9, <2>10 DEF Roles
    <2> QED
      BY <2>6, <2>9, <2>11
  <1> QED
    BY <1>2, <1>3, <1>6 DEF x, m, m1

(* Adaptation keeps the register of bits and its last initialization.      *)
LEMMA AdaptedBits ==
  ASSUME NEW p, WellFormed(p), NEW a
  PROVE  LET x == AdaptProgram(p, a)
             i == Of(p, {"init"})
             i1 == Of(x, {"init"})
         IN /\ Of(x, {"bit"}) = Of(p, {"bit"})
            /\ i1 = <<>> <=> i = <<>>
            /\ i # <<>> => Last(i1) = Last(i)
            /\ ToSet(i1) \subseteq ToSet(p)
  <1> DEFINE x == AdaptProgram(p, a)
             i == Of(p, {"init"})
             i1 == Of(x, {"init"})
  <1>1. IsSeq(i) /\ ToSet(i) \subseteq ToSet(p)
    BY ProgramIsSeq, OfIsSeq
  <1>2. CASE ~IsNative(p, a)
    <2>1. i1 = i /\ Of(x, {"bit"}) = Of(p, {"bit"})
      BY <1>2, OtherParts
    <2> QED
      BY <1>1, <2>1
  <1>3. CASE IsNative(p, a)
    <2>1. Of(x, {"bit"}) = Of(p, {"bit"}) /\ i1 = Initialization(p)
      BY <1>3, NativeParts
    <2>2. i1 = IF i = <<>> THEN <<>> ELSE <<Last(i)>>
      BY <2>1 DEF Initialization
    <2> HIDE DEF x, i, i1
    <2>3. CASE i = <<>>
      BY <2>1, <2>2, <2>3, EmptyIsSeq DEF x, i, i1
    <2>4. CASE i # <<>>
      <3>1. i1 = <<Last(i)>>
        BY <2>2, <2>4
      <3>2. i1 # <<>> /\ Last(i1) = Last(i)
        BY <3>1 DEF Last
      <3>3. Len(i) \in DOMAIN i
        BY <1>1, <2>4, SeqFacts, EmptySeq DEF IsSeq
      <3>4. Last(i) \in ToSet(p)
        BY <1>1, <3>3, SeqFacts DEF Last
      <3>5. ToSet(i1) \subseteq ToSet(p)
        BY <3>1, <3>4, SingleIsSeq
      <3> QED
        BY <2>1, <2>4, <3>2, <3>5 DEF x, i, i1
    <2> QED
      BY <2>3, <2>4
  <1> QED
    BY <1>2, <1>3

(* The first statement of a program that begins with one of its parts.     *)
LEMMA JoinedBegins ==
  ASSUME NEW x, NEW y, IsSeq(x), IsSeq(y), x # <<>>
  PROVE  /\ IsSeq(Joined(x, y)) /\ Joined(x, y) # <<>>
         /\ Joined(x, y)[1] = x[1] /\ x[1] \in ToSet(x)
  <1>1. Len(x) \in Nat /\ Len(y) \in Nat /\ Len(x) # 0 /\ DOMAIN x = 1 .. Len(x)
    BY SeqFacts, EmptySeq DEF IsSeq
  <1>2. 1 \in 1 .. Len(x) + Len(y) /\ 1 <= Len(x)
    BY <1>1
  <1>3. IsSeq(x \o y) /\ Len(x \o y) = Len(x) + Len(y) /\ (x \o y)[1] = x[1]
    BY <1>2, ConcatElements
  <1>4. x[1] \in ToSet(x)
    BY <1>1, SeqFacts
  <1>5. Len(x \o y) # Len(<<>>)
    BY <1>1, <1>3
  <1>6. x \o y # <<>>
    BY <1>5, Zenon
  <1> QED
    BY <1>3, <1>4, <1>6, Zenon DEF Joined

(* The register of bits comes before what is written to it.                *)
LEMMA BitComesFirst ==
  ASSUME NEW p, WellFormed(p), Terminal(p), NEW a
  PROVE  LET x == AdaptProgram(p, a)
             K == {"bit", "init", "assign"}
         IN Of(x, {"bit"}) # <<>> /\ Has(x, K) /\ Of(x, K)[1].kind = "bit"
  <1> DEFINE x == AdaptProgram(p, a)
             K == {"bit", "init", "assign"}
             q == QubitRegister(a, p)
             b == Of(p, {"bit"})
             i == Initialization(p)
             v == Verbatim(a)
             k == Rewritten(a, p, Kept(p))
             m == Rewritten(a, p, Of(p, {"assign"}))
             u == Supplement(a, p)
  <1>1. IsSeq(b) /\ \A s \in ToSet(b) : s.kind = "bit"
    BY OfIsSeq, ProgramIsSeq
  <1>2. b # <<>>
    BY DEF Terminal
  <1>3. Of(x, {"bit"}) = b
    BY AdaptedBits
  <1>4. CASE ~IsNative(p, a)
    <2>1. Of(x, K) = Of(p, K)
      BY <1>4, OtherParts
    <2>2. \E j \in 1 .. Len(p) : p[j].kind \in {"bit"}
      BY <1>2, HasMeans, ProgramIsSeq DEF Has
    <2>3. \E j \in 1 .. Len(p) : p[j].kind \in K
      BY <2>2
    <2>4. Has(p, K)
      BY <2>3, HasMeans, ProgramIsSeq
    <2> QED
      BY <1>2, <1>3, <2>1, <2>4 DEF Terminal, Has
  <1>5. CASE IsNative(p, a)
    <2>1. /\ IsSeq(q) /\ \A s \in ToSet(q) : s.kind = "qubit"
          /\ IsSeq(i) /\ \A s \in ToSet(i) : s.kind = "init"
          /\ IsSeq(v) /\ \A s \in ToSet(v) : s.kind = "verbatim"
          /\ IsSeq(k) /\ \A s \in ToSet(k) : s.kind = "gate" /\ s.op # "gphase"
          /\ IsSeq(m) /\ \A s \in ToSet(m) : s.kind = "assign"
          /\ IsSeq(u) /\ \A s \in ToSet(u) : s.kind = "measure"
      BY AdaptedParts
    <2>2. x = Seven(q, b, i, v, k, m, u)
      BY <1>5, Zenon DEF AdaptProgram, Seven, Joined
    <2> HIDE DEF x, q, b, i, v, k, m, u
    <2>3. IsSeq(q) /\ IsSeq(b) /\ IsSeq(i) /\ IsSeq(v) /\ IsSeq(k) /\ IsSeq(m) /\ IsSeq(u)
      BY <1>1, <2>1
    <2>4. \A L : Of(x, L) = Seven(Of(q, L), Of(b, L), Of(i, L), Of(v, L),
                                  Of(k, L), Of(m, L), Of(u, L))
      BY <2>2, <2>3, PartsOfSeven
    <2>5. /\ Of(q, K) = <<>> /\ Of(b, K) = b /\ Of(i, K) = i /\ Of(v, K) = <<>>
          /\ Of(k, K) = <<>> /\ Of(m, K) = m /\ Of(u, K) = <<>>
      BY <1>1, <2>1, OfAll, OfNone
    <2>6. Of(x, K) = Seven(<<>>, b, i, <<>>, <<>>, m, <<>>)
      BY <2>4, <2>5, Zenon
    <2> DEFINE bi == Joined(b, i)
               bim == Joined(bi, m)
    <2>7. IsSeq(bi) /\ bi # <<>> /\ bi[1] = b[1] /\ b[1] \in ToSet(b)
      BY <1>1, <1>2, <2>3, JoinedBegins
    <2>8. Joined(<<>>, b) = b /\ Joined(bi, <<>>) = bi
      BY <2>3, <2>7, SeqFacts DEF Joined
    <2> HIDE DEF bi
    <2>9. IsSeq(bim) /\ bim # <<>> /\ bim[1] = bi[1]
      BY <2>3, <2>7, JoinedBegins
    <2>10. Joined(bim, <<>>) = bim
      BY <2>9, SeqFacts DEF Joined
    <2> HIDE DEF bim
    <2>11. Of(x, K) = bim
      BY <2>6, <2>8, <2>10, Zenon DEF Seven, bi, bim
    <2> QED
      BY <1>1, <1>2, <1>3, <2>7, <2>9, <2>11 DEF Has, x
  <1> QED
    BY <1>4, <1>5

(* A write is to the register that was declared before it.                 *)
LEMMA WritesAreNamed ==
  ASSUME NEW p, WellFormed(p), Terminal(p), NEW a
  PROVE  LET x == AdaptProgram(p, a) IN
         /\ Has(x, {"bit"})
         /\ Register(x, "bit") = Register(p, "bit") /\ Width(x, "bit") = Width(p, "bit")
         /\ \A i \in DOMAIN x : x[i].kind \in {"init", "assign"} =>
              /\ Has(Before(x, i), {"bit"}) /\ x[i].name = Register(p, "bit")
              /\ Named(Before(x, i), x[i]) /\ Width(Before(x, i), "bit") = Width(p, "bit")
  <1> DEFINE x == AdaptProgram(p, a)
             K == {"bit", "init", "assign"}
             name == Register(p, "bit")
  <1>1. IsSeq(p) /\ IsSeq(x)
    BY AdaptedIsWellFormed, ProgramIsSeq
  <1>2. Of(x, {"bit"}) = Of(p, {"bit"})
    BY AdaptedBits
  <1>3. Register(x, "bit") = name /\ Width(x, "bit") = Width(p, "bit")
    BY <1>2 DEF Register, Width, Has
  <1>4. Has(x, {"bit"}) /\ Has(x, K) /\ Of(x, K)[1].kind = "bit"
    BY BitComesFirst DEF Has
  <1>5. \A s \in ToSet(p) : s.kind \in {"init", "assign"} => s.name = name
    BY DEF Terminal
  <1>6. ASSUME NEW s \in ToSet(x), s.kind \in {"init", "assign"} PROVE s.name = name
    <2>1. CASE s.kind = "init"
      <3>1. s \in ToSet(Of(x, {"init"}))
        BY <1>1, <2>1, OfHasAll
      <3>2. s \in ToSet(p)
        BY <3>1, AdaptedBits
      <3> QED
        BY <1>5, <1>6, <3>2
    <2>2. CASE s.kind = "assign"
      <3> DEFINE m == Of(p, {"assign"})
                 m1 == Of(x, {"assign"})
      <3>1. s \in ToSet(m1)
        BY <1>1, <2>2, OfHasAll
      <3>2. IsSeq(m1) /\ IsSeq(m) /\ DOMAIN m1 = DOMAIN m
            /\ \A j \in DOMAIN m : m1[j].name = m[j].name
        BY AdaptedAssignments
      <3>3. \A t \in ToSet(m) : t \in ToSet(p) /\ t.kind \in {"assign"}
        BY <1>1, OfIsSeq
      <3> HIDE DEF m, m1
      <3>4. PICK j \in DOMAIN m : s = m1[j]
        BY <3>1, <3>2, SeqFacts
      <3>5. m[j] \in ToSet(m)
        BY <3>2, SeqFacts
      <3>6. m[j].name = name
        BY <1>5, <3>3, <3>5
      <3> QED
        BY <3>2, <3>4, <3>6
    <2> QED
      BY <1>6, <2>1, <2>2
  <1> HIDE DEF x, name
  <1>7. ASSUME NEW i \in DOMAIN x, x[i].kind \in {"init", "assign"}
        PROVE  /\ Has(Before(x, i), {"bit"}) /\ x[i].name = name
               /\ Named(Before(x, i), x[i]) /\ Width(Before(x, i), "bit") = Width(p, "bit")
    <2>1. Len(x) \in Nat /\ i \in 1 .. Len(x) /\ x[i] \in ToSet(x)
      BY <1>1, SeqFacts
    <2>2. FirstOf(x, K, Len(x), Of(x, K)[1])
      BY <1>1, <1>4, HasMeans
    <2>3. PICK j \in 1 .. Len(x) : /\ x[j].kind \in K /\ Of(x, K)[1] = x[j]
                                   /\ \A n \in 1 .. Len(x) : x[n].kind \in K => j <= n
      BY <2>2 DEF FirstOf
    <2>4. x[j].kind = "bit" /\ j <= i /\ j # i
      BY <1>4, <1>7, <2>1, <2>3
    <2>5. j \in 1 .. i - 1 /\ x[j].kind \in {"bit"}
      BY <2>1, <2>4
    <2>6. Has(Before(x, i), {"bit"})
      BY <1>1, <2>5, BeforeHas
    <2>7. /\ Register(Before(x, i), "bit") = name
          /\ Width(Before(x, i), "bit") = Width(p, "bit")
      BY <1>1, <1>3, <2>6, BeforeRegister
    <2>8. x[i].name = name
      BY <1>6, <1>7, <2>1
    <2> QED
      BY <2>6, <2>7, <2>8 DEF Named
  <1> QED
    BY <1>3, <1>4, <1>7 DEF x, name

-----------------------------------------------------------------------------
(* The last of the statements of some kinds that are in T.                 *)
LEMMA LastOfKind ==
  ASSUME NEW p, IsSeq(p), NEW K, NEW T
  PROVE  LET S == {s \in ToSet(p) : s.kind \in K} \intersect T
             m == Of(p, K)
         IN /\ Where(p, S) = {} <=> Where(m, T) = {}
            /\ Where(p, S) # {} => /\ Max(Where(m, T)) \in Where(m, T)
                                   /\ p[Max(Where(p, S))] = m[Max(Where(m, T))]
  <1> DEFINE R == {s \in ToSet(p) : s.kind \in K}
             S == R \intersect T
             m == Of(p, K)
  <1>1. m = Selection(p, R)
    BY DEF Of
  <1>2. IsSeq(m) /\ p \in Seq(ToSet(p))
    BY OfIsSeq DEF IsSeq
  <1> HIDE DEF m, R
  <1>3. Selection(m, T) = Selection(p, S)
    BY <1>1, <1>2, SelectionTwice
  <1> HIDE DEF S
  <1>4. /\ Where(p, S) = {} <=> Selection(p, S) = <<>>
        /\ Where(p, S) # {} => p[Max(Where(p, S))] = Last(Selection(p, S))
    BY LastWhere
  <1>5. /\ Where(m, T) = {} <=> Selection(m, T) = <<>>
        /\ Where(m, T) # {} => /\ Max(Where(m, T)) \in Where(m, T)
                               /\ m[Max(Where(m, T))] = Last(Selection(m, T))
    BY <1>2, LastWhere
  <1>6. /\ Where(p, S) = {} <=> Where(m, T) = {}
        /\ Where(p, S) # {} => /\ Max(Where(m, T)) \in Where(m, T)
                               /\ p[Max(Where(p, S))] = m[Max(Where(m, T))]
    BY <1>3, <1>4, <1>5
  <1> QED
    BY <1>6 DEF S, R, m

(* Where a program initializes its register, and assigns to a slot.        *)
InitsOf(p) == {i \in DOMAIN p : p[i].kind = "init"}
AssignsOf(p, n) == {i \in DOMAIN p : p[i].kind = "assign" /\ p[i].slot = n}

(* Adaptation keeps the last initialization.                               *)
LEMMA LastInitIsKept ==
  ASSUME NEW p, WellFormed(p), NEW a
  PROVE  LET x == AdaptProgram(p, a) IN
         /\ InitsOf(x) = {} <=> InitsOf(p) = {}
         /\ InitsOf(p) # {} => /\ x[Max(InitsOf(x))] = p[Max(InitsOf(p))]
                               /\ Max(InitsOf(x)) \in InitsOf(x)
  <1> DEFINE x == AdaptProgram(p, a)
             S(y) == {s \in ToSet(y) : s.kind \in {"init"}}
  <1>1. IsSeq(p) /\ IsSeq(x)
    BY AdaptedIsWellFormed, ProgramIsSeq
  <1>2. ASSUME NEW y, IsSeq(y)
        PROVE  /\ InitsOf(y) = {} <=> Of(y, {"init"}) = <<>>
               /\ InitsOf(y) # {} => /\ Max(InitsOf(y)) \in InitsOf(y)
                                     /\ y[Max(InitsOf(y))] = Last(Of(y, {"init"}))
    <2>1. Where(y, S(y)) = InitsOf(y)
      BY <1>2, SeqFacts DEF Where, InitsOf
    <2>2. Selection(y, S(y)) = Of(y, {"init"})
      BY DEF Of
    <2> HIDE DEF S
    <2> QED
      BY <1>2, <2>1, <2>2, LastWhere
  <1>3. /\ Of(x, {"init"}) = <<>> <=> Of(p, {"init"}) = <<>>
        /\ Of(p, {"init"}) # <<>> => Last(Of(x, {"init"})) = Last(Of(p, {"init"}))
    BY AdaptedBits
  <1> HIDE DEF x
  <1>4. /\ InitsOf(x) = {} <=> InitsOf(p) = {}
        /\ InitsOf(p) # {} => /\ x[Max(InitsOf(x))] = p[Max(InitsOf(p))]
                              /\ Max(InitsOf(x)) \in InitsOf(x)
    BY <1>1, <1>2, <1>3
  <1> QED
    BY <1>4 DEF x

(* Adaptation keeps the last assignment to a slot.                         *)
LEMMA LastAssignmentIsKept ==
  ASSUME NEW p, WellFormed(p), NEW a, NEW n
  PROVE  LET x == AdaptProgram(p, a) IN
         /\ AssignsOf(x, n) = {} <=> AssignsOf(p, n) = {}
         /\ AssignsOf(p, n) # {} =>
              <<p[Max(AssignsOf(p, n))].refs[1], x[Max(AssignsOf(x, n))].refs[1]>>
                \in Roles(p, x)
  <1> DEFINE x == AdaptProgram(p, a)
             S(y) == {s \in ToSet(y) : s.kind \in {"assign"}}
             T(y) == {s \in ToSet(y) : s.slot = n}
             m(y) == Of(y, {"assign"})
             J(y) == {j \in DOMAIN m(y) : m(y)[j].slot = n}
  <1>1. IsSeq(p) /\ IsSeq(x)
    BY AdaptedIsWellFormed, ProgramIsSeq
  <1>2. ASSUME NEW y, IsSeq(y)
        PROVE  /\ AssignsOf(y, n) = {} <=> J(y) = {}
               /\ AssignsOf(y, n) # {} => /\ Max(J(y)) \in J(y)
                                          /\ y[Max(AssignsOf(y, n))] = m(y)[Max(J(y))]
    <2>1. Where(y, S(y) \intersect T(y)) = AssignsOf(y, n)
      BY <1>2, SeqFacts DEF Where, AssignsOf
    <2>2. IsSeq(m(y)) /\ ToSet(m(y)) \subseteq ToSet(y)
      BY <1>2, OfIsSeq
    <2> HIDE DEF m
    <2>3. Where(m(y), T(y)) = J(y)
      <3>1. \A j \in DOMAIN m(y) : m(y)[j] \in ToSet(y)
        BY <2>2, SeqFacts
      <3> QED
        BY <3>1 DEF Where
    <2> HIDE DEF T, J
    <2>4. /\ Where(y, S(y) \intersect T(y)) = {} <=> Where(m(y), T(y)) = {}
          /\ Where(y, S(y) \intersect T(y)) # {} =>
               /\ Max(Where(m(y), T(y))) \in Where(m(y), T(y))
               /\ y[Max(Where(y, S(y) \intersect T(y)))] = m(y)[Max(Where(m(y), T(y)))]
      BY <1>2, LastOfKind DEF m
    <2> HIDE DEF S
    <2> QED
      BY <2>1, <2>3, <2>4
  <1>3. /\ DOMAIN m(x) = DOMAIN m(p)
        /\ \A j \in DOMAIN m(p) :
             /\ m(x)[j].slot = m(p)[j].slot
             /\ <<m(p)[j].refs[1], m(x)[j].refs[1]>> \in Roles(p, x)
    BY AdaptedAssignments
  <1> HIDE DEF x, m
  <1>4. J(x) = J(p)
    BY <1>3
  <1>5. \A j \in J(p) : <<m(p)[j].refs[1], m(x)[j].refs[1]>> \in Roles(p, x)
    BY <1>3
  <1> HIDE DEF J
  <1>6. AssignsOf(x, n) = {} <=> AssignsOf(p, n) = {}
    BY <1>1, <1>2, <1>4
  <1>7. ASSUME AssignsOf(p, n) # {}
        PROVE  <<p[Max(AssignsOf(p, n))].refs[1], x[Max(AssignsOf(x, n))].refs[1]>>
                 \in Roles(p, x)
    <2>1. Max(J(p)) \in J(p) /\ p[Max(AssignsOf(p, n))] = m(p)[Max(J(p))]
      BY <1>1, <1>2, <1>7
    <2>2. x[Max(AssignsOf(x, n))] = m(x)[Max(J(p))]
      BY <1>1, <1>2, <1>4, <1>6, <1>7
    <2> QED
      BY <1>5, <2>1, <2>2
  <1> QED
    BY <1>6, <1>7 DEF x

-----------------------------------------------------------------------------
(* A source that is not given up has a readout of its initial bits and of  *)
(* the sites of its slots.                                                 *)
Initial(x) ==
  IF Writes(x, "init") = {} THEN [i \in 1 .. Width(x, "bit") |-> 0]
  ELSE x[Max(Writes(x, "init"))].bits
SiteOf(x, slot) ==
  LET writes == {i \in Writes(x, "assign") : x[i].slot = slot} IN
  IF writes = {} THEN None ELSE x[Max(writes)].refs[1].index

(* No statement of x stops the readout.                                    *)
Heard(x) == \A i \in DOMAIN x : Verdict(Before(x, i), x[i]) = "ok"

(* A source that can be projected has none that does.                      *)
LEMMA ReadoutIsHeard ==
  ASSUME NEW x, IsSeq(x), SourceReadout(x) \notin {None, Fatal}
  PROVE  Heard(x)
  <1> DEFINE stops == {i \in DOMAIN x : Verdict(Before(x, i), x[i]) # "ok"}
  <1>1. \A i \in DOMAIN x : Verdict(Before(x, i), x[i]) \in {None, Fatal, "ok"}
    <2> SUFFICES ASSUME NEW b, NEW s PROVE Verdict(b, s) \in {None, Fatal, "ok"}
      OBVIOUS
    <2> QED
      BY DEF Verdict
  <1>2. stops = {}
    <2> SUFFICES ASSUME stops # {} PROVE FALSE
      OBVIOUS
    <2>1. SourceReadout(x) = Verdict(Before(x, Min(stops)), x[Min(stops)])
      BY DEF SourceReadout
    <2>2. stops \subseteq Nat
      BY SeqFacts
    <2>3. Min(stops) \in stops
      BY <2>2, MinIsLeast
    <2> QED
      BY <1>1, <2>1, <2>3
  <1> QED
    BY <1>2 DEF Heard

(* What is read of a source that is not given up.                          *)
LEMMA ReadoutIsRecord ==
  ASSUME NEW x, Heard(x)
  PROVE  SourceReadout(x) = [initial |-> Initial(x),
                             sites |-> [slot \in 0 .. Width(x, "bit") - 1 |-> SiteOf(x, slot)]]
  <1>1. {i \in DOMAIN x : Verdict(Before(x, i), x[i]) # "ok"} = {}
    BY DEF Heard
  <1> QED
    BY <1>1 DEF SourceReadout, Initial, SiteOf, Latest

(* The width of a register of bits.                                        *)
LEMMA WidthIsNat ==
  ASSUME NEW x, WellFormed(x)
  PROVE  Width(x, "bit") \in Nat
  <1> DEFINE width == Width(x, "bit")
             b == Of(x, {"bit"})
  <1>1. IsSeq(x)
    BY ProgramIsSeq
  <1>2. CASE ~Has(x, {"bit"})
    BY <1>2 DEF Width
  <1>3. CASE Has(x, {"bit"})
    <2>1. IsSeq(b) /\ ToSet(b) \subseteq ToSet(x) /\ \A s \in ToSet(b) : s.kind \in {"bit"}
      BY <1>1, OfIsSeq
    <2>2. width = b[1].width /\ b # <<>>
      BY <1>3 DEF Width, Has
    <2> HIDE DEF b, width
    <2>3. b[1] \in ToSet(b)
      BY <2>1, <2>2, JoinedBegins
    <2> QED
      BY <2>1, <2>2, <2>3 DEF WellFormed, WellFormedStatement, width
  <1> QED
    BY <1>2, <1>3

(* The initial bits and the slots of a readout are those of the register.  *)
LEMMA ReadoutHasWidth ==
  ASSUME NEW x, WellFormed(x), Heard(x)
  PROVE  LET r == SourceReadout(x)
             width == Width(x, "bit")
         IN /\ width \in Nat
            /\ r.initial \in Seq({0, 1}) /\ Len(r.initial) = width
            /\ r.initial = Initial(x)
            /\ r.sites = [slot \in 0 .. width - 1 |-> SiteOf(x, slot)]
  <1> DEFINE r == SourceReadout(x)
             width == Width(x, "bit")
             T == Writes(x, "init")
  <1>1. IsSeq(x) /\ Len(x) \in Nat /\ DOMAIN x = 1 .. Len(x)
    BY ProgramIsSeq, SeqFacts
  <1>2. /\ \A i \in DOMAIN x : Verdict(Before(x, i), x[i]) = "ok"
        /\ r = [initial |-> Initial(x),
                sites |-> [slot \in 0 .. width - 1 |-> SiteOf(x, slot)]]
    BY ReadoutIsRecord DEF Heard
  <1>3. width \in Nat
    BY WidthIsNat
  <1> HIDE DEF r
  <1>4. r.initial = Initial(x) /\ r.sites = [slot \in 0 .. width - 1 |-> SiteOf(x, slot)]
    BY <1>2
  <1>5. Initial(x) \in Seq({0, 1}) /\ Len(Initial(x)) = width
    <2>1. CASE T = {}
      <3>1. Initial(x) = [i \in 1 .. width |-> 0]
        BY <2>1 DEF Initial
      <3> HIDE DEF width
      <3>2. Initial(x) \in [1 .. width -> {0, 1}]
        BY <3>1
      <3>3. Initial(x) \in Seq({0, 1})
        BY <1>3, <3>2
      <3> QED
        BY <1>3, <3>1, <3>3, LenProperties
    <2>2. CASE T # {}
      <3> DEFINE k == Max(T)
                 s == x[k]
      <3>1. Initial(x) = s.bits
        BY <2>2 DEF Initial
      <3>2. T \subseteq 1 .. Len(x)
        BY <1>1 DEF Writes
      <3>3. k \in T
        BY <1>1, <2>2, <3>2, MaxIsGreatest
      <3>4. k \in DOMAIN x /\ s.kind = "init" /\ Named(Before(x, k), s)
        BY <3>3 DEF Writes
      <3>5. Verdict(Before(x, k), s) = "ok"
        BY <1>2, <3>4
      <3>6. Width(Before(x, k), "bit") = width
        BY <1>1, <3>4, BeforeRegister DEF Named
      <3>7. WellFormedStatement(s)
        BY <1>1, <3>4, SeqFacts DEF WellFormed
      <3> HIDE DEF k, s, width
      <3>8. Len(s.bits) = width
        BY <3>4, <3>5, <3>6, ValuesAssumption DEF Verdict
      <3>9. s.bits \in Seq({0, 1})
        BY <3>4, <3>7 DEF WellFormedStatement
      <3> QED
        BY <3>1, <3>8, <3>9
    <2> QED
      BY <2>1, <2>2
  <1> QED
    BY <1>3, <1>4, <1>5 DEF r

(* What the readout of an adapted program says of the client's.            *)
LEMMA AdaptedReadout ==
  ASSUME NEW p, WellFormed(p), Terminal(p), NEW a,
         SourceReadout(AdaptProgram(p, a)) \notin {None, Fatal}
  PROVE  LET x == AdaptProgram(p, a)
             r == SourceReadout(x)
             width == Width(p, "bit")
         IN /\ width \in Nat
            /\ r.initial \in Seq({0, 1}) /\ Len(r.initial) = width
            /\ InitsOf(p) = {} => \A i \in 1 .. width : r.initial[i] = 0
            /\ InitsOf(p) # {} => r.initial = p[Max(InitsOf(p))].bits
            /\ DOMAIN r.sites = 0 .. width - 1
            /\ \A n \in 0 .. width - 1 :
                 r.sites[n] = IF AssignsOf(p, n) = {} THEN None
                              ELSE x[Max(AssignsOf(x, n))].refs[1].index
  <1> DEFINE x == AdaptProgram(p, a)
             width == Width(p, "bit")
             r == SourceReadout(x)
  <1>1. WellFormed(x) /\ IsSeq(x)
    BY AdaptedIsWellFormed, ProgramIsSeq
  <1>2. /\ Width(x, "bit") = width
        /\ \A i \in DOMAIN x : x[i].kind \in {"init", "assign"} => Named(Before(x, i), x[i])
    BY WritesAreNamed
  <1>3. /\ width \in Nat
        /\ r.initial \in Seq({0, 1}) /\ Len(r.initial) = width /\ r.initial = Initial(x)
        /\ r.sites = [slot \in 0 .. width - 1 |-> SiteOf(x, slot)]
    BY <1>1, <1>2, ReadoutIsHeard, ReadoutHasWidth
  <1>4. /\ InitsOf(x) = {} <=> InitsOf(p) = {}
        /\ InitsOf(p) # {} => x[Max(InitsOf(x))] = p[Max(InitsOf(p))]
    BY LastInitIsKept
  <1>5. \A n : AssignsOf(x, n) = {} <=> AssignsOf(p, n) = {}
    BY LastAssignmentIsKept
  <1> HIDE DEF x, r, width
  <1>6. Writes(x, "init") = InitsOf(x)
    BY <1>2 DEF Writes, InitsOf
  <1>7. \A n : {i \in Writes(x, "assign") : x[i].slot = n} = AssignsOf(x, n)
    BY <1>2 DEF Writes, AssignsOf
  <1>8. /\ InitsOf(p) = {} => \A i \in 1 .. width : r.initial[i] = 0
        /\ InitsOf(p) # {} => r.initial = p[Max(InitsOf(p))].bits
    BY <1>2, <1>3, <1>4, <1>6 DEF Initial
  <1>9. DOMAIN r.sites = 0 .. width - 1
    BY <1>3
  <1>10. \A n \in 0 .. width - 1 :
           r.sites[n] = IF AssignsOf(p, n) = {} THEN None
                        ELSE x[Max(AssignsOf(x, n))].refs[1].index
    <2> SUFFICES ASSUME NEW n \in 0 .. width - 1
                 PROVE  r.sites[n] = IF AssignsOf(p, n) = {} THEN None
                                     ELSE x[Max(AssignsOf(x, n))].refs[1].index
      OBVIOUS
    <2>1. r.sites[n] = SiteOf(x, n)
      BY <1>3
    <2>2. SiteOf(x, n) = IF AssignsOf(x, n) = {} THEN None
                         ELSE x[Max(AssignsOf(x, n))].refs[1].index
      BY <1>7 DEF SiteOf
    <2> QED
      BY <1>5, <2>1, <2>2
  <1> QED
    BY <1>3, <1>8, <1>9, <1>10 DEF x, r, width

(* The qubits the service reports for a program are finitely many numbers. *)
LEMMA RequestedQubits ==
  ASSUME NEW x, WellFormed(x)
  PROVE  /\ Requested(x) \subseteq Nat /\ IsFiniteSet(Requested(x))
         /\ \A i \in DOMAIN x : x[i].kind = "assign" =>
              x[i].refs[1].index \in Nat /\ x[i].refs[1].index \in Requested(x)
  <1> DEFINE R(K) == RefsOf(Of(x, K))
             M == R({"assign", "measure"})
             G == R({"gate"})
             Index(T) == {r.index : r \in T}
  <1>1. IsSeq(x)
    BY ProgramIsSeq
  <1>2. \A s \in ToSet(x) : s.kind \in {"gate", "assign", "measure"} =>
          IsSeq(s.refs) /\ \A r \in ToSet(s.refs) : r.index \in Nat
    BY DEF WellFormed, WellFormedStatement, IsSeq
  <1>3. ASSUME NEW K, K \subseteq {"gate", "assign", "measure"}
        PROVE  IsFiniteSet(Index(R(K))) /\ Index(R(K)) \subseteq Nat
    <2>1. /\ IsSeq(Of(x, K)) /\ ToSet(Of(x, K)) \subseteq ToSet(x)
          /\ \A s \in ToSet(Of(x, K)) : s.kind \in K
      BY <1>1, OfIsSeq
    <2>2. \A s \in ToSet(Of(x, K)) :
            IsSeq(s.refs) /\ \A r \in ToSet(s.refs) : r.index \in Nat
      BY <1>2, <1>3, <2>1
    <2>3. IsFiniteSet(Index(R(K)))
      BY <2>1, <2>2, FiniteRefs
    <2>4. \A r \in R(K) : r.index \in Nat
      BY <2>2 DEF RefsOf
    <2> QED
      BY <2>3, <2>4
  <1>4. /\ IsFiniteSet(Index(M)) /\ Index(M) \subseteq Nat
        /\ IsFiniteSet(Index(G)) /\ Index(G) \subseteq Nat
    BY <1>3
  <1>5. Requested(x) = Index(IF M # {} THEN M ELSE G)
    BY DEF Requested
  <1>6. ASSUME NEW i \in DOMAIN x, x[i].kind = "assign"
        PROVE  x[i].refs[1] \in M /\ x[i].refs[1].index \in Nat
    <2>1. x[i] \in ToSet(x)
      BY <1>1, SeqFacts
    <2>2. x[i] \in ToSet(Of(x, {"assign", "measure"}))
      BY <1>1, <1>6, <2>1, OfHasAll
    <2>3. Len(x[i].refs) = 1 /\ IsSeq(x[i].refs)
      BY <1>6, <2>1 DEF WellFormed, WellFormedStatement, IsSeq
    <2>4. 1 \in DOMAIN x[i].refs
      BY <2>3, SeqFacts
    <2>5. x[i].refs[1] \in ToSet(x[i].refs)
      BY <2>3, <2>4, SeqFacts
    <2>6. x[i].refs[1] \in M
      BY <2>2, <2>5 DEF RefsOf
    <2> QED
      BY <1>2, <1>6, <2>1, <2>5, <2>6
  <1> HIDE DEF M, G
  <1>7. Requested(x) \subseteq Nat /\ IsFiniteSet(Requested(x))
    BY <1>4, <1>5
  <1>8. ASSUME NEW i \in DOMAIN x, x[i].kind = "assign"
        PROVE  x[i].refs[1].index \in Nat /\ x[i].refs[1].index \in Requested(x)
    <2>1. x[i].refs[1] \in M /\ x[i].refs[1].index \in Nat
      BY <1>6, <1>8
    <2>2. M # {}
      BY <2>1
    <2>3. Requested(x) = {r.index : r \in M}
      BY <1>5, <2>2
    <2> QED
      BY <2>1, <2>3
  <1> QED
    BY <1>7, <1>8

(* An order of the qubits of a set lists the set.                          *)
LEMMA OrdersListAll ==
  ASSUME NEW S, IsFiniteSet(S), NEW q \in Orders(S)
  PROVE  /\ IsSeq(q) /\ Len(q) = Cardinality(S) /\ Cardinality(S) \in Nat
         /\ IsInjective(q) /\ ToSet(q) = S
  <1> DEFINE n == Cardinality(S)
  <1>1. n \in Nat
    BY FS_CardinalityType
  <1>2. q \in [1 .. n -> S] /\ IsInjective(q)
    BY DEF Orders
  <1> HIDE DEF n
  <1>3. DOMAIN q = 1 .. n /\ q = [i \in 1 .. n |-> q[i]]
    BY <1>2
  <1>4. IsSeq(q) /\ Len(q) = n
    BY <1>1, <1>3, FunctionIsSeq
  <1>5. q \in Injection(1 .. n, S)
    BY <1>2, <1>3 DEF Injection, IsInjective
  <1>6. Cardinality(1 .. n) = n
    BY <1>1, FS_Interval
  <1>7. q \in Surjection(1 .. n, S)
    BY <1>5, <1>6, FS_Injection DEF n
  <1>8. ToSet(q) = S
    <2>1. \A x \in S : \E i \in 1 .. n : q[i] = x
      BY <1>7 DEF Surjection
    <2>2. \A i \in 1 .. n : q[i] \in S
      BY <1>2
    <2> QED
      BY <1>3, <2>1, <2>2 DEF ToSet
  <1> QED
    BY <1>1, <1>2, <1>4, <1>8 DEF n

-----------------------------------------------------------------------------
(* What the service may have for a program whose source is x.              *)
IsResult(x, result) ==
  /\ result.measuredQubits \in Orders(Requested(x))
  /\ result.shot \in [1 .. Cardinality(Requested(x)) -> {0, 1}]

(* The qubit that a client's qubit became.                                 *)
LEMMA RoleIsTheOther ==
  ASSUME NEW p, NEW x, RolesKept(p, x), NEW v, NEW w, <<v, w>> \in Roles(p, x)
  PROVE  (CHOOSE y \in Roles(p, x) : y[1] = v)[2] = w
  <1> DEFINE y == CHOOSE y \in Roles(p, x) : y[1] = v
  <1>1. y \in Roles(p, x) /\ y[1] = v
    <2>1. <<v, w>>[1] = v
      OBVIOUS
    <2>2. \E z \in Roles(p, x) : z[1] = v
      BY <2>1
    <2> QED
      BY <2>2, Zenon
  <1> HIDE DEF y
  <1>2. y[2] = <<v, w>>[2]
    BY <1>1 DEF RolesKept
  <1> QED
    BY <1>2 DEF y

(* Whatever the order in which the service lists the qubits, the bits that *)
(* are read for an adapted program are the right ones.                     *)
LEMMA ParsedReadout ==
  ASSUME NEW p, WellFormed(p), Terminal(p), NEW a,
         SourceReadout(AdaptProgram(p, a)) \notin {None, Fatal},
         NEW result, IsResult(AdaptProgram(p, a), result),
         AdaptProgram(p, a) # None
  PROVE  ParseMeasurementResults(result, AdaptProgram(p, a))
           = RightBits(p, AdaptProgram(p, a), result)
  <1> DEFINE x == AdaptProgram(p, a)
             width == Width(p, "bit")
             r == SourceReadout(x)
             q == result.measuredQubits
             shot == result.shot
             S == Requested(x)
             init == InitsOf(p)
             As(n) == AssignsOf(p, n)
             At(n) == x[Max(AssignsOf(x, n))].refs[1].index
  <1>1. /\ width \in Nat
        /\ r.initial \in Seq({0, 1}) /\ Len(r.initial) = width
        /\ init = {} => \A i \in 1 .. width : r.initial[i] = 0
        /\ init # {} => r.initial = p[Max(init)].bits
        /\ DOMAIN r.sites = 0 .. width - 1
        /\ \A n \in 0 .. width - 1 : r.sites[n] = IF As(n) = {} THEN None ELSE At(n)
    BY AdaptedReadout
  <1>2. WellFormed(x) /\ IsSeq(x) /\ IsSeq(p) /\ RolesKept(p, x)
    BY AdaptedIsWellFormed, ProgramIsSeq, AdaptationKeepsRoles
  <1>3. /\ S \subseteq Nat /\ IsFiniteSet(S)
        /\ \A i \in DOMAIN x : x[i].kind = "assign" =>
             x[i].refs[1].index \in Nat /\ x[i].refs[1].index \in S
    BY <1>2, RequestedQubits
  <1>4. \A n : As(n) # {} =>
          /\ AssignsOf(x, n) # {}
          /\ <<p[Max(As(n))].refs[1], x[Max(AssignsOf(x, n))].refs[1]>> \in Roles(p, x)
    BY LastAssignmentIsKept
  <1>5. q \in Orders(S) /\ shot \in [1 .. Cardinality(S) -> {0, 1}]
    BY DEF IsResult
  <1>6. /\ IsSeq(q) /\ Len(q) = Cardinality(S) /\ Cardinality(S) \in Nat
        /\ IsInjective(q) /\ ToSet(q) = S
    BY <1>3, <1>5, OrdersListAll
  <1>7. Len(shot) = Len(q)
    <2>1. shot = [i \in 1 .. Cardinality(S) |-> shot[i]]
      BY <1>5
    <2> HIDE DEF shot, S
    <2> QED
      BY <1>6, <2>1, FunctionIsSeq
  <1>8. r \notin {None, Fatal} /\ x # None
    OBVIOUS
  <1>9. ParseMeasurementResults(result, x)
          = IF r = Fatal \/ ~IsInjective(q) \/ Len(shot) # Len(q) THEN Fatal
            ELSE IF r = None
            THEN [i \in DOMAIN Descending(ToSet(q)) |->
                    shot[Column(q, Descending(ToSet(q))[i])]]
            ELSE IF ~(Range(r.sites) \ {None} \subseteq ToSet(q)) THEN Fatal
            ELSE Project(r, q, shot)
    BY <1>8 DEF ParseMeasurementResults, Descending
  <1>10. RightBits(p, x, result) =
           [n \in 1 .. width |->
              LET k == LastOf(p, "assign", LAMBDA s : s.slot = width - n) IN
              IF k # 0
              THEN shot[Column(q, (CHOOSE y \in Roles(p, x) : y[1] = p[k].refs[1])[2].index)]
              ELSE IF LastOf(p, "init", LAMBDA s : TRUE) # 0
              THEN p[LastOf(p, "init", LAMBDA s : TRUE)].bits[width - (width - n)] ELSE 0]
    BY DEF RightBits
  <1>11. Len(p) \in Nat /\ DOMAIN p = 1 .. Len(p) /\ Len(x) \in Nat /\ DOMAIN x = 1 .. Len(x)
    BY <1>2, SeqFacts
  <1>12. LastOf(p, "init", LAMBDA s : TRUE) = IF init = {} THEN 0 ELSE Max(init)
    <2>1. {i \in 1 .. Len(p) : p[i].kind = "init" /\ TRUE} = init
      BY <1>11 DEF InitsOf
    <2> QED
      BY <2>1, Zenon DEF LastOf, SelectLastInSeq
  <1>13. ASSUME NEW n
         PROVE  LastOf(p, "assign", LAMBDA s : s.slot = n)
                  = IF As(n) = {} THEN 0 ELSE Max(As(n))
    <2>1. {i \in 1 .. Len(p) : p[i].kind = "assign" /\ p[i].slot = n} = As(n)
      BY <1>11 DEF AssignsOf
    <2> QED
      BY <2>1, Zenon DEF LastOf, SelectLastInSeq
  <1>14. init # {} => Max(init) # 0
    <2>1. init \subseteq 1 .. Len(p)
      BY <1>11 DEF InitsOf
    <2> QED
      BY <1>11, <2>1, MaxIsGreatest
  <1>15. \A n : As(n) # {} => Max(As(n)) # 0
    <2>1. \A n : As(n) \subseteq 1 .. Len(p)
      BY <1>11 DEF AssignsOf
    <2> HIDE DEF As
    <2> QED
      BY <1>11, <2>1, MaxIsGreatest
  <1>16. \A n : As(n) # {} => At(n) \in S /\ At(n) \in Nat
    <2> SUFFICES ASSUME NEW n, As(n) # {} PROVE At(n) \in S /\ At(n) \in Nat
      OBVIOUS
    <2> DEFINE T == AssignsOf(x, n)
    <2>1. T # {} /\ T \subseteq 1 .. Len(x)
      BY <1>4, <1>11 DEF AssignsOf
    <2>2. Max(T) \in T
      BY <1>11, <2>1, MaxIsGreatest
    <2>3. Max(T) \in DOMAIN x /\ x[Max(T)].kind = "assign"
      BY <2>2 DEF AssignsOf
    <2> QED
      BY <1>3, <2>3
  <1>17. \A n : As(n) # {} =>
           (CHOOSE y \in Roles(p, x) : y[1] = p[Max(As(n))].refs[1])[2].index = At(n)
    BY <1>2, <1>4, RoleIsTheOther
  <1> HIDE DEF x, width, r, q, shot, S, init, As, At
  <1>18. Range(r.sites) \ {None} \subseteq ToSet(q)
    <2>1. \A n \in DOMAIN r.sites : r.sites[n] = None \/ r.sites[n] \in S
      BY <1>1, <1>16
    <2> QED
      BY <1>6, <2>1 DEF Range
  <1>19. ParseMeasurementResults(result, x) = Project(r, q, shot)
    BY <1>6, <1>7, <1>8, <1>9, <1>18
  <1>20. DOMAIN r.initial = 1 .. width
    BY <1>1, LenProperties
  <1>21. Project(r, q, shot) =
           [i \in 1 .. width |-> IF r.sites[width - i] = None THEN r.initial[i]
                                 ELSE shot[Column(q, r.sites[width - i])]]
    BY <1>1, <1>20 DEF Project
  <1> DEFINE Right(n) == IF As(width - n) # {} THEN shot[Column(q, At(width - n))]
                         ELSE IF init # {} THEN p[Max(init)].bits[n] ELSE 0
  <1>22. RightBits(p, x, result) = [n \in 1 .. width |-> Right(n)]
    <2> DEFINE K(n) == LastOf(p, "assign", LAMBDA s : s.slot = width - n)
               I == LastOf(p, "init", LAMBDA s : TRUE)
               Old(n) ==
                 IF K(n) # 0
                 THEN shot[Column(q, (CHOOSE y \in Roles(p, x) :
                                        y[1] = p[K(n)].refs[1])[2].index)]
                 ELSE IF I # 0 THEN p[I].bits[width - (width - n)] ELSE 0
    <2>1. RightBits(p, x, result) = [n \in 1 .. width |-> Old(n)]
      BY <1>10
    <2>2. ASSUME NEW n \in 1 .. width PROVE Old(n) = Right(n)
      <3>1. width - (width - n) = n
        BY <1>1
      <3>2. K(n) = IF As(width - n) = {} THEN 0 ELSE Max(As(width - n))
        BY <1>13
      <3>3. I = IF init = {} THEN 0 ELSE Max(init)
        BY <1>12
      <3> HIDE DEF K, I
      <3>4. CASE As(width - n) # {}
        <4>1. K(n) = Max(As(width - n)) /\ K(n) # 0
          BY <1>15, <3>2, <3>4
        <4>2. (CHOOSE y \in Roles(p, x) : y[1] = p[K(n)].refs[1])[2].index = At(width - n)
          BY <1>17, <3>4, <4>1
        <4> QED
          BY <3>4, <4>1, <4>2
      <3>5. CASE As(width - n) = {}
        <4>1. K(n) = 0
          BY <3>2, <3>5
        <4>2. Old(n) = IF I # 0 THEN p[I].bits[n] ELSE 0
          BY <3>1, <4>1
        <4> QED
          BY <1>14, <3>3, <3>5, <4>2
      <3> QED
        BY <3>4, <3>5
    <2> HIDE DEF Old, Right
    <2> QED
      BY <2>1, <2>2
  <1>23. ASSUME NEW i \in 1 .. width
         PROVE  Right(i) = IF r.sites[width - i] = None THEN r.initial[i]
                           ELSE shot[Column(q, r.sites[width - i])]
    <2>1. width - i \in 0 .. width - 1
      BY <1>1
    <2>2. CASE As(width - i) # {}
      <3>1. r.sites[width - i] = At(width - i)
        BY <1>1, <2>1, <2>2
      <3>2. At(width - i) # None
        BY <1>16, <2>2, ValuesAssumption
      <3> QED
        BY <2>2, <3>1, <3>2
    <2>3. CASE As(width - i) = {}
      <3>1. r.sites[width - i] = None
        BY <1>1, <2>1, <2>3
      <3>2. r.initial[i] = IF init # {} THEN p[Max(init)].bits[i] ELSE 0
        BY <1>1
      <3> QED
        BY <2>3, <3>1, <3>2
    <2> QED
      BY <2>2, <2>3
  <1> HIDE DEF Right
  <1>24. RightBits(p, x, result) = Project(r, q, shot)
    BY <1>21, <1>22, <1>23
  <1> QED
    BY <1>19, <1>24 DEF x

-----------------------------------------------------------------------------
(* The results of a task and what was read of them, one of each for every  *)
(* source; only a device whose document was parsed has a task.             *)
ResultsInv ==
  /\ sources # <<>> => Parsed
  /\ results = [i \in DOMAIN sources |-> results[i]]
  /\ read = [i \in DOMAIN sources |-> read[i]]
  /\ \A i \in DOMAIN sources :
       /\ results[i] # None =>
            IsResult(sources[i], results[i]) /\ results[i].source \in {None, sources[i]}
       /\ read[i] # None =>
            /\ results[i] # None
            /\ read[i] = ParseMeasurementResults(results[i], results[i].source)

(* The program whose results the service has next has none.                *)
LEMMA NextHasNone ==
  ASSUME SourcesInv, ShotsInv, ResultsInv, None \in ToSet(results)
  PROVE  LET i == SelectInSeq(results, LAMBDA r : r = None) IN
         i \in DOMAIN results /\ results[i] = None
  <1> DEFINE T == {i \in 1 .. Len(results) : results[i] = None}
             k == SelectInSeq(results, LAMBDA r : r = None)
  <1>1. PICK j \in DOMAIN results : results[j] = None
    BY DEF ToSet
  <1>2. DOMAIN results = DOMAIN sources /\ DOMAIN sources # {}
    BY <1>1 DEF ResultsInv
  <1>3. programs \in ProgramLists /\ DOMAIN sources = DOMAIN programs
    BY <1>2 DEF SourcesInv
  <1>4. Len(programs) \in Nat /\ DOMAIN programs = 1 .. Len(programs)
    BY <1>3, ProgramsAssumption, SeqFacts DEF IsSeq
  <1>5. results = [i \in 1 .. Len(programs) |-> results[i]]
    BY <1>3, <1>4 DEF ResultsInv
  <1>6. Len(results) = Len(programs) /\ DOMAIN results = 1 .. Len(programs)
    BY <1>4, <1>5, FunctionIsSeq
  <1>7. T # {} /\ T \subseteq Nat
    BY <1>1, <1>6
  <1>8. Min(T) \in T
    BY <1>7, MinIsLeast
  <1>9. k = Min(T)
    BY <1>7 DEF SelectInSeq
  <1> QED
    BY <1>6, <1>8, <1>9

(* Each step keeps results and what was read of them.                      *)
LEMMA ResultsNext ==
  ShotsInv /\ SourcesInv /\ ResultsInv /\ [Next]_vars => ResultsInv'
  <1> SUFFICES ASSUME ShotsInv, SourcesInv, ResultsInv, [Next]_vars PROVE ResultsInv'
    OBVIOUS
  <1> DEFINE Same == UNCHANGED <<arch, sources, results, read>>
  <1>1. Same => ResultsInv'
    BY DEF ResultsInv, Parsed
  <1>2. ASSUME NEW list \in ProgramLists, SetPrograms(list) PROVE Same
    BY <1>2 DEF SetPrograms
  <1>3. ASSUME NEW n \in ShotValues, SetShots(n) PROVE Same
    BY <1>3 DEF SetShots
  <1>4. ASSUME NEW t \in ForeignTasks \union ({task} \ {None}), Reopen(t) PROVE Same
    BY <1>4 DEF Reopen
  <1>5. UNCHANGED vars => Same
    BY DEF vars
  <1>6. CASE Submit
    <2>1. DOMAIN sources' = DOMAIN programs /\ Parsed'
      BY <1>6 DEF Submit, Parsed
    <2>2. /\ results' = [i \in DOMAIN programs |-> None]
          /\ read' = [i \in DOMAIN programs |-> None]
      BY <1>6 DEF Submit
    <2> QED
      BY <2>1, <2>2 DEF ResultsInv
  <1>7. CASE ServiceRuns
    <2> DEFINE k == SelectInSeq(results, LAMBDA r : r = None)
               S == Requested(sources[k])
    <2>1. k \in DOMAIN results /\ results[k] = None
      BY <1>7, NextHasNone DEF ServiceRuns
    <2>2. PICK order \in Orders(S), shot \in [1 .. Cardinality(S) -> {0, 1}],
               source \in {None, sources[k]} :
            results' = [results EXCEPT ![k] = [measuredQubits |-> order, shot |-> shot,
                                               source |-> source]]
      BY <1>7 DEF ServiceRuns
    <2> DEFINE new == [measuredQubits |-> order, shot |-> shot, source |-> source]
    <2>3. IsResult(sources[k], new) /\ new.source \in {None, sources[k]}
      BY <2>2 DEF IsResult
    <2>4. UNCHANGED <<arch, sources, read>>
      BY <1>7 DEF ServiceRuns
    <2> HIDE DEF k, new
    <2>5. k \in DOMAIN sources /\ results[k] = None
          /\ results' = [i \in DOMAIN sources |-> IF i = k THEN new ELSE results[i]]
      BY <2>1, <2>2 DEF ResultsInv, new
    <2>6. read[k] = None
      BY <2>5 DEF ResultsInv
    <2>7. ASSUME NEW i \in DOMAIN sources
          PROVE  /\ results'[i] # None => IsResult(sources[i], results'[i])
                                          /\ results'[i].source \in {None, sources[i]}
                 /\ read[i] # None =>
                      /\ results'[i] # None
                      /\ read[i] = ParseMeasurementResults(results'[i], results'[i].source)
      BY <2>3, <2>5, <2>6 DEF ResultsInv
    <2> QED
      BY <2>4, <2>5, <2>7 DEF ResultsInv, Parsed
  <1>8. ASSUME NEW k \in DOMAIN results, Read(k) PROVE ResultsInv'
    <2>1. /\ UNCHANGED <<arch, sources, results>> /\ results[k] # None
          /\ read' = [read EXCEPT ![k] =
                        ParseMeasurementResults(results[k], results[k].source)]
      BY <1>8 DEF Read
    <2>2. k \in DOMAIN sources
      BY DEF ResultsInv
    <2>3. read' = [i \in DOMAIN sources |->
                     IF i = k THEN ParseMeasurementResults(results[k], results[k].source)
                     ELSE read[i]]
      BY <2>1, <2>2 DEF ResultsInv
    <2> QED
      BY <2>1, <2>3 DEF ResultsInv, Parsed
  <1> HIDE DEF Same
  <1> QED
    BY <1>1, <1>2, <1>3, <1>4, <1>5, <1>6, <1>7, <1>8 DEF Next, Same, vars

(* Results and what was read of them, in every reachable state.            *)
LEMMA ResultsInvariance == Spec => []ResultsInv
  <1>1. Init => ResultsInv
    BY DEF Init, ResultsInv
  <1> QED
    BY <1>1, ResultsNext, SourcesInvariance, ShotsInvariance, PTL DEF Spec

-----------------------------------------------------------------------------
(* The bits that are read for a program whose returned source can be       *)
(* projected onto its register.                                            *)
ProjectionsAreRight ==
  \A i \in DOMAIN read :
    /\ read[i] # None /\ results[i].source # None /\ Terminal(programs[i])
    /\ SourceReadout(sources[i]) \notin {None, Fatal}
    => read[i] = RightBits(programs[i], sources[i], results[i])

(* However a program was adapted, in whatever order the service lists the  *)
(* qubits, whatever is measured again and for every width and number of    *)
(* sites, the bits that are read from its source are the right ones.       *)
THEOREM Projections == Spec => []ProjectionsAreRight
  <1>1. SourcesInv /\ ResultsInv => ProjectionsAreRight
    <2> SUFFICES ASSUME SourcesInv, ResultsInv, NEW i \in DOMAIN read,
                        read[i] # None, results[i].source # None, Terminal(programs[i]),
                        SourceReadout(sources[i]) \notin {None, Fatal}
                 PROVE  read[i] = RightBits(programs[i], sources[i], results[i])
      BY DEF ProjectionsAreRight
    <2>1. i \in DOMAIN sources
      BY DEF ResultsInv
    <2>2. WellFormed(programs[i]) /\ sources[i] = AdaptProgram(programs[i], arch)
      BY <2>1, SourcesAreAdapted
    <2>3. /\ IsResult(sources[i], results[i]) /\ results[i].source = sources[i]
          /\ read[i] = ParseMeasurementResults(results[i], results[i].source)
      BY <2>1 DEF ResultsInv
    <2> QED
      BY <2>2, <2>3, ParsedReadout
  <1> QED
    BY <1>1, SourcesInvariance, ResultsInvariance, PTL

(* If what is submitted can be projected onto the register of bits, what   *)
(* is read is what the client's program says.                              *)
THEOREM Readouts ==
  ASSUME Readable(Devices, ProgramLists)
  PROVE  Spec => []ReadoutIsRight
  <1>1. DeviceInv /\ SourcesInv /\ ResultsInv /\ ProjectionsAreRight => ReadoutIsRight
    <2> SUFFICES ASSUME DeviceInv, SourcesInv, ResultsInv, ProjectionsAreRight,
                        NEW i \in DOMAIN read, read[i] # None, results[i].source # None,
                        Terminal(programs[i])
                 PROVE  read[i] = RightBits(programs[i], sources[i], results[i])
      BY DEF ReadoutIsRight
    <2>1. i \in DOMAIN sources /\ Parsed
      BY DEF ResultsInv
    <2>2. /\ programs \in ProgramLists /\ i \in DOMAIN programs
          /\ sources[i] = AdaptProgram(programs[i], arch)
      BY <2>1 DEF SourcesInv
    <2>3. programs[i] \in ToSet(programs)
      BY <2>2 DEF ToSet
    <2>4. SourceReadout(sources[i]) \notin {None, Fatal}
      BY <2>1, <2>2, <2>3 DEF DeviceInv, Parsed, Readable
    <2> QED
      BY <2>4 DEF ProjectionsAreRight
  <1> QED
    BY <1>1, DeviceInvariance, SourcesInvariance, ResultsInvariance, Projections, PTL

-----------------------------------------------------------------------------
(* Where a qubit is in the service's list.                                 *)
LEMMA ColumnIsAPosition ==
  ASSUME NEW q, IsSeq(q), NEW site \in ToSet(q)
  PROVE  Column(q, site) \in 1 .. Len(q)
  <1> DEFINE T == {i \in 1 .. Len(q) : q[i] = site}
  <1>1. T # {} /\ T \subseteq Nat
    BY SeqFacts
  <1>2. Min(T) \in T
    BY <1>1, MinIsLeast
  <1>3. Column(q, site) = Min(T)
    BY <1>1 DEF Column, SelectInSeq
  <1> QED
    BY <1>2, <1>3

(* What is read of a result are bits, unless it is rejected.               *)
LEMMA ParsedBits ==
  ASSUME NEW x, WellFormed(x), NEW result, IsResult(x, result), NEW source \in {None, x}
  PROVE  LET bits == ParseMeasurementResults(result, source) IN
         bits = Fatal \/ Range(bits) \subseteq {0, 1}
  <1> DEFINE r == IF source = None THEN None ELSE SourceReadout(source)
             q == result.measuredQubits
             shot == result.shot
             S == Requested(x)
             sorted == Descending(ToSet(q))
             bits == ParseMeasurementResults(result, source)
  <1>1. S \subseteq Nat /\ IsFiniteSet(S)
    BY RequestedQubits
  <1>2. q \in Orders(S) /\ shot \in [1 .. Cardinality(S) -> {0, 1}]
    BY DEF IsResult
  <1>3. IsSeq(q) /\ Len(q) = Cardinality(S) /\ ToSet(q) = S
    BY <1>1, <1>2, OrdersListAll
  <1>4. \A site \in S : shot[Column(q, site)] \in {0, 1}
    <2> SUFFICES ASSUME NEW site \in S PROVE shot[Column(q, site)] \in {0, 1}
      OBVIOUS
    <2>1. Column(q, site) \in 1 .. Len(q)
      BY <1>3, ColumnIsAPosition
    <2> QED
      BY <1>2, <1>3, <2>1
  <1>5. bits = IF r = Fatal \/ ~IsInjective(q) \/ Len(shot) # Len(q) THEN Fatal
               ELSE IF r = None THEN [i \in DOMAIN sorted |-> shot[Column(q, sorted[i])]]
               ELSE IF ~(Range(r.sites) \ {None} \subseteq ToSet(q)) THEN Fatal
               ELSE Project(r, q, shot)
    BY DEF ParseMeasurementResults, Descending
  <1>6. \A i \in DOMAIN sorted : sorted[i] \in S
    BY <1>1, <1>3, DescendingListsAll, SeqFacts
  <1>7. r \notin {None, Fatal} =>
          /\ Width(x, "bit") \in Nat
          /\ r.initial \in Seq({0, 1}) /\ Len(r.initial) = Width(x, "bit")
          /\ DOMAIN r.sites = 0 .. Width(x, "bit") - 1
    <2> SUFFICES ASSUME r \notin {None, Fatal}
                 PROVE  /\ Width(x, "bit") \in Nat
                        /\ r.initial \in Seq({0, 1}) /\ Len(r.initial) = Width(x, "bit")
                        /\ DOMAIN r.sites = 0 .. Width(x, "bit") - 1
      OBVIOUS
    <2>1. r = SourceReadout(x)
      OBVIOUS
    <2> HIDE DEF r
    <2>2. /\ Width(x, "bit") \in Nat
          /\ r.initial \in Seq({0, 1}) /\ Len(r.initial) = Width(x, "bit")
          /\ r.sites = [slot \in 0 .. Width(x, "bit") - 1 |-> SiteOf(x, slot)]
      BY <2>1, ProgramIsSeq, ReadoutIsHeard, ReadoutHasWidth
    <2> QED
      BY <2>2
  <1> DEFINE width == Width(x, "bit")
  <1> HIDE DEF r, q, shot, S, sorted, bits, width
  <1>8. CASE r = None /\ bits # Fatal
    <2>1. bits = [i \in DOMAIN sorted |-> shot[Column(q, sorted[i])]]
      BY <1>5, <1>8
    <2> QED
      BY <1>4, <1>6, <2>1 DEF Range, bits
  <1>9. CASE r # None /\ bits # Fatal
    <2>1. bits = Project(r, q, shot) /\ r \notin {None, Fatal}
          /\ Range(r.sites) \ {None} \subseteq S
      BY <1>3, <1>5, <1>9
    <2>2. /\ width \in Nat /\ DOMAIN r.initial = 1 .. width /\ Len(r.initial) = width
          /\ \A i \in 1 .. width : r.initial[i] \in {0, 1}
          /\ DOMAIN r.sites = 0 .. width - 1
      BY <1>7, <2>1, LenProperties, ElementOfSeq DEF width
    <2>3. bits = [i \in 1 .. width |-> IF r.sites[width - i] = None THEN r.initial[i]
                                       ELSE shot[Column(q, r.sites[width - i])]]
      BY <2>1, <2>2 DEF Project
    <2>4. ASSUME NEW i \in 1 .. width PROVE bits[i] \in {0, 1}
      <3>1. width - i \in DOMAIN r.sites
        BY <2>2
      <3>2. r.sites[width - i] = None \/ r.sites[width - i] \in S
        BY <2>1, <3>1 DEF Range
      <3> QED
        BY <1>4, <2>2, <2>3, <3>2
    <2>5. Range(bits) \subseteq {0, 1}
      BY <2>3, <2>4 DEF Range
    <2> QED
      BY <2>5 DEF bits
  <1>10. CASE bits = Fatal
    BY <1>10 DEF bits
  <1> QED
    BY <1>8, <1>9, <1>10

(* The types of the variables, for all devices and programs.  What is read *)
(* of a program is a string of bits or an error, also where the service    *)
(* returns no source or one that cannot be projected.                      *)
THEOREM Types == Spec => []TypeOK
  <1>1. DeviceInv /\ ShotsInv /\ SourcesInv /\ ResultsInv => TypeOK
    <2> SUFFICES ASSUME DeviceInv, ShotsInv, SourcesInv, ResultsInv PROVE TypeOK
      OBVIOUS
    <2>1. caps \in Devices /\ shots \in 0 .. MaxSize
      BY DEF DeviceInv, ShotsInv, AcceptedInv
    <2>2. programs \in ProgramLists \union {<<>>}
      BY DEF SourcesInv
    <2>3. ASSUME task # None
          PROVE  task.shots \in 0 .. MaxInt64 /\ task.programs = Len(programs)
      <3>1. /\ programs # <<>> /\ task.shots = Wrap(shots * Len(programs))
            /\ task.programs = Len(programs)
        BY <2>3 DEF ShotsInv, TaskInv
      <3>2. /\ shots * Len(programs) \in 0 .. MaxInt64
            /\ Wrap(shots * Len(programs)) = shots * Len(programs)
        BY <3>1, AcceptedProduct DEF ShotsInv
      <3> QED
        BY <3>1, <3>2
    <2>4. ASSUME NEW i \in DOMAIN read
          PROVE  read[i] \in {None, Fatal} \/ Range(read[i]) \subseteq {0, 1}
      <3>1. i \in DOMAIN sources
        BY DEF ResultsInv
      <3>2. WellFormed(sources[i])
        BY <3>1, SourcesAreAdapted, AdaptedIsWellFormed
      <3>3. CASE read[i] # None
        <4>1. /\ IsResult(sources[i], results[i]) /\ results[i].source \in {None, sources[i]}
              /\ read[i] = ParseMeasurementResults(results[i], results[i].source)
          BY <3>1, <3>3 DEF ResultsInv
        <4> QED
          BY <3>2, <4>1, ParsedBits
      <3> QED
        BY <3>3
    <2> QED
      BY <2>1, <2>2, <2>3, <2>4 DEF TypeOK
  <1> QED
    BY <1>1, DeviceInvariance, ShotsInvariance, SourcesInvariance, ResultsInvariance, PTL

-----------------------------------------------------------------------------
(* The order of the kinds of statements in an adapted flat native program. *)
Layer(s) == [qubit |-> 0, bit |-> 1, init |-> 2, verbatim |-> 3, gate |-> 4, assign |-> 5,
             measure |-> 6][s.kind]

(* The statements of x are in this order up to a layer, with at most one   *)
(* register of each kind.                                                  *)
IsLayered(x, n) ==
  /\ IsSeq(x)
  /\ \A i \in DOMAIN x : Layer(x[i]) \in 0 .. n
  /\ \A i, j \in DOMAIN x : i < j =>
       /\ Layer(x[i]) <= Layer(x[j])
       /\ Layer(x[i]) = Layer(x[j]) => Layer(x[i]) > 1

(* One more layer.                                                         *)
LEMMA JoinedLayers ==
  ASSUME NEW n \in Nat, NEW x, IsLayered(x, n), NEW y, IsSeq(y),
         \A s \in ToSet(y) : Layer(s) = n + 1, Len(y) <= 1 \/ n > 0
  PROVE  IsLayered(Joined(x, y), n + 1)
  <1> DEFINE z == x \o y
             a == Len(x)
             b == Len(y)
  <1>1. IsSeq(x) /\ a \in Nat /\ b \in Nat /\ DOMAIN x = 1 .. a /\ DOMAIN y = 1 .. b
    BY SeqFacts DEF IsLayered
  <1>2. /\ IsSeq(z) /\ Len(z) = a + b
        /\ \A i \in 1 .. a + b : z[i] = IF i <= a THEN x[i] ELSE y[i - a]
    BY <1>1, ConcatElements
  <1>3. DOMAIN z = 1 .. a + b
    BY <1>2, SeqFacts
  <1>4. \A j \in 1 .. b : Layer(y[j]) = n + 1
    BY <1>1, SeqFacts
  <1>5. /\ \A i \in 1 .. a : Layer(x[i]) \in 0 .. n
        /\ \A i, j \in 1 .. a : i < j =>
             /\ Layer(x[i]) <= Layer(x[j])
             /\ Layer(x[i]) = Layer(x[j]) => Layer(x[i]) > 1
    BY <1>1 DEF IsLayered
  <1> HIDE DEF z, a, b
  <1>6. \A i \in 1 .. a + b : /\ i <= a => i \in 1 .. a /\ z[i] = x[i]
                              /\ ~(i <= a) => i - a \in 1 .. b /\ z[i] = y[i - a]
    BY <1>1, <1>2
  <1>7. ASSUME NEW i \in 1 .. a + b PROVE Layer(z[i]) \in 0 .. n + 1
    BY <1>4, <1>5, <1>6
  <1>8. ASSUME NEW i \in 1 .. a + b, NEW j \in 1 .. a + b, i < j
        PROVE  /\ Layer(z[i]) <= Layer(z[j])
               /\ Layer(z[i]) = Layer(z[j]) => Layer(z[i]) > 1
    <2>1. CASE j <= a
      <3>1. i <= a
        BY <1>1, <1>8, <2>1
      <3> QED
        BY <1>5, <1>6, <1>8, <2>1, <3>1
    <2>2. CASE i <= a /\ ~(j <= a)
      <3>1. Layer(z[i]) \in 0 .. n /\ Layer(z[j]) = n + 1
        BY <1>4, <1>5, <1>6, <2>2
      <3> QED
        BY <3>1
    <2>3. CASE ~(i <= a) /\ ~(j <= a)
      <3>1. Layer(z[i]) = n + 1 /\ Layer(z[j]) = n + 1
        BY <1>4, <1>6, <2>3
      <3>2. b > 1
        <4>1. i - a \in 1 .. b /\ j - a \in 1 .. b
          BY <1>6, <2>3
        <4> QED
          BY <1>1, <1>8, <4>1
      <3>3. n > 0
        BY <1>1, <3>2 DEF b
      <3> QED
        BY <3>1, <3>3
    <2> QED
      BY <2>1, <2>2, <2>3
  <1>9. IsLayered(z, n + 1)
    BY <1>2, <1>3, <1>7, <1>8 DEF IsLayered
  <1> QED
    BY <1>9, Zenon DEF Joined, z

(* The layers of an adapted flat native program.                           *)
LEMMA NativeLayers ==
  ASSUME NEW p, WellFormed(p), Terminal(p), NEW a, IsNative(p, a)
  PROVE  IsLayered(AdaptProgram(p, a), 6)
  <1> DEFINE q == QubitRegister(a, p)
             b == Of(p, {"bit"})
             i == Initialization(p)
             v == Verbatim(a)
             k == Rewritten(a, p, Kept(p))
             m == Rewritten(a, p, Of(p, {"assign"}))
             u == Supplement(a, p)
             x == Seven(q, b, i, v, k, m, u)
  <1>1. AdaptProgram(p, a) = x
    BY Zenon DEF AdaptProgram, Seven, Joined
  <1>2. /\ IsSeq(q) /\ \A s \in ToSet(q) : s.kind = "qubit"
        /\ IsSeq(i) /\ \A s \in ToSet(i) : s.kind = "init"
        /\ IsSeq(v) /\ \A s \in ToSet(v) : s.kind = "verbatim"
        /\ IsSeq(k) /\ \A s \in ToSet(k) : s.kind = "gate" /\ s.op # "gphase"
        /\ IsSeq(m) /\ \A s \in ToSet(m) : s.kind = "assign"
        /\ IsSeq(u) /\ \A s \in ToSet(u) : s.kind = "measure"
    BY AdaptedParts
  <1>3. IsSeq(b) /\ Len(b) = 1 /\ \A s \in ToSet(b) : s.kind = "bit"
    BY OfIsSeq, ProgramIsSeq DEF Terminal
  <1>4. q = <<>> \/ \E r : q = <<r>>
    BY DEF QubitRegister
  <1> HIDE DEF q, b, i, v, k, m, u
  <1>5. IsLayered(q, 0)
    <2>1. \A j \in DOMAIN q : j = 1
      BY <1>4
    <2>2. \A j \in DOMAIN q : Layer(q[j]) = 0
      BY <1>2, SeqFacts DEF Layer
    <2> QED
      BY <1>2, <2>1, <2>2 DEF IsLayered
  <1>6. /\ \A s \in ToSet(b) : Layer(s) = 1
        /\ \A s \in ToSet(i) : Layer(s) = 2
        /\ \A s \in ToSet(v) : Layer(s) = 3
        /\ \A s \in ToSet(k) : Layer(s) = 4
        /\ \A s \in ToSet(m) : Layer(s) = 5
        /\ \A s \in ToSet(u) : Layer(s) = 6
    BY <1>2, <1>3 DEF Layer
  <1> DEFINE y2 == Joined(q, b)
             y3 == Joined(y2, i)
             y4 == Joined(y3, v)
             y5 == Joined(y4, k)
             y6 == Joined(y5, m)
             y7 == Joined(y6, u)
  <1>7. 0 + 1 = 1 /\ 1 + 1 = 2 /\ 2 + 1 = 3 /\ 3 + 1 = 4 /\ 4 + 1 = 5 /\ 5 + 1 = 6
    OBVIOUS
  <1>8. Len(b) <= 1
    BY <1>3
  <1>9. IsLayered(y2, 1)
    BY <1>3, <1>5, <1>6, <1>7, <1>8, JoinedLayers
  <1> HIDE DEF y2
  <1>10. IsLayered(y3, 2)
    BY <1>2, <1>6, <1>7, <1>9, JoinedLayers
  <1> HIDE DEF y3
  <1>11. IsLayered(y4, 3)
    BY <1>2, <1>6, <1>7, <1>10, JoinedLayers
  <1> HIDE DEF y4
  <1>12. IsLayered(y5, 4)
    BY <1>2, <1>6, <1>7, <1>11, JoinedLayers
  <1> HIDE DEF y5
  <1>13. IsLayered(y6, 5)
    BY <1>2, <1>6, <1>7, <1>12, JoinedLayers
  <1> HIDE DEF y6
  <1>14. IsLayered(y7, 6)
    BY <1>2, <1>6, <1>7, <1>13, JoinedLayers
  <1> QED
    BY <1>1, <1>14, Zenon DEF Seven, y2, y3, y4, y5, y6, y7

(* What comes before a statement of a layered program.                     *)
LEMMA LayersBefore ==
  ASSUME NEW x, IsLayered(x, 6), NEW i \in DOMAIN x
  PROVE  /\ x[i].kind \in {"qubit", "bit", "init", "verbatim", "gate"} =>
              ~Has(Before(x, i), {"assign", "measure"})
         /\ \A k \in {"qubit", "bit"} :
              /\ x[i].kind = k => ~Has(Before(x, i), {k})
              /\ x[i].kind \in {"verbatim", "gate", "assign"} /\ Has(x, {k}) =>
                   Has(Before(x, i), {k})
  <1>1. IsSeq(x) /\ Len(x) \in Nat /\ DOMAIN x = 1 .. Len(x) /\ i \in 1 .. Len(x)
    BY SeqFacts DEF IsLayered
  <1>2. \A K : Has(Before(x, i), K) <=> \E j \in 1 .. i - 1 : x[j].kind \in K
    BY <1>1, BeforeHas
  <1>3. \A K : Has(x, K) <=> \E j \in 1 .. Len(x) : x[j].kind \in K
    BY <1>1, HasMeans
  <1>4. \A j \in 1 .. i - 1 : /\ j \in DOMAIN x /\ Layer(x[j]) <= Layer(x[i])
                              /\ Layer(x[j]) = Layer(x[i]) => Layer(x[j]) > 1
    BY <1>1 DEF IsLayered
  <1>5. \A j \in 1 .. Len(x) : j > i => Layer(x[i]) <= Layer(x[j])
    BY <1>1 DEF IsLayered
  <1>6. \A j \in 1 .. Len(x) : Layer(x[j]) \in Int
    BY <1>1 DEF IsLayered
  <1>7. \A s : /\ s.kind = "qubit" => Layer(s) = 0
               /\ s.kind = "bit" => Layer(s) = 1
               /\ s.kind = "init" => Layer(s) = 2
               /\ s.kind = "verbatim" => Layer(s) = 3
               /\ s.kind = "gate" => Layer(s) = 4
               /\ s.kind = "assign" => Layer(s) = 5
               /\ s.kind = "measure" => Layer(s) = 6
    BY DEF Layer
  <1>8. ASSUME x[i].kind \in {"qubit", "bit", "init", "verbatim", "gate"},
               Has(Before(x, i), {"assign", "measure"})
        PROVE  FALSE
    <2>1. PICK j \in 1 .. i - 1 : x[j].kind \in {"assign", "measure"}
      BY <1>2, <1>8
    <2>2. Layer(x[j]) \in {5, 6} /\ Layer(x[i]) \in {0, 1, 2, 3, 4}
      BY <1>7, <1>8, <2>1
    <2> QED
      BY <1>4, <2>2
  <1>9. ASSUME NEW k \in {"qubit", "bit"}, x[i].kind = k, Has(Before(x, i), {k}) PROVE FALSE
    <2>1. PICK j \in 1 .. i - 1 : x[j].kind = k
      BY <1>2, <1>9
    <2>2. Layer(x[j]) = Layer(x[i]) /\ Layer(x[j]) \in {0, 1}
      BY <1>7, <1>9, <2>1
    <2> QED
      BY <1>4, <2>2
  <1>10. ASSUME NEW k \in {"qubit", "bit"}, Has(x, {k}),
                x[i].kind \in {"verbatim", "gate", "assign"}
         PROVE  Has(Before(x, i), {k})
    <2>1. PICK j \in 1 .. Len(x) : x[j].kind = k
      BY <1>3, <1>10
    <2>2. Layer(x[j]) \in {0, 1} /\ Layer(x[i]) \in {3, 4, 5}
      BY <1>7, <1>10, <2>1
    <2>3. ~(j > i) /\ j # i
      BY <1>5, <2>2
    <2>4. j \in 1 .. i - 1
      BY <1>1, <2>1, <2>3
    <2> QED
      BY <1>2, <2>1, <2>4
  <1> QED
    BY <1>8, <1>9, <1>10

(* What a flat native program says of its register of bits.                *)
LEMMA NativeSource ==
  ASSUME NEW p, WellFormed(p), Terminal(p), NEW a, IsNative(p, a)
  PROVE  /\ \A s \in ToSet(p) :
              /\ s.kind = "bit" => s.width > 0
              /\ s.kind = "init" => Len(s.bits) = Width(p, "bit")
              /\ s.kind = "assign" => s.slot < Width(p, "bit")
         /\ \A s \in ToSet(Kept(p)) : s.op # Register(p, "bit")
  <1>1. IsSeq(p) /\ Len(p) \in Nat /\ DOMAIN p = 1 .. Len(p)
    BY ProgramIsSeq, SeqFacts
  <1>2. \A j \in DOMAIN p : NativeStatement(a, Before(p, j), p[j])
    BY DEF IsNative
  <1>3. \A j \in DOMAIN p : Has(Before(p, j), {"bit"}) =>
          /\ Width(Before(p, j), "bit") = Width(p, "bit")
          /\ Register(Before(p, j), "bit") = Register(p, "bit")
    BY <1>1, BeforeRegister
  <1>4. ASSUME NEW s \in ToSet(p)
        PROVE  /\ s.kind = "bit" => s.width > 0
               /\ s.kind = "init" => Len(s.bits) = Width(p, "bit")
               /\ s.kind = "assign" => s.slot < Width(p, "bit")
    <2>1. PICK j \in DOMAIN p : s = p[j]
      BY <1>1, SeqFacts
    <2> DEFINE before == Before(p, j)
    <2>2. NativeStatement(a, before, s)
      BY <1>2, <2>1
    <2>3. Has(before, {"bit"}) => Width(before, "bit") = Width(p, "bit")
      BY <1>3
    <2> HIDE DEF before
    <2> QED
      BY <2>2, <2>3 DEF NativeStatement, Named
  <1>5. ASSUME NEW s \in ToSet(Kept(p)) PROVE s.op # Register(p, "bit")
    <2>1. s \in ToSet(p) /\ s.kind = "gate" /\ s.op # "gphase"
      BY <1>1, <1>5, KeptIsSeq
    <2>2. PICK j \in DOMAIN p : s = p[j]
      BY <1>1, <2>1, SeqFacts
    <2>3. NativeStatement(a, Before(p, j), s)
      BY <1>2, <2>2
    <2>4. Has(p, {"bit"})
      BY DEF Terminal, Has
    <2>5. PICK l \in 1 .. Len(p) : p[l].kind = "bit"
      BY <1>1, <2>4, HasMeans
    <2>6. NativeStatement(a, Before(p, l), p[l])
      BY <1>1, <1>2
    <2>7. Kept(Before(p, l)) = <<>>
      BY <2>5, <2>6 DEF NativeStatement
    <2>8. ~(j < l)
      <3> SUFFICES ASSUME j < l PROVE FALSE
        OBVIOUS
      <3> DEFINE b == Before(p, l)
                 G == {t \in ToSet(b) : t.kind = "gate" /\ t.op # "gphase"}
      <3>1. IsSeq(b) /\ Len(b) = l - 1 /\ \A n \in 1 .. l - 1 : b[n] = p[n]
        BY <1>1, BeforeFacts
      <3>2. j \in 1 .. l - 1
        BY <1>1
      <3>3. s \in ToSet(b)
        BY <2>2, <3>1, <3>2, SeqFacts
      <3>4. s \in G
        BY <2>1, <3>3
      <3>5. Selection(b, G) = Kept(b)
        BY DEF Kept
      <3> HIDE DEF b, G
      <3>6. s \in ToSet(Selection(b, G))
        BY <3>1, <3>3, <3>4, SelectionHasAll
      <3>7. Kept(b) = <<>>
        BY <2>7 DEF b
      <3> QED
        BY <3>5, <3>6, <3>7, EmptyIsSeq
    <2>9. j # l
      BY <2>1, <2>2, <2>5
    <2>10. l \in 1 .. j - 1
      BY <1>1, <2>8, <2>9
    <2>11. Has(Before(p, j), {"bit"})
      BY <1>1, <2>5, <2>10, BeforeHas
    <2>12. Register(Before(p, j), "bit") = Register(p, "bit")
      BY <1>3, <2>11
    <2> QED
      BY <2>1, <2>3, <2>12 DEF NativeStatement
  <1> QED
    BY <1>4, <1>5

-----------------------------------------------------------------------------
(* The statements of a program of seven parts.                             *)
LEMMA SevenElements ==
  ASSUME NEW x1, NEW x2, NEW x3, NEW x4, NEW x5, NEW x6, NEW x7,
         /\ IsSeq(x1) /\ IsSeq(x2) /\ IsSeq(x3) /\ IsSeq(x4)
         /\ IsSeq(x5) /\ IsSeq(x6) /\ IsSeq(x7)
  PROVE  ToSet(Seven(x1, x2, x3, x4, x5, x6, x7))
           = ToSet(x1) \union ToSet(x2) \union ToSet(x3) \union ToSet(x4)
             \union ToSet(x5) \union ToSet(x6) \union ToSet(x7)
  <1> DEFINE y2 == Joined(x1, x2)
             y3 == Joined(y2, x3)
             y4 == Joined(y3, x4)
             y5 == Joined(y4, x5)
             y6 == Joined(y5, x6)
             y7 == Joined(y6, x7)
  <1>1. ASSUME NEW y, NEW z, IsSeq(y), IsSeq(z)
        PROVE  IsSeq(Joined(y, z)) /\ ToSet(Joined(y, z)) = ToSet(y) \union ToSet(z)
    BY <1>1, ConcatIsSeq DEF Joined
  <1>2. IsSeq(y2) /\ ToSet(y2) = ToSet(x1) \union ToSet(x2)
    BY <1>1
  <1> HIDE DEF y2
  <1>3. IsSeq(y3) /\ ToSet(y3) = ToSet(y2) \union ToSet(x3)
    BY <1>1, <1>2
  <1> HIDE DEF y3
  <1>4. IsSeq(y4) /\ ToSet(y4) = ToSet(y3) \union ToSet(x4)
    BY <1>1, <1>3
  <1> HIDE DEF y4
  <1>5. IsSeq(y5) /\ ToSet(y5) = ToSet(y4) \union ToSet(x5)
    BY <1>1, <1>4
  <1> HIDE DEF y5
  <1>6. IsSeq(y6) /\ ToSet(y6) = ToSet(y5) \union ToSet(x6)
    BY <1>1, <1>5
  <1> HIDE DEF y6
  <1>7. ToSet(y7) = ToSet(y6) \union ToSet(x7)
    BY <1>1, <1>6
  <1>8. y7 = Seven(x1, x2, x3, x4, x5, x6, x7)
    BY Zenon DEF Seven, y2, y3, y4, y5, y6, y7
  <1> QED
    BY <1>2, <1>3, <1>4, <1>5, <1>6, <1>7, <1>8, Zenon

(* The statements of an adapted flat native program.                       *)
LEMMA NativeStatements ==
  ASSUME NEW p, WellFormed(p), Terminal(p), NEW a, IsNative(p, a),
         NEW s \in ToSet(AdaptProgram(p, a))
  PROVE  /\ s.kind \in {"qubit", "bit", "init", "verbatim", "gate", "assign", "measure"}
         /\ s.kind \in {"qubit", "bit"} => s.width # 0
         /\ s.kind = "init" => Len(s.bits) = Width(p, "bit")
         /\ s.kind = "gate" => /\ s.op # Register(p, "bit")
                               /\ \A r \in ToSet(s.refs) : r.reg \in {"$", "q"}
         /\ s.kind = "assign" => /\ s.slot \in Nat /\ s.slot < Width(p, "bit")
                                 /\ \E n \in Sites(p) : s.refs[1] = Reference(a, p, n)
  <1> DEFINE q == QubitRegister(a, p)
             b == Of(p, {"bit"})
             i == Initialization(p)
             v == Verbatim(a)
             k == Rewritten(a, p, Kept(p))
             m == Rewritten(a, p, Of(p, {"assign"}))
             u == Supplement(a, p)
             x == AdaptProgram(p, a)
             width == Width(p, "bit")
  <1>1. x = Seven(q, b, i, v, k, m, u)
    BY Zenon DEF AdaptProgram, Seven, Joined
  <1>2. /\ IsSeq(q) /\ \A t \in ToSet(q) : t.kind = "qubit"
        /\ IsSeq(i) /\ \A t \in ToSet(i) : t.kind = "init"
        /\ IsSeq(v) /\ \A t \in ToSet(v) : t.kind = "verbatim"
        /\ IsSeq(k) /\ \A t \in ToSet(k) : t.kind = "gate" /\ t.op # "gphase"
        /\ IsSeq(m) /\ \A t \in ToSet(m) : t.kind = "assign"
        /\ IsSeq(u) /\ \A t \in ToSet(u) : t.kind = "measure"
    BY AdaptedParts
  <1>3. IsSeq(b) /\ ToSet(b) \subseteq ToSet(p) /\ \A t \in ToSet(b) : t.kind = "bit"
    BY OfIsSeq, ProgramIsSeq
  <1>4. /\ \A t \in ToSet(p) :
             /\ t.kind = "bit" => t.width > 0
             /\ t.kind = "init" => Len(t.bits) = width
             /\ t.kind = "assign" => t.slot < width
        /\ \A t \in ToSet(Kept(p)) : t.op # Register(p, "bit")
    BY NativeSource
  <1>5. ToSet(i) \subseteq ToSet(p)
    BY AdaptedBits, NativeParts
  <1>6. \A t \in ToSet(q) : t.width # 0
    <2>1. Sites(p) # {} => Cardinality(Sites(p)) # 0
      BY SitesAreNumbers, FS_EmptySet
    <2> QED
      BY <2>1, EmptyIsSeq, SingleIsSeq DEF QubitRegister
  <1>7. \A t \in ToSet(Kept(p)) \union ToSet(Of(p, {"assign"})) :
          /\ t \in ToSet(p) /\ "refs" \in DOMAIN t /\ IsSeq(t.refs)
          /\ \A r \in ToSet(t.refs) : r.index \in Sites(p)
    BY SitesAreNumbers
  <1>8. IsSeq(Kept(p)) /\ IsSeq(Of(p, {"assign"}))
    BY KeptIsSeq, OfIsSeq, ProgramIsSeq
  <1>9. \A n : Reference(a, p, n).reg \in {"$", "q"}
    BY DEF Reference
  <1>10. ASSUME NEW t \in ToSet(k)
         PROVE  t.op # Register(p, "bit") /\ \A r \in ToSet(t.refs) : r.reg \in {"$", "q"}
    <2>1. Renamed(a, p, Kept(p), k)
      BY <1>8, RewrittenWellFormed
    <2> HIDE DEF k
    <2>2. PICK j \in DOMAIN Kept(p) : t = k[j]
      <3>1. IsSeq(k) /\ DOMAIN k = DOMAIN Kept(p)
        BY <2>1 DEF Renamed
      <3> QED
        BY <1>10, <3>1, SeqFacts
    <2>3. Kept(p)[j] \in ToSet(Kept(p))
      BY <1>8, SeqFacts
    <2>4. /\ t.op = Kept(p)[j].op
          /\ t.refs = [l \in DOMAIN Kept(p)[j].refs |->
                         Reference(a, p, Kept(p)[j].refs[l].index)]
      BY <2>1, <2>2 DEF Renamed, RenamedAs
    <2>5. \A r \in ToSet(t.refs) : r.reg \in {"$", "q"}
      BY <1>9, <2>4 DEF ToSet
    <2> QED
      BY <1>4, <2>3, <2>4, <2>5
  <1>11. ASSUME NEW t \in ToSet(m)
         PROVE  /\ t.slot \in Nat /\ t.slot < width
                /\ \E n \in Sites(p) : t.refs[1] = Reference(a, p, n)
    <2> DEFINE o == Of(p, {"assign"})
    <2>1. Renamed(a, p, o, m)
      BY <1>8, RewrittenWellFormed
    <2>2. \A j \in DOMAIN o : m[j].slot = o[j].slot
      <3>1. Of(x, {"assign"}) = m
        BY NativeParts
      <3>2. \A j \in DOMAIN o : Of(x, {"assign"})[j].slot = o[j].slot
        BY AdaptedAssignments
      <3> QED
        BY <3>1, <3>2
    <2>3. \A y \in ToSet(o) : y.kind = "assign"
      BY OfIsSeq, ProgramIsSeq
    <2> HIDE DEF m, o
    <2>4. PICK j \in DOMAIN o : t = m[j]
      <3>1. IsSeq(m) /\ DOMAIN m = DOMAIN o
        BY <2>1 DEF Renamed
      <3> QED
        BY <1>11, <3>1, SeqFacts
    <2> DEFINE y == o[j]
    <2>5. y \in ToSet(o)
      BY <1>8, SeqFacts DEF o
    <2>6. y \in ToSet(p) /\ y.kind = "assign" /\ IsSeq(y.refs)
          /\ \A r \in ToSet(y.refs) : r.index \in Sites(p)
      BY <1>7, <2>3, <2>5 DEF o
    <2>7. WellFormedStatement(y)
      BY <2>6 DEF WellFormed
    <2>8. y.slot \in Nat /\ Len(y.refs) = 1
      BY <2>6, <2>7 DEF WellFormedStatement
    <2>9. 1 \in DOMAIN y.refs
      BY <2>6, <2>8, SeqFacts
    <2>10. y.refs[1] \in ToSet(y.refs)
      BY <2>6, <2>9, SeqFacts
    <2>11. t.refs = [l \in DOMAIN y.refs |-> Reference(a, p, y.refs[l].index)]
      BY <2>1, <2>4 DEF Renamed, RenamedAs
    <2>12. t.refs[1] = Reference(a, p, y.refs[1].index) /\ y.refs[1].index \in Sites(p)
      BY <2>6, <2>9, <2>10, <2>11
    <2>13. t.slot = y.slot /\ y.slot < width
      BY <1>4, <2>2, <2>4, <2>6
    <2> QED
      BY <2>8, <2>12, <2>13
  <1> HIDE DEF q, b, i, v, k, m, u, x, width
  <1>12. \/ s \in ToSet(q) \/ s \in ToSet(b) \/ s \in ToSet(i) \/ s \in ToSet(v)
         \/ s \in ToSet(k) \/ s \in ToSet(m) \/ s \in ToSet(u)
    <2>1. ToSet(x) = ToSet(q) \union ToSet(b) \union ToSet(i) \union ToSet(v)
                     \union ToSet(k) \union ToSet(m) \union ToSet(u)
      BY <1>1, <1>2, <1>3, SevenElements
    <2>2. s \in ToSet(x)
      BY DEF x
    <2> QED
      BY <2>1, <2>2, Zenon
  <1> DEFINE Right ==
        /\ s.kind \in {"qubit", "bit", "init", "verbatim", "gate", "assign", "measure"}
        /\ s.kind \in {"qubit", "bit"} => s.width # 0
        /\ s.kind = "init" => Len(s.bits) = width
        /\ s.kind = "gate" => /\ s.op # Register(p, "bit")
                              /\ \A r \in ToSet(s.refs) : r.reg \in {"$", "q"}
        /\ s.kind = "assign" => /\ s.slot \in Nat /\ s.slot < width
                                /\ \E n \in Sites(p) : s.refs[1] = Reference(a, p, n)
  <1>13. s \in ToSet(q) => Right
    BY <1>2, <1>6
  <1>14. s \in ToSet(b) => Right
    <2>1. s \in ToSet(b) => s.kind = "bit" /\ s.width > 0
      BY <1>3, <1>4
    <2> QED
      BY <2>1
  <1>15. s \in ToSet(i) => Right
    BY <1>2, <1>4, <1>5
  <1>16. s \in ToSet(v) \/ s \in ToSet(u) => Right
    BY <1>2
  <1>17. s \in ToSet(k) => Right
    BY <1>2, <1>10
  <1>18. s \in ToSet(m) => Right
    BY <1>2, <1>11
  <1>19. Right
    BY <1>12, <1>13, <1>14, <1>15, <1>16, <1>17, <1>18
  <1> QED
    BY <1>19 DEF width

(* What the readout goes on after.                                         *)
LEMMA Verdicts ==
  ASSUME NEW b, NEW s
  PROVE  LET measured == Has(b, {"assign", "measure"})
             classical == Register(b, "bit")
             quantum == Register(b, "qubit")
             ok == Verdict(b, s) = "ok"
         IN /\ s.kind = "measure" => ok
            /\ s.kind \in {"bit", "qubit"} /\ ~measured /\ ~Has(b, {s.kind}) /\ s.width # 0
               => ok
            /\ s.kind = "verbatim" /\ classical \notin PragmaWords /\ ~measured => ok
            /\ /\ s.kind = "init" /\ Named(b, s) /\ ~measured
               /\ Len(s.bits) = Width(b, "bit")
               => ok
            /\ /\ s.kind = "gate" /\ ~measured /\ s.op # classical
               /\ \A r \in ToSet(s.refs) : r.reg # classical
               => ok
            /\ /\ s.kind = "assign" /\ Named(b, s)
               /\ s.refs[1].reg \in {"$", quantum} /\ ~(s.slot >= Width(b, "bit"))
               /\ ~(s.refs[1].reg = quantum /\ s.refs[1].index >= Width(b, "qubit"))
               => ok
  BY DEF Verdict

(* The readout goes through an adapted flat native program whose register  *)
(* of bits has a name of its own.                                          *)
LEMMA NativeIsHeard ==
  ASSUME NEW p, WellFormed(p), Terminal(p), NEW a, IsNative(p, a),
         Register(p, "bit") \notin PragmaWords \union {"q", "$"}
  PROVE  Heard(AdaptProgram(p, a))
  <1> DEFINE x == AdaptProgram(p, a)
             name == Register(p, "bit")
             width == Width(p, "bit")
  <1>1. WellFormed(x) /\ IsSeq(x) /\ width \in Nat
    BY AdaptedIsWellFormed, ProgramIsSeq, WidthIsNat
  <1>2. /\ Has(x, {"bit"}) /\ Register(x, "bit") = name
        /\ \A i \in DOMAIN x : x[i].kind \in {"init", "assign"} =>
             Named(Before(x, i), x[i]) /\ Width(Before(x, i), "bit") = width
    BY WritesAreNamed
  <1>3. IsLayered(x, 6)
    BY NativeLayers
  <1>4. HasForm(a, x) /\ Of(x, {"qubit"}) = QubitRegister(a, p)
    BY AdaptationHasForm, NativeParts
  <1>5. \A s \in ToSet(x) :
          /\ s.kind \in {"qubit", "bit", "init", "verbatim", "gate", "assign", "measure"}
          /\ s.kind \in {"qubit", "bit"} => s.width # 0
          /\ s.kind = "init" => Len(s.bits) = width
          /\ s.kind = "gate" => s.op # name /\ \A r \in ToSet(s.refs) : r.reg \in {"$", "q"}
          /\ s.kind = "assign" => /\ s.slot \in Nat /\ s.slot < width
                                  /\ \E n \in Sites(p) : s.refs[1] = Reference(a, p, n)
    BY NativeStatements
  <1> HIDE DEF x, name, width
  <1>6. ASSUME NEW i \in DOMAIN x PROVE Verdict(Before(x, i), x[i]) = "ok"
    <2> DEFINE b == Before(x, i)
               s == x[i]
               ok == Verdict(b, s) = "ok"
    <2>1. s \in ToSet(x)
      BY <1>1, SeqFacts
    <2>2. /\ s.kind \in {"qubit", "bit", "init", "verbatim", "gate"} =>
               ~Has(b, {"assign", "measure"})
          /\ \A k \in {"qubit", "bit"} :
               /\ s.kind = k => ~Has(b, {k})
               /\ s.kind \in {"verbatim", "gate", "assign"} /\ Has(x, {k}) => Has(b, {k})
      BY <1>3, LayersBefore
    <2>3. \A k : Has(b, {k}) => Register(b, k) = Register(x, k) /\ Width(b, k) = Width(x, k)
      BY <1>1, BeforeRegister
    <2>4. s.kind \in {"verbatim", "gate"} => Register(b, "bit") = name
      BY <1>2, <2>2, <2>3
    <2>5. s.kind \in {"init", "assign"} => Named(b, s) /\ Width(b, "bit") = width
      BY <1>2
    <2>6. /\ s.kind \in {"qubit", "bit", "init", "verbatim", "gate", "assign", "measure"}
          /\ s.kind \in {"qubit", "bit"} => s.width # 0
          /\ s.kind = "init" => Len(s.bits) = width
          /\ s.kind = "gate" => s.op # name /\ \A r \in ToSet(s.refs) : r.reg \in {"$", "q"}
          /\ s.kind = "assign" => /\ s.slot \in Nat /\ s.slot < width
                                  /\ \E n \in Sites(p) : s.refs[1] = Reference(a, p, n)
      BY <1>5, <2>1
    <2>7. name \notin PragmaWords /\ name \notin {"$", "q"}
      BY DEF name
    <2>8. s.kind = "assign" =>
            LET r == s.refs[1] IN
            /\ r.reg \in {"$", Register(b, "qubit")}
            /\ ~(r.reg = Register(b, "qubit") /\ r.index >= Width(b, "qubit"))
      <3> SUFFICES ASSUME s.kind = "assign"
                   PROVE  /\ s.refs[1].reg \in {"$", Register(b, "qubit")}
                          /\ ~(/\ s.refs[1].reg = Register(b, "qubit")
                               /\ s.refs[1].index >= Width(b, "qubit"))
        OBVIOUS
      <3>1. PICK n \in Sites(p) : s.refs[1] = Reference(a, p, n)
        BY <2>6
      <3>2. CASE a.supportPhysicalQubits
        <4>1. s.refs[1].reg = "$"
          BY <3>1, <3>2 DEF Reference
        <4>2. ~Has(x, {"qubit"})
          BY <1>4, <3>2 DEF QubitRegister, Has
        <4>3. ~Has(b, {"qubit"})
          BY <1>1, <4>2, BeforeHas
        <4>4. Register(b, "qubit") = None
          BY <4>3 DEF Register
        <4> QED
          BY <4>1, <4>4, ValuesAssumption
      <3>3. CASE ~a.supportPhysicalQubits
        <4> DEFINE c == Cardinality(Sites(p))
        <4>1. s.refs[1] = [reg |-> "q", index |-> Dense(p, n)]
          BY <3>1, <3>3 DEF Reference
        <4>2. QubitRegister(a, p) = <<[kind |-> "qubit", name |-> "q", width |-> c]>>
          BY <3>3 DEF QubitRegister
        <4>3. Sites(p) \subseteq Nat /\ IsFiniteSet(Sites(p))
          BY SitesAreNumbers
        <4>4. Dense(p, n) \in 0 .. c - 1 /\ c \in Nat
          BY <4>3, RanksOfNumbers, FS_CardinalityType DEF Dense
        <4> HIDE DEF c
        <4>5. /\ Has(x, {"qubit"}) /\ Register(x, "qubit") = "q"
              /\ Width(x, "qubit") = c
          BY <1>4, <4>2 DEF Has, Register, Width
        <4>6. Has(b, {"qubit"})
          BY <2>2, <4>5
        <4>7. Register(b, "qubit") = "q" /\ Width(b, "qubit") = c
          BY <2>3, <4>5, <4>6
        <4> QED
          BY <4>1, <4>4, <4>7
      <3> QED
        BY <3>2, <3>3
    <2> HIDE DEF b, s, ok
    <2>9. ASSUME s.kind = "measure" PROVE ok
      BY <2>9, Verdicts DEF ok
    <2>10. ASSUME s.kind \in {"qubit", "bit"} PROVE ok
      BY <2>2, <2>6, <2>10, Verdicts DEF ok
    <2>11. ASSUME s.kind = "init" PROVE ok
      BY <2>2, <2>5, <2>6, <2>11, Verdicts DEF ok
    <2>12. ASSUME s.kind = "verbatim" PROVE ok
      BY <2>2, <2>4, <2>7, <2>12, Verdicts DEF ok
    <2>13. ASSUME s.kind = "gate" PROVE ok
      <3>1. s.op # Register(b, "bit") /\ \A r \in ToSet(s.refs) : r.reg # Register(b, "bit")
        BY <2>4, <2>6, <2>7, <2>13
      <3> QED
        BY <2>2, <2>13, <3>1, Verdicts DEF ok
    <2>14. ASSUME s.kind = "assign" PROVE ok
      <3>1. ~(s.slot >= Width(b, "bit"))
        BY <1>1, <2>5, <2>6, <2>14
      <3> QED
        BY <2>5, <2>8, <2>14, <3>1, Verdicts DEF ok
    <2> QED
      BY <2>6, <2>9, <2>10, <2>11, <2>12, <2>13, <2>14 DEF ok, b, s
  <1> QED
    BY <1>6 DEF Heard, x

(* The sites of a readout are numbers.                                     *)
LEMMA SiteIsNumber ==
  ASSUME NEW x, WellFormed(x), NEW slot
  PROVE  SiteOf(x, slot) \in Nat \union {None}
  <1> DEFINE T == {i \in Writes(x, "assign") : x[i].slot = slot}
  <1>1. SiteOf(x, slot) = IF T = {} THEN None ELSE x[Max(T)].refs[1].index
    BY DEF SiteOf
  <1>2. Len(x) \in Nat /\ DOMAIN x = 1 .. Len(x)
    BY ProgramIsSeq, SeqFacts
  <1>3. T \subseteq 1 .. Len(x) /\ \A i \in T : i \in DOMAIN x /\ x[i].kind = "assign"
    BY <1>2 DEF Writes
  <1> HIDE DEF T
  <1>4. T # {} => Max(T) \in T
    BY <1>2, <1>3, MaxIsGreatest
  <1>5. T # {} => x[Max(T)].refs[1].index \in Nat
    BY <1>3, <1>4, RequestedQubits
  <1> QED
    BY <1>1, <1>5

-----------------------------------------------------------------------------
(* Each element of f is one of p up to n, and what is before it in f is    *)
(* what is before that one in p and in S; so is all of f.                  *)
Among(f, n) == {f[m] : m \in 1 .. n}
Placed(p, S, n, f) ==
  /\ Among(f, Len(f)) = Among(p, n) \intersect S
  /\ \A i \in 1 .. Len(f) : \E j \in 1 .. n :
       f[i] = p[j] /\ Among(f, i - 1) = Among(p, j - 1) \intersect S

(* One more element of p.                                                  *)
LEMMA PlacedAppend ==
  ASSUME NEW X, NEW p, NEW S, NEW k \in Nat \ {0}, NEW f \in Seq(X), Placed(p, S, k - 1, f),
         p[k] \in X, p[k] \in S
  PROVE  Placed(p, S, k, Longer(f, p[k]))
  <1> DEFINE g == Append(f, p[k])
             l == Len(f)
  <1>1. /\ l \in Nat /\ g \in Seq(X) /\ Len(g) = l + 1
        /\ g[l + 1] = p[k] /\ \A i \in 1 .. l : g[i] = f[i]
    BY AppendProperties
  <1> HIDE DEF g, l
  <1>2. /\ Among(f, l) = Among(p, k - 1) \intersect S
        /\ \A i \in 1 .. l : \E j \in 1 .. k - 1 :
             f[i] = p[j] /\ Among(f, i - 1) = Among(p, j - 1) \intersect S
    BY DEF Placed, l
  <1>3. \A n \in 0 .. l : Among(g, n) = Among(f, n)
    BY <1>1 DEF Among
  <1>4. /\ Among(g, l + 1) = Among(g, l) \union {p[k]}
        /\ Among(p, k) = Among(p, k - 1) \union {p[k]}
    BY <1>1 DEF Among
  <1>5. Among(g, l + 1) = Among(p, k) \intersect S
    BY <1>1, <1>2, <1>3, <1>4
  <1>6. ASSUME NEW i \in 1 .. l + 1
        PROVE  \E j \in 1 .. k :
                 g[i] = p[j] /\ Among(g, i - 1) = Among(p, j - 1) \intersect S
    <2>1. CASE i = l + 1
      <3>1. Among(g, i - 1) = Among(p, k - 1) \intersect S
        BY <1>1, <1>2, <1>3, <2>1
      <3> QED
        BY <1>1, <2>1, <3>1
    <2>2. CASE i # l + 1
      <3>1. i \in 1 .. l /\ i - 1 \in 0 .. l
        BY <1>1, <2>2
      <3>2. PICK j \in 1 .. k - 1 :
              f[i] = p[j] /\ Among(f, i - 1) = Among(p, j - 1) \intersect S
        BY <1>2, <3>1
      <3>3. j \in 1 .. k
        OBVIOUS
      <3> QED
        BY <1>1, <1>3, <3>1, <3>2, <3>3
    <2> QED
      BY <2>1, <2>2
  <1>7. Placed(p, S, k, g)
    BY <1>1, <1>5, <1>6 DEF Placed
  <1> QED
    BY <1>7, Zenon DEF Longer, g

(* An element of p that is not selected.                                   *)
LEMMA PlacedSkip ==
  ASSUME NEW p, NEW S, NEW k \in Nat \ {0}, NEW f, Placed(p, S, k - 1, f), p[k] \notin S
  PROVE  Placed(p, S, k, f)
  <1>1. Among(p, k) = Among(p, k - 1) \union {p[k]}
    BY DEF Among
  <1>2. \A j \in 1 .. k - 1 : j \in 1 .. k
    OBVIOUS
  <1> QED
    BY <1>1, <1>2 DEF Placed

(* Every selection.                                                        *)
LEMMA SelectionPlaced ==
  ASSUME NEW p, IsSeq(p), NEW S
  PROVE  Placed(p, S, Len(p), Selection(p, S))
  <1> DEFINE X == ToSet(p)
             f == Selected(p, S)
             T == {n \in 0 .. Len(p) : Placed(p, S, n, f[n])}
  <1>1. Len(p) \in Nat /\ \A n \in 1 .. Len(p) : p[n] \in X
    BY SeqFacts
  <1>2. f[0] = <<>> /\ \A n \in 1 .. Len(p) :
          f[n] = IF p[n] \in S THEN Append(f[n - 1], p[n]) ELSE f[n - 1]
    BY <1>1, SelectedEquation
  <1>3. \A n \in 0 .. Len(p) : f[n] \in Seq(X \intersect S)
    BY SelectedIsSeq DEF IsSeq
  <1>4. Selection(p, S) = f[Len(p)]
    BY DEF Selection
  <1> HIDE DEF f, X
  <1>5. 0 \in T
    <2>1. Placed(p, S, 0, <<>>)
      BY DEF Placed, Among
    <2>2. 0 \in 0 .. Len(p)
      BY <1>1
    <2> QED
      BY <1>2, <2>1, <2>2
  <1>6. ASSUME NEW k \in 1 .. Len(p), k - 1 \in T PROVE k \in T
    <2>1. k \in Nat \ {0} /\ k \in 0 .. Len(p) /\ k - 1 \in 0 .. Len(p)
      BY <1>1
    <2>2. Placed(p, S, k - 1, f[k - 1])
      BY <1>6
    <2>3. CASE p[k] \in S
      <3>1. f[k - 1] \in Seq(X \intersect S) /\ p[k] \in X \intersect S
        BY <1>1, <1>3, <2>1, <2>3
      <3>2. Placed(p, S, k, Longer(f[k - 1], p[k]))
        BY <2>1, <2>2, <2>3, <3>1, PlacedAppend
      <3>3. f[k] = Append(f[k - 1], p[k])
        BY <1>2, <2>3
      <3>4. Placed(p, S, k, f[k])
        BY <3>2, <3>3, Zenon DEF Longer
      <3> QED
        BY <2>1, <3>4
    <2>4. CASE p[k] \notin S
      <3>1. f[k] = f[k - 1]
        BY <1>2, <2>4
      <3>2. Placed(p, S, k, f[k])
        BY <2>1, <2>2, <2>4, <3>1, PlacedSkip
      <3> QED
        BY <2>1, <3>2
    <2> QED
      BY <2>3, <2>4
  <1> HIDE DEF T
  <1>7. \A k \in 1 .. Len(p) : k - 1 \in T => k \in T
    BY <1>6
  <1>8. Len(p) \in T
    <2>1. \A n \in 0 .. Len(p) : n \in T
      BY <1>1, <1>5, <1>7, UpTo
    <2> QED
      BY <1>1, <2>1
  <1> QED
    BY <1>4, <1>8 DEF T

(* A verdict depends on the registers and measurements before a statement. *)
LEMMA SameVerdict ==
  ASSUME NEW b, NEW c,
         Has(b, {"assign", "measure"}) <=> Has(c, {"assign", "measure"}),
         \A k \in {"bit", "qubit"} :
           /\ Has(b, {k}) <=> Has(c, {k})
           /\ Register(b, k) = Register(c, k) /\ Width(b, k) = Width(c, k),
         NEW s
  PROVE  Verdict(b, s) = Verdict(c, s)
  <1>1. Named(b, s) <=> Named(c, s)
    BY DEF Named
  <1> QED
    BY <1>1 DEF Verdict

(* What is submitted of a program that is not adapted is read like it.     *)
LEMMA OtherIsHeard ==
  ASSUME NEW p, WellFormed(p), NEW a, ~IsNative(p, a), Heard(p)
  PROVE  Heard(AdaptProgram(p, a))
  <1> DEFINE S == {s \in ToSet(p) : s.kind # "include"}
             x == AdaptProgram(p, a)
  <1>1. /\ IsSeq(p) /\ Len(p) \in Nat /\ DOMAIN p = 1 .. Len(p)
        /\ \A j \in 1 .. Len(p) : p[j] \in S <=> p[j].kind # "include"
    BY ProgramIsSeq, SeqFacts
  <1>2. x = Selection(p, S)
    BY DEF AdaptProgram
  <1>3. IsSeq(x) /\ \A K : "include" \notin K => Of(x, K) = Of(p, K)
    BY OtherParts
  <1>4. Placed(p, S, Len(p), x)
    BY <1>1, <1>2, SelectionPlaced
  <1>5. Len(x) \in Nat /\ DOMAIN x = 1 .. Len(x)
    BY <1>3, SeqFacts
  <1> HIDE DEF x, S
  <1>6. ASSUME NEW i \in DOMAIN x PROVE Verdict(Before(x, i), x[i]) = "ok"
    <2> DEFINE b == Before(x, i)
    <2>1. PICK j \in 1 .. Len(p) :
            x[i] = p[j] /\ Among(x, i - 1) = Among(p, j - 1) \intersect S
      BY <1>4, <1>5 DEF Placed
    <2> DEFINE c == Before(p, j)
    <2>2. i \in DOMAIN x /\ j \in DOMAIN p
      BY <1>1, <2>1
    <2>3. ASSUME NEW K, "include" \notin K PROVE Has(b, K) <=> Has(c, K)
      <3>1. Has(b, K) <=> \E y \in Among(x, i - 1) : y.kind \in K
        BY <1>3, <2>2, BeforeHas DEF Among
      <3>2. Has(c, K) <=> \E y \in Among(p, j - 1) : y.kind \in K
        BY <1>1, <2>2, BeforeHas DEF Among
      <3>3. \A y \in Among(p, j - 1) : y.kind \in K => y \in S
        BY <1>1, <2>1, <2>3 DEF Among
      <3> QED
        BY <2>1, <3>1, <3>2, <3>3
    <2>4. ASSUME NEW k \in {"bit", "qubit"}
          PROVE  /\ Has(b, {k}) <=> Has(c, {k})
                 /\ Register(b, k) = Register(c, k) /\ Width(b, k) = Width(c, k)
      <3>1. "include" \notin {k}
        OBVIOUS
      <3>2. Has(b, {k}) <=> Has(c, {k})
        BY <2>3, <3>1
      <3>3. CASE ~Has(c, {k})
        BY <3>2, <3>3 DEF Register, Width
      <3>4. CASE Has(c, {k})
        <4>1. /\ Register(b, k) = Register(x, k) /\ Width(b, k) = Width(x, k)
              /\ Register(c, k) = Register(p, k) /\ Width(c, k) = Width(p, k)
          BY <1>1, <1>3, <2>2, <3>2, <3>4, BeforeRegister
        <4>2. Of(x, {k}) = Of(p, {k})
          BY <1>3, <3>1
        <4>3. Register(x, k) = Register(p, k) /\ Width(x, k) = Width(p, k)
          BY <4>2 DEF Register, Width, Has
        <4> QED
          BY <3>2, <4>1, <4>3
      <3> QED
        BY <3>3, <3>4
    <2>5. Verdict(c, p[j]) = "ok"
      BY <2>2 DEF Heard
    <2>6. "include" \notin {"assign", "measure"}
      OBVIOUS
    <2>7. Has(b, {"assign", "measure"}) <=> Has(c, {"assign", "measure"})
      BY <2>3, <2>6
    <2> HIDE DEF b, c
    <2>8. Verdict(b, p[j]) = Verdict(c, p[j])
      BY <2>4, <2>7, SameVerdict
    <2> QED
      BY <2>1, <2>5, <2>8 DEF b
  <1> QED
    BY <1>6 DEF Heard, x

-----------------------------------------------------------------------------
(* A name that adaptProgram gives to nothing else.                         *)
OwnName(name) == name \notin PragmaWords \union {"q", "$"}

(* The text of p can be projected onto its register once it is submitted:  *)
(* when it is adapted, adaptProgram gives the register's name to nothing   *)
(* else; when it is not, sourceReadout can project the client's own text.  *)
Sound(p, a) ==
  IF IsNative(p, a) THEN OwnName(Register(p, "bit"))
  ELSE SourceReadout(p) \notin {None, Fatal}

(* What is submitted of such a program can be projected.                   *)
LEMMA SoundIsRead ==
  ASSUME NEW list \in ProgramLists, NEW p \in ToSet(list), Terminal(p),
         NEW a, Sound(p, a)
  PROVE  SourceReadout(AdaptProgram(p, a)) \notin {None, Fatal}
  <1> DEFINE x == AdaptProgram(p, a)
             r == SourceReadout(x)
             s == Of(p, {"bit"})[1]
  <1>1. WellFormed(p)
    BY ProgramsAssumption
  <1>2. Heard(x)
    <2>1. CASE IsNative(p, a)
      BY <1>1, <2>1, NativeIsHeard DEF OwnName, Sound
    <2>2. CASE ~IsNative(p, a)
      <3>1. Heard(p)
        BY <1>1, <2>2, ReadoutIsHeard, ProgramIsSeq DEF Sound
      <3> QED
        BY <1>1, <2>2, <3>1, OtherIsHeard
    <2> QED
      BY <2>1, <2>2
  <1>3. WellFormed(x) /\ Width(x, "bit") = Width(p, "bit")
    BY <1>1, AdaptedIsWellFormed, WritesAreNamed
  <1>4. /\ r = [initial |-> Initial(x),
                sites |-> [slot \in 0 .. Width(x, "bit") - 1 |-> SiteOf(x, slot)]]
        /\ r.initial \in Seq({0, 1}) /\ r.initial = Initial(x)
    BY <1>2, <1>3, ReadoutIsRecord, ReadoutHasWidth
  <1>5. s \in ToSet(p) /\ s.kind = "bit" /\ Width(p, "bit") = s.width
    <2> DEFINE b == Of(p, {"bit"})
    <2>1. /\ IsSeq(b) /\ ToSet(b) \subseteq ToSet(p)
          /\ \A t \in ToSet(b) : t.kind \in {"bit"}
      BY <1>1, OfIsSeq, ProgramIsSeq
    <2>2. b # <<>>
      BY DEF Terminal
    <2>3. Width(p, "bit") = b[1].width
      BY <2>2 DEF Width, Has
    <2> HIDE DEF b
    <2>4. b[1] \in ToSet(b)
      BY <2>1, <2>2, JoinedBegins
    <2> QED
      BY <2>1, <2>3, <2>4 DEF b
  <1> HIDE DEF x, r, s
  <1>6. \A slot \in 0 .. s.width - 1 : SiteOf(x, slot) \in Nat \union {None}
    BY <1>3, SiteIsNumber
  <1>7. r \in [initial : Seq({0, 1}), sites : [0 .. s.width - 1 -> Nat \union {None}]]
    BY <1>3, <1>4, <1>5, <1>6
  <1>8. {None, Fatal} \intersect
          [initial : Seq({0, 1}), sites : [0 .. s.width - 1 -> Nat \union {None}]] = {}
    BY <1>5, ReadoutAssumption
  <1> QED
    BY <1>7, <1>8 DEF r, x

(* The bits that are read for a program whose text can be projected.       *)
SoundReadoutsAreRight ==
  \A i \in DOMAIN read :
    /\ read[i] # None /\ results[i].source # None /\ Terminal(programs[i])
    /\ Sound(programs[i], arch)
    => read[i] = RightBits(programs[i], sources[i], results[i])

(* What is read is right for every flat native program whose register has  *)
(* a name of its own, and for every other program whose text can be        *)
(* projected; nothing is assumed of what adaptProgram makes of them.       *)
THEOREM SoundReadouts == Spec => []SoundReadoutsAreRight
  <1>1. SourcesInv /\ ResultsInv /\ ProjectionsAreRight => SoundReadoutsAreRight
    <2> SUFFICES ASSUME SourcesInv, ResultsInv, ProjectionsAreRight,
                        NEW i \in DOMAIN read, read[i] # None, results[i].source # None,
                        Terminal(programs[i]), Sound(programs[i], arch)
                 PROVE  read[i] = RightBits(programs[i], sources[i], results[i])
      BY DEF SoundReadoutsAreRight
    <2>1. i \in DOMAIN sources
      BY DEF ResultsInv
    <2>2. /\ programs \in ProgramLists /\ i \in DOMAIN programs
          /\ sources[i] = AdaptProgram(programs[i], arch)
      BY <2>1 DEF SourcesInv
    <2>3. programs[i] \in ToSet(programs)
      BY <2>2 DEF ToSet
    <2>4. SourceReadout(sources[i]) \notin {None, Fatal}
      BY <2>2, <2>3, SoundIsRead
    <2> QED
      BY <2>4 DEF ProjectionsAreRight
  <1> QED
    BY <1>1, SourcesInvariance, ResultsInvariance, Projections, PTL
=============================================================================
