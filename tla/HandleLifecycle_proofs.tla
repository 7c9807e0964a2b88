----------------------- MODULE HandleLifecycle_proofs -----------------------
(***************************************************************************)
(* Proofs about HandleLifecycle, for any number of calls.                  *)
(*                                                                         *)
(* The argument is one about sequences of steps, in the style of Hoare:    *)
(* what a function holds and what the handle has, a Holding, is led by the *)
(* steps before it to what they have to be in the end.                     *)
(***************************************************************************)
EXTENDS HandleLifecycle, SequenceTheorems, TLAPS

------------------------------------------------------------------------------
(* Steps and what they lead to                                              *)

Gone(s) == s.frees \cup s.always

Holding == [got : SUBSET Resource, kept : SUBSET Resource]

\* Text units are the only storage nobody tests for, and below the line only the
\* list for STOW is given to free().
CodeStep ==
  { s \in [gets : SUBSET Resource, frees : SUBSET Resource, always : SUBSET Resource,
           fails : BOOLEAN, tested : BOOLEAN] :
      /\ Gone(s) \cap Below24 \subseteq {"stowlist"}
      /\ ~s.tested => s.gets = {"unit"} /\ Gone(s) = {} }

\* A step that acquires no DD and opens no dataset.
QuietStep == { s \in CodeStep : "DD" \notin s.gets /\ "OPEN" \notin s.gets }

\* The step s leads from x to y.  It gives back what is there; a text unit is made
\* before the DD it is for, or for that of a closed dataset; and a step may fail only
\* while the handle is what it was, w.
Takes(w, x, s, y) ==
  /\ Gone(s) \subseteq x.got \cup x.kept
  /\ ~s.tested => "DD" \notin x.got /\ (x.kept # {} => "OPEN" \notin x.kept)
  /\ s.fails => x.kept = w
  /\ y.got = (x.got \cup s.gets) \ Gone(s)
  /\ y.kept = x.kept \ Gone(s)

\* The steps lead from x to y.
Leads(w, x, steps, y) ==
  \E h \in [1 .. Len(steps) + 1 -> Holding] :
    /\ h[1] = x
    /\ h[Len(steps) + 1] = y
    /\ \A k \in 1 .. Len(steps) : Takes(w, h[k], steps[k], h[k + 1])

LEMMA LeadsEmpty ==
  ASSUME NEW w, NEW x, NEW y, Leads(w, x, <<>>, y)
  PROVE  x = y
BY DEF Leads

\* What is left to do after the first step leads on from what that step leaves.
LEMMA LeadsTail ==
  ASSUME NEW w, NEW x, NEW y, NEW T, NEW steps \in Seq(T), steps # <<>>, Leads(w, x, steps, y)
  PROVE  /\ Head(steps) \in T /\ Tail(steps) \in Seq(T)
         /\ \E z \in Holding : Takes(w, x, Head(steps), z) /\ Leads(w, z, Tail(steps), y)
<1>1. PICK n \in Nat : n = Len(steps) - 1 /\ Len(steps) = n + 1
  BY EmptySeq
<1>2. PICK h \in [1 .. n + 2 -> Holding] :
        h[1] = x /\ h[n + 2] = y /\ \A k \in 1 .. n + 1 : Takes(w, h[k], steps[k], h[k + 1])
  <2>1. n + 1 + 1 = n + 2
    BY <1>1
  <2>2. QED
    BY <1>1, <2>1 DEF Leads
<1>3. Len(Tail(steps)) = n /\ \A k \in 1 .. n : Tail(steps)[k] = steps[k + 1]
  BY <1>1, HeadTailProperties
<1>4. Head(steps) = steps[1] /\ Head(steps) \in T /\ Tail(steps) \in Seq(T)
  BY <1>1, HeadTailProperties
<1> DEFINE g == [k \in 1 .. n + 1 |-> h[k + 1]]
<1>5. g \in [1 .. n + 1 -> Holding] /\ g[1] = h[2] /\ g[n + 1] = y
  <2>1. \A k \in 1 .. n + 1 : k + 1 \in 1 .. n + 2
    OBVIOUS
  <2>2. n + 1 + 1 = n + 2 /\ 1 + 1 = 2 /\ 1 \in 1 .. n + 1 /\ n + 1 \in 1 .. n + 1
    OBVIOUS
  <2>3. QED
    BY <1>2, <2>1, <2>2
<1>6. \A k \in 1 .. n : Takes(w, g[k], Tail(steps)[k], g[k + 1])
  <2> SUFFICES ASSUME NEW k \in 1 .. n PROVE Takes(w, g[k], Tail(steps)[k], g[k + 1])
    OBVIOUS
  <2>1. PICK m \in 1 .. n + 1 : m = k + 1
    OBVIOUS
  <2>2. g[k] = h[m] /\ g[k + 1] = h[m + 1]
    BY <2>1
  <2>3. QED
    BY <1>2, <1>3, <2>1, <2>2
<1>7. Takes(w, x, Head(steps), h[2]) /\ h[2] \in Holding
  <2>1. 1 \in 1 .. n + 1 /\ 2 \in 1 .. n + 2 /\ 1 + 1 = 2
    OBVIOUS
  <2>2. QED
    BY <1>2, <1>4, <2>1
<1> HIDE DEF g
<1>8. Leads(w, h[2], Tail(steps), y)
  BY <1>3, <1>5, <1>6 DEF Leads
<1>9. QED
  BY <1>4, <1>7, <1>8

\* Steps that follow steps.
LEMMA LeadsConcat ==
  ASSUME NEW w, NEW x, NEW y, NEW z, NEW T, NEW a \in Seq(T), NEW b \in Seq(T),
         Leads(w, x, a, y), Leads(w, y, b, z)
  PROVE  a \o b \in Seq(T) /\ Leads(w, x, a \o b, z)
<1>1. PICK n \in Nat, m \in Nat : n = Len(a) /\ m = Len(b)
  OBVIOUS
<1>2. PICK h \in [1 .. n + 1 -> Holding] :
        h[1] = x /\ h[n + 1] = y /\ \A k \in 1 .. n : Takes(w, h[k], a[k], h[k + 1])
  BY <1>1 DEF Leads
<1>3. PICK g \in [1 .. m + 1 -> Holding] :
        g[1] = y /\ g[m + 1] = z /\ \A k \in 1 .. m : Takes(w, g[k], b[k], g[k + 1])
  BY <1>1 DEF Leads
<1>4. /\ a \o b \in Seq(T)
      /\ Len(a \o b) = n + m
      /\ \A k \in 1 .. n + m : (a \o b)[k] = IF k <= n THEN a[k] ELSE b[k - n]
  BY <1>1, ConcatProperties
<1> DEFINE f == [k \in 1 .. n + m + 1 |-> IF k <= n THEN h[k] ELSE g[k - n]]
<1>5. f \in [1 .. n + m + 1 -> Holding]
  <2>1. \A k \in 1 .. n + m + 1 : IF k <= n THEN k \in 1 .. n + 1 ELSE k - n \in 1 .. m + 1
    OBVIOUS
  <2>2. QED
    BY <1>2, <1>3, <2>1
<1>6. f[1] = x /\ f[n + m + 1] = z
  <2>1. 1 \in 1 .. n + m + 1 /\ n + m + 1 \in 1 .. n + m + 1 /\ ~ (n + m + 1 <= n)
        /\ n + m + 1 - n = m + 1
    OBVIOUS
  <2>2. n = 0 => 1 - n = 1 /\ n + 1 = 1 /\ ~ (1 <= n)
    OBVIOUS
  <2>3. n # 0 => 1 <= n
    OBVIOUS
  <2>4. QED
    BY <1>2, <1>3, <2>1, <2>2, <2>3
<1>7. \A k \in 1 .. n + m : Takes(w, f[k], (a \o b)[k], f[k + 1])
  <2> SUFFICES ASSUME NEW k \in 1 .. n + m PROVE Takes(w, f[k], (a \o b)[k], f[k + 1])
    OBVIOUS
  <2>0. k \in 1 .. n + m + 1 /\ k + 1 \in 1 .. n + m + 1
    OBVIOUS
  <2>1. CASE k <= n
    <3>1. k \in 1 .. n /\ f[k] = h[k] /\ (a \o b)[k] = a[k]
      BY <1>4, <2>0, <2>1
    <3>2. f[k + 1] = h[k + 1]
      <4>1. CASE k = n
        <5>1. ~ (k + 1 <= n) /\ k + 1 - n = 1
          BY <4>1
        <5>2. QED
          BY <1>2, <1>3, <2>0, <4>1, <5>1
      <4>2. CASE k # n
        <5>1. k + 1 <= n
          BY <2>1, <4>2
        <5>2. QED
          BY <2>0, <5>1
      <4>3. QED
        BY <4>1, <4>2
    <3>3. QED
      BY <1>2, <3>1, <3>2
  <2>2. CASE ~ (k <= n)
    <3>1. PICK j \in 1 .. m : j = k - n /\ j + 1 = k + 1 - n /\ ~ (k + 1 <= n)
      BY <2>2
    <3>2. f[k] = g[j]
      BY <2>0, <2>2, <3>1
    <3>3. f[k + 1] = g[j + 1]
      BY <2>0, <3>1
    <3>4. (a \o b)[k] = b[j]
      BY <1>4, <2>2, <3>1
    <3>5. QED
      BY <1>3, <3>2, <3>3, <3>4
  <2>3. QED
    BY <2>1, <2>2
<1> HIDE DEF f
<1>8. QED
  BY <1>4, <1>5, <1>6, <1>7 DEF Leads

LEMMA LeadsOne ==
  ASSUME NEW w, NEW x \in Holding, NEW y \in Holding, NEW T, NEW s \in T, Takes(w, x, s, y)
  PROVE  <<s>> \in Seq(T) /\ Leads(w, x, <<s>>, y)
<1> DEFINE h == <<x, y>>
<1>1. h \in [1 .. 2 -> Holding] /\ h[1] = x /\ h[2] = y
  OBVIOUS
<1>2. Len(<<s>>) = 1 /\ <<s>>[1] = s /\ 1 + 1 = 2
  OBVIOUS
<1>3. \A k \in 1 .. 1 : k = 1
  OBVIOUS
<1>4. QED
  BY <1>1, <1>2, <1>3 DEF Leads

\* Up to five steps one after the other.
LEMMA LeadsTwo ==
  ASSUME NEW w, NEW x0 \in Holding, NEW x1 \in Holding, NEW x2 \in Holding,
         NEW T, NEW s1 \in T, NEW s2 \in T,
         Takes(w, x0, s1, x1), Takes(w, x1, s2, x2)
  PROVE  <<s1, s2>> \in Seq(T) /\ Leads(w, x0, <<s1, s2>>, x2)
<1> DEFINE h == <<x0, x1, x2>>
<1> DEFINE t == <<s1, s2>>
<1>1. h \in [1 .. 3 -> Holding] /\ h[1] = x0 /\ h[2] = x1 /\ h[3] = x2
  OBVIOUS
<1>2. t \in Seq(T) /\ Len(t) = 2 /\ t[1] = s1 /\ t[2] = s2
  OBVIOUS
<1>3. /\ \A k \in 1 .. 2 : k = 1 \/ k = 2
      /\ 1 + 1 = 2 /\ 2 + 1 = 3
  OBVIOUS
<1> HIDE DEF h, t
<1>4. Leads(w, x0, t, x2)
  BY <1>1, <1>2, <1>3 DEF Leads
<1>5. QED
  BY <1>2, <1>4 DEF t

LEMMA LeadsThree ==
  ASSUME NEW w, NEW x0 \in Holding, NEW x1 \in Holding, NEW x2 \in Holding, NEW x3 \in Holding,
         NEW T, NEW s1 \in T, NEW s2 \in T, NEW s3 \in T,
         Takes(w, x0, s1, x1), Takes(w, x1, s2, x2), Takes(w, x2, s3, x3)
  PROVE  <<s1, s2, s3>> \in Seq(T) /\ Leads(w, x0, <<s1, s2, s3>>, x3)
<1> DEFINE h == <<x0, x1, x2, x3>>
<1> DEFINE t == <<s1, s2, s3>>
<1>1. h \in [1 .. 4 -> Holding] /\ h[1] = x0 /\ h[2] = x1 /\ h[3] = x2 /\ h[4] = x3
  OBVIOUS
<1>2. t \in Seq(T) /\ Len(t) = 3 /\ t[1] = s1 /\ t[2] = s2 /\ t[3] = s3
  OBVIOUS
<1>3. /\ \A k \in 1 .. 3 : k = 1 \/ k = 2 \/ k = 3
      /\ 1 + 1 = 2 /\ 2 + 1 = 3 /\ 3 + 1 = 4
  OBVIOUS
<1> HIDE DEF h, t
<1>4. Leads(w, x0, t, x3)
  BY <1>1, <1>2, <1>3 DEF Leads
<1>5. QED
  BY <1>2, <1>4 DEF t

LEMMA LeadsFour ==
  ASSUME NEW w, NEW x0 \in Holding, NEW x1 \in Holding, NEW x2 \in Holding, NEW x3 \in Holding,
         NEW x4 \in Holding,
         NEW T, NEW s1 \in T, NEW s2 \in T, NEW s3 \in T, NEW s4 \in T,
         Takes(w, x0, s1, x1), Takes(w, x1, s2, x2), Takes(w, x2, s3, x3), Takes(w, x3, s4, x4)
  PROVE  <<s1, s2, s3, s4>> \in Seq(T) /\ Leads(w, x0, <<s1, s2, s3, s4>>, x4)
<1> DEFINE h == <<x0, x1, x2, x3, x4>>
<1> DEFINE t == <<s1, s2, s3, s4>>
<1>1. h \in [1 .. 5 -> Holding] /\ h[1] = x0 /\ h[2] = x1 /\ h[3] = x2 /\ h[4] = x3 /\ h[5] = x4
  OBVIOUS
<1>2. t \in Seq(T) /\ Len(t) = 4 /\ t[1] = s1 /\ t[2] = s2 /\ t[3] = s3 /\ t[4] = s4
  OBVIOUS
<1>3. /\ \A k \in 1 .. 4 : k = 1 \/ k = 2 \/ k = 3 \/ k = 4
      /\ 1 + 1 = 2 /\ 2 + 1 = 3 /\ 3 + 1 = 4 /\ 4 + 1 = 5
  OBVIOUS
<1> HIDE DEF h, t
<1>4. Leads(w, x0, t, x4)
  BY <1>1, <1>2, <1>3 DEF Leads
<1>5. QED
  BY <1>2, <1>4 DEF t

LEMMA LeadsFive ==
  ASSUME NEW w, NEW x0 \in Holding, NEW x1 \in Holding, NEW x2 \in Holding, NEW x3 \in Holding,
         NEW x4 \in Holding, NEW x5 \in Holding,
         NEW T, NEW s1 \in T, NEW s2 \in T, NEW s3 \in T, NEW s4 \in T,
         NEW s5 \in T,
         Takes(w, x0, s1, x1), Takes(w, x1, s2, x2), Takes(w, x2, s3, x3), Takes(w, x3, s4, x4),
         Takes(w, x4, s5, x5)
  PROVE  <<s1, s2, s3, s4, s5>> \in Seq(T) /\ Leads(w, x0, <<s1, s2, s3, s4, s5>>, x5)
<1> DEFINE h == <<x0, x1, x2, x3, x4, x5>>
<1> DEFINE t == <<s1, s2, s3, s4, s5>>
<1>1. h \in [1 .. 6 -> Holding] /\ h[1] = x0 /\ h[2] = x1 /\ h[3] = x2 /\ h[4] = x3 /\ h[5] = x4
      /\ h[6] = x5
  OBVIOUS
<1>2. t \in Seq(T) /\ Len(t) = 5 /\ t[1] = s1 /\ t[2] = s2 /\ t[3] = s3 /\ t[4] = s4
      /\ t[5] = s5
  OBVIOUS
<1>3. /\ \A k \in 1 .. 5 : k = 1 \/ k = 2 \/ k = 3 \/ k = 4 \/ k = 5
      /\ 1 + 1 = 2 /\ 2 + 1 = 3 /\ 3 + 1 = 4 /\ 4 + 1 = 5 /\ 5 + 1 = 6
  OBVIOUS
<1> HIDE DEF h, t
<1>4. Leads(w, x0, t, x5)
  BY <1>1, <1>2, <1>3 DEF Leads
<1>5. QED
  BY <1>2, <1>4 DEF t

------------------------------------------------------------------------------
(* The kinds of steps                                                       *)

\* The fields of a step.
StepIs(s, gets, frees, always, fails, tested) ==
  /\ s \in [gets : SUBSET Resource, frees : SUBSET Resource, always : SUBSET Resource,
           fails : BOOLEAN, tested : BOOLEAN]
  /\ s.gets = gets /\ s.frees = frees /\ s.always = always
  /\ s.fails = fails /\ s.tested = tested

LEMMA Kinds ==
  /\ \A r \in Resource : StepIs(Get(r), {r}, {}, {}, TRUE, TRUE)
  /\ \A r, q \in Resource : StepIs(GetBoth(r, q), {r, q}, {}, {}, TRUE, TRUE)
  /\ \A r \in Resource : StepIs(GetBlindly(r), {r}, {}, {}, TRUE, FALSE)
  /\ StepIs(Test, {}, {}, {}, TRUE, TRUE)
  /\ \A R \in SUBSET Resource : StepIs(Free(R), {}, {}, R, FALSE, TRUE)
  /\ \A R, F \in SUBSET Resource : StepIs(Service(R, F), R, F, {}, TRUE, TRUE)
  /\ \A R \in SUBSET Resource : StepIs(ServiceThenFree(R), {}, {}, R, TRUE, TRUE)
<1>1. PICK T : T = SUBSET Resource /\ {} \in T
  OBVIOUS
<1> DEFINE Fields == [gets : T, frees : T, always : T, fails : BOOLEAN, tested : BOOLEAN]
<1>2. /\ NoStep \in Fields /\ NoStep.gets = {} /\ NoStep.frees = {} /\ NoStep.always = {}
      /\ NoStep.fails = FALSE /\ NoStep.tested = TRUE
  BY <1>1 DEF NoStep
<1>3. \A A \in T : LET s == [NoStep EXCEPT !.gets = A, !.fails = TRUE] IN
        s \in Fields /\ s.gets = A /\ s.frees = {} /\ s.always = {} /\ s.fails = TRUE
        /\ s.tested = TRUE
  BY <1>1, <1>2
<1>4. ASSUME NEW r \in Resource
      PROVE  /\ Get(r) \in Fields /\ Get(r).gets = {r} /\ Get(r).frees = {}
             /\ Get(r).always = {} /\ Get(r).fails = TRUE /\ Get(r).tested = TRUE
  BY <1>1, <1>3 DEF Get
<1>5. ASSUME NEW r \in Resource PROVE StepIs(Get(r), {r}, {}, {}, TRUE, TRUE)
  BY <1>1, <1>4 DEF StepIs
<1>6. ASSUME NEW r \in Resource, NEW q \in Resource
      PROVE  StepIs(GetBoth(r, q), {r, q}, {}, {}, TRUE, TRUE)
  BY <1>1, <1>3 DEF GetBoth, StepIs
<1>7. ASSUME NEW r \in Resource PROVE StepIs(GetBlindly(r), {r}, {}, {}, TRUE, FALSE)
  <2>1. PICK t \in Fields : t = Get(r) /\ t.gets = {r} /\ t.frees = {} /\ t.always = {} /\ t.fails = TRUE
    BY <1>4
  <2>2. GetBlindly(r) = [t EXCEPT !.tested = FALSE]
    BY <2>1 DEF GetBlindly
  <2>3. QED
    BY <1>1, <2>1, <2>2 DEF StepIs
<1>8. StepIs(Test, {}, {}, {}, TRUE, TRUE)
  BY <1>1, <1>2 DEF Test, StepIs
<1>9. ASSUME NEW R \in SUBSET Resource PROVE StepIs(Free(R), {}, {}, R, FALSE, TRUE)
  BY <1>1, <1>2 DEF Free, StepIs
<1>10. ASSUME NEW R \in SUBSET Resource, NEW F \in SUBSET Resource
       PROVE  StepIs(Service(R, F), R, F, {}, TRUE, TRUE)
  BY <1>1, <1>2 DEF Service, StepIs
<1>11. ASSUME NEW R \in SUBSET Resource PROVE StepIs(ServiceThenFree(R), {}, {}, R, TRUE, TRUE)
  BY <1>1, <1>2 DEF ServiceThenFree, StepIs
<1>12. QED
  BY <1>5, <1>6, <1>7, <1>8, <1>9, <1>10, <1>11

\* What a step has to meet, in terms of its fields.
LEMMA StepTakes ==
  ASSUME NEW w, NEW x \in Holding, NEW y \in Holding, NEW s,
         NEW A, NEW B, NEW C, NEW b, NEW c, StepIs(s, A, B, C, b, c),
         NEW G, G = B \cup C,
         G \cap Below24 \subseteq {"stowlist"},
         c = FALSE => A = {"unit"} /\ G = {} /\ "DD" \notin x.got
                      /\ (x.kept # {} => "OPEN" \notin x.kept),
         G \subseteq x.got \cup x.kept,
         b = TRUE => x.kept = w,
         y.got = (x.got \cup A) \ G,
         y.kept = x.kept \ G
  PROVE  s \in CodeStep /\ Takes(w, x, s, y)
<1>1. Gone(s) = G
  BY DEF Gone, StepIs
<1>2. s \in CodeStep
  BY <1>1 DEF CodeStep, StepIs
<1>3. s.fails => x.kept = w
  BY DEF StepIs
<1>4. Gone(s) \subseteq x.got \cup x.kept
  BY <1>1
<1>5. ~s.tested => "DD" \notin x.got /\ (x.kept # {} => "OPEN" \notin x.kept)
  BY DEF StepIs
<1>6. y.got = (x.got \cup s.gets) \ Gone(s) /\ y.kept = x.kept \ Gone(s)
  BY <1>1 DEF StepIs
<1>7. QED
  BY <1>2, <1>3, <1>4, <1>5, <1>6 DEF Takes

LEMMA StepQuiet ==
  ASSUME NEW s, NEW A, NEW B, NEW C, NEW b, NEW c, StepIs(s, A, B, C, b, c), s \in CodeStep,
         "DD" \notin A, "OPEN" \notin A
  PROVE  s \in QuietStep
BY DEF QuietStep, StepIs

\* A function that holds g, with k for its handle.
Has(g, k) == [got |-> g, kept |-> k]

LEMMA HasIs ==
  ASSUME NEW g \in SUBSET Resource, NEW k \in SUBSET Resource
  PROVE  /\ Has(g, k) \in Holding /\ Has(g, k).got = g /\ Has(g, k).kept = k
BY DEF Has, Holding

LEMMA Gets ==
  ASSUME NEW g \in SUBSET Resource, NEW k \in SUBSET Resource,
         NEW r \in Resource
  PROVE  /\ r \notin {"DD", "OPEN"} => Get(r) \in QuietStep
         /\ Get(r) \in CodeStep /\ Takes(k, Has(g, k), Get(r), Has(g \cup {r}, k))
<1>1. StepIs(Get(r), {r}, {}, {}, TRUE, TRUE)
  BY Kinds
<1>2. g \cup {r} \in SUBSET Resource
  OBVIOUS
<1>3. Has(g, k) \in Holding /\ Has(g, k).got = g /\ Has(g, k).kept = k
  BY HasIs
<1>4. Has(g \cup {r}, k) \in Holding /\ Has(g \cup {r}, k).got = g \cup {r}
      /\ Has(g \cup {r}, k).kept = k
  BY <1>2, HasIs
<1>5. {} = {} \cup {} /\ g \cup {r} = (g \cup {r}) \ {} /\ k = k \ {}
  OBVIOUS
<1>6. {} \cap Below24 \subseteq {"stowlist"} /\ {} \subseteq g \cup k
  OBVIOUS
<1>7. Get(r) \in CodeStep /\ Takes(k, Has(g, k), Get(r), Has(g \cup {r}, k))
  BY <1>1, <1>3, <1>4, <1>5, <1>6, StepTakes
<1>8. QED
  BY <1>1, <1>7, StepQuiet

LEMMA GetsBoth ==
  ASSUME NEW g \in SUBSET Resource, NEW k \in SUBSET Resource,
         NEW r \in Resource, NEW q \in Resource
  PROVE  /\ r \notin {"DD", "OPEN"} /\ q \notin {"DD", "OPEN"} => GetBoth(r, q) \in QuietStep
         /\ Takes(k, Has(g, k), GetBoth(r, q), Has(g \cup {r, q}, k))
<1>1. StepIs(GetBoth(r, q), {r, q}, {}, {}, TRUE, TRUE)
  BY Kinds
<1>2. g \cup {r, q} \in SUBSET Resource
  OBVIOUS
<1>3. Has(g, k) \in Holding /\ Has(g, k).got = g /\ Has(g, k).kept = k
  BY HasIs
<1>4. Has(g \cup {r, q}, k) \in Holding /\ Has(g \cup {r, q}, k).got = g \cup {r, q}
      /\ Has(g \cup {r, q}, k).kept = k
  BY <1>2, HasIs
<1>5. {} = {} \cup {} /\ g \cup {r, q} = (g \cup {r, q}) \ {} /\ k = k \ {}
  OBVIOUS
<1>6. {} \cap Below24 \subseteq {"stowlist"} /\ {} \subseteq g \cup k
  OBVIOUS
<1>7. GetBoth(r, q) \in CodeStep /\ Takes(k, Has(g, k), GetBoth(r, q), Has(g \cup {r, q}, k))
  BY <1>1, <1>3, <1>4, <1>5, <1>6, StepTakes
<1>8. QED
  BY <1>1, <1>7, StepQuiet

LEMMA GetsBlindly ==
  ASSUME NEW g \in SUBSET Resource, NEW k \in SUBSET Resource,
         "DD" \notin g, k # {} => "OPEN" \notin k
  PROVE  /\ GetBlindly("unit") \in QuietStep
         /\ Takes(k, Has(g, k), GetBlindly("unit"), Has(g \cup {"unit"}, k))
<1>0. "unit" \in Resource
  BY DEF Resource, S99Storage
<1>1. StepIs(GetBlindly("unit"), {"unit"}, {}, {}, TRUE, FALSE)
  BY <1>0, Kinds
<1>2. g \cup {"unit"} \in SUBSET Resource
  BY <1>0
<1>3. Has(g, k) \in Holding /\ Has(g, k).got = g /\ Has(g, k).kept = k
  BY HasIs
<1>4. Has(g \cup {"unit"}, k) \in Holding /\ Has(g \cup {"unit"}, k).got = g \cup {"unit"}
      /\ Has(g \cup {"unit"}, k).kept = k
  BY <1>2, HasIs
<1>5. {} = {} \cup {} /\ g \cup {"unit"} = (g \cup {"unit"}) \ {} /\ k = k \ {}
  OBVIOUS
<1>6. {} \cap Below24 \subseteq {"stowlist"} /\ {} \subseteq g \cup k
  OBVIOUS
<1>7. GetBlindly("unit") \in CodeStep
      /\ Takes(k, Has(g, k), GetBlindly("unit"), Has(g \cup {"unit"}, k))
  BY <1>1, <1>3, <1>4, <1>0, <1>5, <1>6, StepTakes
<1>8. QED
  BY <1>1, <1>7, StepQuiet

LEMMA Tests ==
  ASSUME NEW g \in SUBSET Resource, NEW k \in SUBSET Resource
  PROVE  Test \in QuietStep /\ Takes(k, Has(g, k), Test, Has(g, k))
<1>1. StepIs(Test, {}, {}, {}, TRUE, TRUE)
  BY Kinds
<1>3. Has(g, k) \in Holding /\ Has(g, k).got = g /\ Has(g, k).kept = k
  BY HasIs
<1>4. Has(g, k) \in Holding /\ Has(g, k).got = g /\ Has(g, k).kept = k
  BY HasIs
<1>5. {} = {} \cup {} /\ g = (g \cup {}) \ {} /\ k = k \ {}
  OBVIOUS
<1>6. {} \cap Below24 \subseteq {"stowlist"} /\ {} \subseteq g \cup k
  OBVIOUS
<1>7. Test \in CodeStep /\ Takes(k, Has(g, k), Test, Has(g, k))
  BY <1>1, <1>3, <1>4, <1>5, <1>6, StepTakes
<1>8. QED
  BY <1>1, <1>7, StepQuiet

LEMMA Frees ==
  ASSUME NEW w, NEW g \in SUBSET Resource, NEW k \in SUBSET Resource,
         NEW R \in SUBSET Resource, R \subseteq g \cup k, R \cap Below24 \subseteq {"stowlist"}
  PROVE  Free(R) \in QuietStep /\ Takes(w, Has(g, k), Free(R), Has(g \ R, k \ R))
<1>1. StepIs(Free(R), {}, {}, R, FALSE, TRUE)
  BY Kinds
<1>2. g \ R \in SUBSET Resource /\ k \ R \in SUBSET Resource
  OBVIOUS
<1>3. Has(g, k) \in Holding /\ Has(g, k).got = g /\ Has(g, k).kept = k 
  BY HasIs
<1>4. Has(g \ R, k \ R) \in Holding /\ Has(g \ R, k \ R).got = g \ R
      /\ Has(g \ R, k \ R).kept = k \ R
  BY <1>2, HasIs
<1>5. R = {} \cup R /\ g \ R = (g \cup {}) \ R /\ k \ R = k \ R
  OBVIOUS
<1>7. Free(R) \in CodeStep /\ Takes(w, Has(g, k), Free(R), Has(g \ R, k \ R))
  BY <1>1, <1>3, <1>4, <1>5, StepTakes
<1>8. QED
  BY <1>1, <1>7, StepQuiet

LEMMA Serves ==
  ASSUME NEW g \in SUBSET Resource, NEW k \in SUBSET Resource,
         NEW R \in SUBSET Resource, NEW F \in SUBSET Resource,
         F \subseteq g \cup k, F \cap Below24 \subseteq {"stowlist"}
  PROVE  /\ Service(R, F) \in CodeStep
         /\ "DD" \notin R /\ "OPEN" \notin R => Service(R, F) \in QuietStep
         /\ Takes(k, Has(g, k), Service(R, F), Has((g \cup R) \ F, k \ F))
<1>1. StepIs(Service(R, F), R, F, {}, TRUE, TRUE)
  BY Kinds
<1>2. (g \cup R) \ F \in SUBSET Resource /\ k \ F \in SUBSET Resource
  OBVIOUS
<1>3. Has(g, k) \in Holding /\ Has(g, k).got = g /\ Has(g, k).kept = k
  BY HasIs
<1>4. Has((g \cup R) \ F, k \ F) \in Holding /\ Has((g \cup R) \ F, k \ F).got = (g \cup R) \ F
      /\ Has((g \cup R) \ F, k \ F).kept = k \ F
  BY <1>2, HasIs
<1>5. F = F \cup {} /\ (g \cup R) \ F = (g \cup R) \ F /\ k \ F = k \ F
  OBVIOUS
<1>7. Service(R, F) \in CodeStep /\ Takes(k, Has(g, k), Service(R, F), Has((g \cup R) \ F, k \ F))
  BY <1>1, <1>3, <1>4, <1>5, StepTakes
<1>8. QED
  BY <1>1, <1>7, StepQuiet

LEMMA ServesAndFrees ==
  ASSUME NEW g \in SUBSET Resource, NEW k \in SUBSET Resource,
         NEW R \in SUBSET Resource, R \subseteq g \cup k, R \cap Below24 \subseteq {"stowlist"}
  PROVE  /\ ServiceThenFree(R) \in QuietStep
         /\ Takes(k, Has(g, k), ServiceThenFree(R), Has(g \ R, k \ R))
<1>1. StepIs(ServiceThenFree(R), {}, {}, R, TRUE, TRUE)
  BY Kinds
<1>2. g \ R \in SUBSET Resource /\ k \ R \in SUBSET Resource
  OBVIOUS
<1>3. Has(g, k) \in Holding /\ Has(g, k).got = g /\ Has(g, k).kept = k
  BY HasIs
<1>4. Has(g \ R, k \ R) \in Holding /\ Has(g \ R, k \ R).got = g \ R
      /\ Has(g \ R, k \ R).kept = k \ R
  BY <1>2, HasIs
<1>5. R = {} \cup R /\ g \ R = (g \cup {}) \ R /\ k \ R = k \ R
  OBVIOUS
<1>7. ServiceThenFree(R) \in CodeStep /\ Takes(k, Has(g, k), ServiceThenFree(R), Has(g \ R, k \ R))
  BY <1>1, <1>3, <1>4, <1>5, StepTakes
<1>8. QED
  BY <1>1, <1>7, StepQuiet

------------------------------------------------------------------------------
(* What the functions do when nothing fails                                 *)

LEMMA Resources ==
  /\ {"bh", "DD", "dcb", "dcbe", "opencb", "OPEN", "decb", "block", "textunit", "rbx", "parms",
      "unit", "desp", "desl", "desl_name", "desb", "stowlist", "stowlistadd", "stowlist_r",
      "closecb", "findcb", "rname", "qname"} = Resource
  /\ Complete \subseteq Resource /\ S99Storage \subseteq Resource /\ DespStorage \subseteq Resource
  /\ S99Storage \cap Below24 = {} /\ DespStorage \cap Below24 = {}
  /\ S99Storage \cap Complete = {} /\ DespStorage \cap Complete = {}
  /\ "closecb" \notin S99Storage /\ "DD" \in Complete /\ "OPEN" \in Complete
BY DEF Resource, Complete, S99Storage, DespStorage, Below24

LEMMA QuietIsCode == QuietStep \subseteq CodeStep
BY DEF QuietStep

OpenSteps == <<Get("opencb"), Service({"OPEN"}, {}), Test, Get("decb"), Get("block")>>

TwoStows == <<Service({}, {}), Service({}, {})>>

LEMMA S99InitLeads ==
  ASSUME NEW g \in SUBSET Resource, NEW k \in SUBSET Resource,
         "DD" \notin g, k # {} => "OPEN" \notin k
  PROVE  S99Init \in Seq(QuietStep) /\ Leads(k, Has(g, k), S99Init, Has(g \cup S99Storage, k))
<1> DEFINE g0 == g
           k0 == k
           g1 == g0 \cup {"textunit"}
           g2 == g1 \cup {"rbx"}
           g3 == g2 \cup {"parms"}
           g4 == g3 \cup {"unit"}
<1>1. g0 \in SUBSET Resource /\ g1 \in SUBSET Resource /\ g2 \in SUBSET Resource
      /\ g3 \in SUBSET Resource /\ g4 \in SUBSET Resource /\ k0 \in SUBSET Resource
  BY Resources
<1>2. g4 = g \cup S99Storage /\ k0 = k
  BY DEF S99Storage
<1>3. "textunit" \in Resource /\ "textunit" \notin {"DD", "OPEN"}
  BY Resources
<1>4. "rbx" \in Resource /\ "rbx" \notin {"DD", "OPEN"}
  BY Resources
<1>5. "parms" \in Resource /\ "parms" \notin {"DD", "OPEN"}
  BY Resources
<1>6. "DD" \notin g3 /\ (k0 # {} => "OPEN" \notin k0)
  BY Resources DEF S99Storage, Below24
<1> HIDE DEF g0, g1, g2, g3, g4, k0
<1>7. Get("textunit") \in QuietStep /\ Takes(k0, Has(g0, k0), Get("textunit"), Has(g1, k0))
  BY <1>1, <1>3, Gets DEF g1
<1>8. Get("rbx") \in QuietStep /\ Takes(k0, Has(g1, k0), Get("rbx"), Has(g2, k0))
  BY <1>1, <1>4, Gets DEF g2
<1>9. Get("parms") \in QuietStep /\ Takes(k0, Has(g2, k0), Get("parms"), Has(g3, k0))
  BY <1>1, <1>5, Gets DEF g3
<1>10. GetBlindly("unit") \in QuietStep /\ Takes(k0, Has(g3, k0), GetBlindly("unit"), Has(g4, k0))
  BY <1>1, <1>6, GetsBlindly DEF g4
<1>11. Has(g0, k0) \in Holding /\ Has(g1, k0) \in Holding /\ Has(g2, k0) \in Holding
      /\ Has(g3, k0) \in Holding /\ Has(g4, k0) \in Holding
  BY <1>1, HasIs
<1>12. S99Init \in Seq(QuietStep) /\ Leads(k0, Has(g0, k0), S99Init, Has(g4, k0))
  BY <1>7, <1>8, <1>9, <1>10, <1>11, LeadsFour DEF S99Init
<1>13. QED
  BY <1>2, <1>12 DEF g0, k0

LEMMA InitDespLeads ==
  ASSUME NEW g \in SUBSET Resource, NEW k \in SUBSET Resource
  PROVE  InitDesp \in Seq(QuietStep) /\ Leads(k, Has(g, k), InitDesp, Has(g \cup DespStorage, k))
<1> DEFINE g0 == g
           k0 == k
           g1 == g0 \cup {"desp"}
           g2 == g1 \cup {"desl"}
           g3 == g2 \cup {"desl_name"}
           g4 == g3 \cup {"desb"}
<1>1. g0 \in SUBSET Resource /\ g1 \in SUBSET Resource /\ g2 \in SUBSET Resource
      /\ g3 \in SUBSET Resource /\ g4 \in SUBSET Resource /\ k0 \in SUBSET Resource
  BY Resources
<1>2. g4 = g \cup DespStorage /\ k0 = k
  BY DEF DespStorage
<1>3. "desp" \in Resource /\ "desp" \notin {"DD", "OPEN"}
  BY Resources
<1>4. "desl" \in Resource /\ "desl" \notin {"DD", "OPEN"}
  BY Resources
<1>5. "desl_name" \in Resource /\ "desl_name" \notin {"DD", "OPEN"}
  BY Resources
<1>6. "desb" \in Resource /\ "desb" \notin {"DD", "OPEN"}
  BY Resources
<1> HIDE DEF g0, g1, g2, g3, g4, k0
<1>7. Get("desp") \in QuietStep /\ Takes(k0, Has(g0, k0), Get("desp"), Has(g1, k0))
  BY <1>1, <1>3, Gets DEF g1
<1>8. Get("desl") \in QuietStep /\ Takes(k0, Has(g1, k0), Get("desl"), Has(g2, k0))
  BY <1>1, <1>4, Gets DEF g2
<1>9. Get("desl_name") \in QuietStep /\ Takes(k0, Has(g2, k0), Get("desl_name"), Has(g3, k0))
  BY <1>1, <1>5, Gets DEF g3
<1>10. Get("desb") \in QuietStep /\ Takes(k0, Has(g3, k0), Get("desb"), Has(g4, k0))
  BY <1>1, <1>6, Gets DEF g4
<1>11. Has(g0, k0) \in Holding /\ Has(g1, k0) \in Holding /\ Has(g2, k0) \in Holding
      /\ Has(g3, k0) \in Holding /\ Has(g4, k0) \in Holding
  BY <1>1, HasIs
<1>12. InitDesp \in Seq(QuietStep) /\ Leads(k0, Has(g0, k0), InitDesp, Has(g4, k0))
  BY <1>7, <1>8, <1>9, <1>10, <1>11, LeadsFour DEF InitDesp
<1>13. QED
  BY <1>2, <1>12 DEF g0, k0

LEMMA AllocLeads ==
  /\ <<Service({"DD"}, {}), S99Free>> \in Seq(CodeStep)
  /\ Leads({}, Has({"bh"} \cup S99Storage, {}), <<Service({"DD"}, {}), S99Free>>,
           Has({"bh", "DD"}, {}))
<1> DEFINE g0 == {"bh"} \cup S99Storage
           k0 == {}
           g1 == (g0 \cup {"DD"}) \ {}
           k1 == k0 \ {}
           g2 == g1 \ S99Storage
           k2 == k1 \ S99Storage
<1>1. g0 \in SUBSET Resource /\ g1 \in SUBSET Resource /\ g2 \in SUBSET Resource
      /\ k0 \in SUBSET Resource /\ k1 \in SUBSET Resource /\ k2 \in SUBSET Resource
  BY Resources
<1>2. g2 = {"bh", "DD"} /\ k2 = {}
  BY DEF S99Storage
<1>3. {"DD"} \in SUBSET Resource
  BY Resources
<1>4. S99Storage \in SUBSET Resource /\ S99Storage \subseteq g1 \cup k1
      /\ S99Storage \cap Below24 \subseteq {"stowlist"}
  BY Resources DEF S99Storage, Below24
<1> HIDE DEF g0, g1, g2, k0, k1, k2
<1>5. Service({"DD"}, {}) \in CodeStep /\ Takes(k0, Has(g0, k0), Service({"DD"}, {}), Has(g1, k1))
  BY <1>1, <1>3, QuietIsCode, Serves DEF g1, k1
<1>6. S99Free \in CodeStep /\ Takes(k0, Has(g1, k1), S99Free, Has(g2, k2))
  BY <1>1, <1>4, QuietIsCode, Frees DEF S99Free, g2, k2
<1>7. Has(g0, k0) \in Holding /\ Has(g1, k1) \in Holding /\ Has(g2, k2) \in Holding
  BY <1>1, HasIs
<1>8. /\ <<Service({"DD"}, {}), S99Free>> \in Seq(CodeStep)
       /\ Leads(k0, Has(g0, k0), <<Service({"DD"}, {}), S99Free>>, Has(g2, k2))
  BY <1>5, <1>6, <1>7, LeadsTwo
<1>9. QED
  BY <1>2, <1>8 DEF g0, k0

LEMMA UnallocLeads ==
  /\ <<Service({}, {"DD"}), S99Free>> \in Seq(QuietStep)
  /\ Leads(Complete \ {"OPEN"}, Has({"closecb"} \cup S99Storage, Complete \ {"OPEN"}), <<Service({}, {"DD"}), S99Free>>,
           Has({"closecb"}, Complete \ {"OPEN", "DD"}))
<1> DEFINE g0 == {"closecb"} \cup S99Storage
           k0 == Complete \ {"OPEN"}
           g1 == (g0 \cup {}) \ {"DD"}
           k1 == k0 \ {"DD"}
           g2 == g1 \ S99Storage
           k2 == k1 \ S99Storage
<1>1. g0 \in SUBSET Resource /\ g1 \in SUBSET Resource /\ g2 \in SUBSET Resource
      /\ k0 \in SUBSET Resource /\ k1 \in SUBSET Resource /\ k2 \in SUBSET Resource
  BY Resources
<1>2. g2 = {"closecb"} /\ k2 = Complete \ {"OPEN", "DD"}
  BY DEF Complete, S99Storage
<1>3. {"DD"} \in SUBSET Resource /\ {"DD"} \subseteq g0 \cup k0
      /\ {"DD"} \cap Below24 \subseteq {"stowlist"}
  BY Resources DEF Complete, S99Storage, Below24
<1>4. S99Storage \in SUBSET Resource /\ S99Storage \subseteq g1 \cup k1
      /\ S99Storage \cap Below24 \subseteq {"stowlist"}
  BY Resources DEF Complete, S99Storage, Below24
<1> HIDE DEF g0, g1, g2, k0, k1, k2
<1>5. Service({}, {"DD"}) \in QuietStep /\ Takes(k0, Has(g0, k0), Service({}, {"DD"}), Has(g1, k1))
  BY <1>1, <1>3, Serves DEF g1, k1
<1>6. S99Free \in QuietStep /\ Takes(k0, Has(g1, k1), S99Free, Has(g2, k2))
  BY <1>1, <1>4, Frees DEF S99Free, g2, k2
<1>7. Has(g0, k0) \in Holding /\ Has(g1, k1) \in Holding /\ Has(g2, k2) \in Holding
  BY <1>1, HasIs
<1>8. /\ <<Service({}, {"DD"}), S99Free>> \in Seq(QuietStep)
       /\ Leads(k0, Has(g0, k0), <<Service({}, {"DD"}), S99Free>>, Has(g2, k2))
  BY <1>5, <1>6, <1>7, LeadsTwo
<1>9. QED
  BY <1>2, <1>8 DEF g0, k0

LEMMA DcbInitLeads ==
  /\ DcbInit \in Seq(QuietStep)
  /\ Leads({}, Has({"bh", "DD"}, {}), DcbInit, Has({"bh", "DD", "dcb", "dcbe"}, {}))
<1> DEFINE g0 == {"bh", "DD"}
           k0 == {}
           g1 == g0 \cup {"dcb"}
           g2 == g1 \cup {"dcbe"}
<1>1. g0 \in SUBSET Resource /\ g1 \in SUBSET Resource /\ g2 \in SUBSET Resource
      /\ k0 \in SUBSET Resource
  BY Resources
<1>2. g2 = {"bh", "DD", "dcb", "dcbe"} /\ k0 = {}
  OBVIOUS
<1>3. "dcb" \in Resource /\ "dcb" \notin {"DD", "OPEN"}
  BY Resources
<1>4. "dcbe" \in Resource /\ "dcbe" \notin {"DD", "OPEN"}
  BY Resources
<1> HIDE DEF g0, g1, g2, k0
<1>5. Get("dcb") \in QuietStep /\ Takes(k0, Has(g0, k0), Get("dcb"), Has(g1, k0))
  BY <1>1, <1>3, Gets DEF g1
<1>6. Get("dcbe") \in QuietStep /\ Takes(k0, Has(g1, k0), Get("dcbe"), Has(g2, k0))
  BY <1>1, <1>4, Gets DEF g2
<1>7. Test \in QuietStep /\ Takes(k0, Has(g2, k0), Test, Has(g2, k0))
  BY <1>1, Tests
<1>8. Has(g0, k0) \in Holding /\ Has(g1, k0) \in Holding /\ Has(g2, k0) \in Holding
  BY <1>1, HasIs
<1>9. DcbInit \in Seq(QuietStep) /\ Leads(k0, Has(g0, k0), DcbInit, Has(g2, k0))
  BY <1>5, <1>6, <1>7, <1>8, LeadsThree DEF DcbInit
<1>10. QED
  BY <1>2, <1>9 DEF g0, k0

LEMMA OpenLeads ==
  /\ OpenSteps \in Seq(CodeStep)
  /\ Leads({}, Has({"bh", "DD", "dcb", "dcbe"}, {}), OpenSteps, Has(Complete, {}))
<1> DEFINE g0 == {"bh", "DD", "dcb", "dcbe"}
           k0 == {}
           g1 == g0 \cup {"opencb"}
           g2 == (g1 \cup {"OPEN"}) \ {}
           k2 == k0 \ {}
           g4 == g2 \cup {"decb"}
           g5 == g4 \cup {"block"}
<1>1. g0 \in SUBSET Resource /\ g1 \in SUBSET Resource /\ g2 \in SUBSET Resource
      /\ g4 \in SUBSET Resource /\ g5 \in SUBSET Resource /\ k0 \in SUBSET Resource
      /\ k2 \in SUBSET Resource
  BY Resources
<1>2. g5 = Complete /\ k2 = {}
  BY DEF Complete
<1>3. k2 = k0
  BY DEF Complete
<1>4. "opencb" \in Resource /\ "opencb" \notin {"DD", "OPEN"}
  BY Resources
<1>5. {"OPEN"} \in SUBSET Resource
  BY Resources
<1>6. "decb" \in Resource /\ "decb" \notin {"DD", "OPEN"}
  BY Resources
<1>7. "block" \in Resource /\ "block" \notin {"DD", "OPEN"}
  BY Resources
<1> HIDE DEF g0, g1, g2, g4, g5, k0, k2
<1>8. Get("opencb") \in CodeStep /\ Takes(k0, Has(g0, k0), Get("opencb"), Has(g1, k0))
  BY <1>1, <1>3, <1>4, QuietIsCode, Gets DEF g1
<1>9. Service({"OPEN"}, {}) \in CodeStep
      /\ Takes(k0, Has(g1, k0), Service({"OPEN"}, {}), Has(g2, k2))
  BY <1>1, <1>3, <1>5, QuietIsCode, Serves DEF g2, k2
<1>10. Test \in CodeStep /\ Takes(k0, Has(g2, k2), Test, Has(g2, k2))
  BY <1>1, <1>3, QuietIsCode, Tests
<1>11. Get("decb") \in CodeStep /\ Takes(k0, Has(g2, k2), Get("decb"), Has(g4, k2))
  BY <1>1, <1>3, <1>6, QuietIsCode, Gets DEF g4
<1>12. Get("block") \in CodeStep /\ Takes(k0, Has(g4, k2), Get("block"), Has(g5, k2))
  BY <1>1, <1>3, <1>7, QuietIsCode, Gets DEF g5
<1>13. Has(g0, k0) \in Holding /\ Has(g1, k0) \in Holding /\ Has(g2, k2) \in Holding
      /\ Has(g4, k2) \in Holding /\ Has(g5, k2) \in Holding
  BY <1>1, HasIs
<1>14. OpenSteps \in Seq(CodeStep) /\ Leads(k0, Has(g0, k0), OpenSteps, Has(g5, k2))
  BY <1>8, <1>9, <1>10, <1>11, <1>12, <1>13, LeadsFive DEF OpenSteps
<1>15. QED
  BY <1>2, <1>14 DEF g0, k0

LEMMA GetDespAllLeads ==
  /\ GetDespAll \in Seq(CodeStep)
  /\ Leads({}, Has(Complete, {}), GetDespAll, Has(Complete \cup {"desp", "desb"}, {}))
<1> DEFINE g0 == Complete
           k0 == {}
           g1 == g0 \cup {"desp"}
           g2 == g1 \cup {"desb"}
           g3 == (g2 \cup {}) \ {}
           k3 == k0 \ {}
<1>1. g0 \in SUBSET Resource /\ g1 \in SUBSET Resource /\ g2 \in SUBSET Resource
      /\ g3 \in SUBSET Resource /\ k0 \in SUBSET Resource /\ k3 \in SUBSET Resource
  BY Resources
<1>2. g3 = Complete \cup {"desp", "desb"} /\ k3 = {}
  BY DEF Complete
<1>3. "desp" \in Resource /\ "desp" \notin {"DD", "OPEN"}
  BY Resources
<1>4. "desb" \in Resource /\ "desb" \notin {"DD", "OPEN"}
  BY Resources
<1> HIDE DEF g0, g1, g2, g3, k0, k3
<1>5. Get("desp") \in CodeStep /\ Takes(k0, Has(g0, k0), Get("desp"), Has(g1, k0))
  BY <1>1, <1>3, QuietIsCode, Gets DEF g1
<1>6. Get("desb") \in CodeStep /\ Takes(k0, Has(g1, k0), Get("desb"), Has(g2, k0))
  BY <1>1, <1>4, QuietIsCode, Gets DEF g2
<1>7. Service({}, {}) \in CodeStep /\ Takes(k0, Has(g2, k0), Service({}, {}), Has(g3, k3))
  BY <1>1, QuietIsCode, Serves DEF g3, k3
<1>8. Has(g0, k0) \in Holding /\ Has(g1, k0) \in Holding /\ Has(g2, k0) \in Holding
      /\ Has(g3, k3) \in Holding
  BY <1>1, HasIs
<1>9. GetDespAll \in Seq(CodeStep) /\ Leads(k0, Has(g0, k0), GetDespAll, Has(g3, k3))
  BY <1>5, <1>6, <1>7, <1>8, LeadsThree DEF GetDespAll
<1>10. QED
  BY <1>2, <1>9 DEF g0, k0

LEMMA ClosePdsLeads ==
  /\ ClosePds \in Seq(QuietStep)
  /\ Leads(Complete, Has({}, Complete), ClosePds, Has({"closecb"}, Complete \ {"OPEN"}))
<1> DEFINE g0 == {}
           k0 == Complete
           g1 == g0 \cup {"closecb"}
           g2 == (g1 \cup {}) \ {"OPEN"}
           k2 == k0 \ {"OPEN"}
<1>1. g0 \in SUBSET Resource /\ g1 \in SUBSET Resource /\ g2 \in SUBSET Resource
      /\ k0 \in SUBSET Resource /\ k2 \in SUBSET Resource
  BY Resources
<1>2. g2 = {"closecb"} /\ k2 = Complete \ {"OPEN"}
  BY DEF Complete
<1>3. "closecb" \in Resource /\ "closecb" \notin {"DD", "OPEN"}
  BY Resources
<1>4. {"OPEN"} \in SUBSET Resource /\ {"OPEN"} \subseteq g1 \cup k0
      /\ {"OPEN"} \cap Below24 \subseteq {"stowlist"}
  BY Resources DEF Complete, Below24
<1> HIDE DEF g0, g1, g2, k0, k2
<1>5. Get("closecb") \in QuietStep /\ Takes(k0, Has(g0, k0), Get("closecb"), Has(g1, k0))
  BY <1>1, <1>3, Gets DEF g1
<1>6. Service({}, {"OPEN"}) \in QuietStep
      /\ Takes(k0, Has(g1, k0), Service({}, {"OPEN"}), Has(g2, k2))
  BY <1>1, <1>4, Serves DEF g2, k2
<1>7. Has(g0, k0) \in Holding /\ Has(g1, k0) \in Holding /\ Has(g2, k2) \in Holding
  BY <1>1, HasIs
<1>8. ClosePds \in Seq(QuietStep) /\ Leads(k0, Has(g0, k0), ClosePds, Has(g2, k2))
  BY <1>5, <1>6, <1>7, LeadsTwo DEF ClosePds
<1>9. QED
  BY <1>2, <1>8 DEF g0, k0

LEMMA FindMemberLeads ==
  /\ FindMember \in Seq(QuietStep)
  /\ Leads(Complete, Has({}, Complete), FindMember, Has({}, Complete))
<1> DEFINE g0 == {}
           k0 == Complete
           g1 == g0 \cup {"findcb"}
           g2 == g1 \ {"findcb"}
           k2 == k0 \ {"findcb"}
<1>1. g0 \in SUBSET Resource /\ g1 \in SUBSET Resource /\ g2 \in SUBSET Resource
      /\ k0 \in SUBSET Resource /\ k2 \in SUBSET Resource
  BY Resources
<1>2. g2 = {} /\ k2 = Complete
  BY DEF Complete
<1>3. "findcb" \in Resource /\ "findcb" \notin {"DD", "OPEN"}
  BY Resources
<1>4. {"findcb"} \in SUBSET Resource /\ {"findcb"} \subseteq g1 \cup k0
      /\ {"findcb"} \cap Below24 \subseteq {"stowlist"}
  BY Resources DEF Complete, Below24
<1> HIDE DEF g0, g1, g2, k0, k2
<1>5. Get("findcb") \in QuietStep /\ Takes(k0, Has(g0, k0), Get("findcb"), Has(g1, k0))
  BY <1>1, <1>3, Gets DEF g1
<1>6. ServiceThenFree({"findcb"}) \in QuietStep
      /\ Takes(k0, Has(g1, k0), ServiceThenFree({"findcb"}), Has(g2, k2))
  BY <1>1, <1>4, ServesAndFrees DEF g2, k2
<1>7. Has(g0, k0) \in Holding /\ Has(g1, k0) \in Holding /\ Has(g2, k2) \in Holding
  BY <1>1, HasIs
<1>8. FindMember \in Seq(QuietStep) /\ Leads(k0, Has(g0, k0), FindMember, Has(g2, k2))
  BY <1>5, <1>6, <1>7, LeadsTwo DEF FindMember
<1>9. QED
  BY <1>2, <1>8 DEF g0, k0

LEMMA StowNewLeads ==
  /\ StowNew \in Seq(QuietStep)
  /\ Leads(Complete, Has({}, Complete), StowNew, Has({"stowlist", "stowlistadd"}, Complete))
<1> DEFINE g0 == {}
           k0 == Complete
           g1 == g0 \cup {"stowlist", "stowlistadd"}
           g2 == (g1 \cup {}) \ {}
           k2 == k0 \ {}
<1>1. g0 \in SUBSET Resource /\ g1 \in SUBSET Resource /\ g2 \in SUBSET Resource
      /\ k0 \in SUBSET Resource /\ k2 \in SUBSET Resource
  BY Resources
<1>2. g2 = {"stowlist", "stowlistadd"} /\ k2 = Complete
  BY DEF Complete
<1>3. "stowlist" \in Resource /\ "stowlist" \notin {"DD", "OPEN"} /\ "stowlistadd" \in Resource
      /\ "stowlistadd" \notin {"DD", "OPEN"}
  BY Resources
<1> HIDE DEF g0, g1, g2, k0, k2
<1>4. GetBoth("stowlist", "stowlistadd") \in QuietStep
      /\ Takes(k0, Has(g0, k0), GetBoth("stowlist", "stowlistadd"), Has(g1, k0))
  BY <1>1, <1>3, GetsBoth DEF g1
<1>5. Service({}, {}) \in QuietStep /\ Takes(k0, Has(g1, k0), Service({}, {}), Has(g2, k2))
  BY <1>1, Serves DEF g2, k2
<1>6. Has(g0, k0) \in Holding /\ Has(g1, k0) \in Holding /\ Has(g2, k2) \in Holding
  BY <1>1, HasIs
<1>7. StowNew \in Seq(QuietStep) /\ Leads(k0, Has(g0, k0), StowNew, Has(g2, k2))
  BY <1>4, <1>5, <1>6, LeadsTwo DEF StowNew
<1>8. QED
  BY <1>2, <1>7 DEF g0, k0

LEMMA StowPdsLeads ==
  /\ StowPds \in Seq(QuietStep)
  /\ Leads(Complete, Has({}, Complete), StowPds, Has({"stowlist_r", "stowlistadd"}, Complete))
<1> DEFINE g0 == {}
           k0 == Complete
           g1 == g0 \cup {"stowlist", "stowlistadd"}
           g2 == g1 \ {"stowlist"}
           k2 == k0 \ {"stowlist"}
           g3 == g2 \cup {"stowlist_r"}
           g4 == (g3 \cup {}) \ {}
           k4 == k2 \ {}
<1>1. g0 \in SUBSET Resource /\ g1 \in SUBSET Resource /\ g2 \in SUBSET Resource
      /\ g3 \in SUBSET Resource /\ g4 \in SUBSET Resource /\ k0 \in SUBSET Resource
      /\ k2 \in SUBSET Resource /\ k4 \in SUBSET Resource
  BY Resources
<1>2. g4 = {"stowlist_r", "stowlistadd"} /\ k4 = Complete
  BY DEF Complete
<1>3. k2 = k0
  BY DEF Complete
<1>4. "stowlist" \in Resource /\ "stowlist" \notin {"DD", "OPEN"} /\ "stowlistadd" \in Resource
      /\ "stowlistadd" \notin {"DD", "OPEN"}
  BY Resources
<1>5. {"stowlist"} \in SUBSET Resource /\ {"stowlist"} \subseteq g1 \cup k0
      /\ {"stowlist"} \cap Below24 \subseteq {"stowlist"}
  BY Resources DEF Complete, Below24
<1>6. "stowlist_r" \in Resource /\ "stowlist_r" \notin {"DD", "OPEN"}
  BY Resources
<1> HIDE DEF g0, g1, g2, g3, g4, k0, k2, k4
<1>7. GetBoth("stowlist", "stowlistadd") \in QuietStep
      /\ Takes(k0, Has(g0, k0), GetBoth("stowlist", "stowlistadd"), Has(g1, k0))
  BY <1>1, <1>3, <1>4, GetsBoth DEF g1
<1>8. Free({"stowlist"}) \in QuietStep /\ Takes(k0, Has(g1, k0), Free({"stowlist"}), Has(g2, k2))
  BY <1>1, <1>3, <1>5, Frees DEF g2, k2
<1>9. Get("stowlist_r") \in QuietStep /\ Takes(k0, Has(g2, k2), Get("stowlist_r"), Has(g3, k2))
  BY <1>1, <1>3, <1>6, Gets DEF g3
<1>10. Service({}, {}) \in QuietStep /\ Takes(k0, Has(g3, k2), Service({}, {}), Has(g4, k4))
  BY <1>1, <1>3, Serves DEF g4, k4
<1>11. Has(g0, k0) \in Holding /\ Has(g1, k0) \in Holding /\ Has(g2, k2) \in Holding
      /\ Has(g3, k2) \in Holding /\ Has(g4, k4) \in Holding
  BY <1>1, HasIs
<1>12. StowPds \in Seq(QuietStep) /\ Leads(k0, Has(g0, k0), StowPds, Has(g4, k4))
  BY <1>7, <1>8, <1>9, <1>10, <1>11, LeadsFour DEF StowPds
<1>13. QED
  BY <1>2, <1>12 DEF g0, k0

LEMMA EnqDeqLeads ==
  ASSUME NEW k \in {{}, Complete}
  PROVE  EnqDeq \in Seq(QuietStep) /\ Leads(k, Has({}, k), EnqDeq, Has({}, k))
<1> DEFINE g0 == {}
           k0 == k
           g1 == g0 \cup {"rname", "qname"}
           g2 == g1 \ {"rname", "qname"}
           k2 == k0 \ {"rname", "qname"}
<1>1. g0 \in SUBSET Resource /\ g1 \in SUBSET Resource /\ g2 \in SUBSET Resource
      /\ k0 \in SUBSET Resource /\ k2 \in SUBSET Resource
  BY Resources
<1>2. g2 = {} /\ k2 = k
  BY DEF Complete
<1>3. "rname" \in Resource /\ "rname" \notin {"DD", "OPEN"} /\ "qname" \in Resource
      /\ "qname" \notin {"DD", "OPEN"}
  BY Resources
<1>4. {"rname", "qname"} \in SUBSET Resource /\ {"rname", "qname"} \subseteq g1 \cup k0
      /\ {"rname", "qname"} \cap Below24 \subseteq {"stowlist"}
  BY Resources DEF Complete, Below24
<1> HIDE DEF g0, g1, g2, k0, k2
<1>5. GetBoth("rname", "qname") \in QuietStep
      /\ Takes(k0, Has(g0, k0), GetBoth("rname", "qname"), Has(g1, k0))
  BY <1>1, <1>3, GetsBoth DEF g1
<1>6. ServiceThenFree({"rname", "qname"}) \in QuietStep
      /\ Takes(k0, Has(g1, k0), ServiceThenFree({"rname", "qname"}), Has(g2, k2))
  BY <1>1, <1>4, ServesAndFrees DEF g2, k2
<1>7. Has(g0, k0) \in Holding /\ Has(g1, k0) \in Holding /\ Has(g2, k2) \in Holding
  BY <1>1, HasIs
<1>8. EnqDeq \in Seq(QuietStep) /\ Leads(k0, Has(g0, k0), EnqDeq, Has(g2, k2))
  BY <1>5, <1>6, <1>7, LeadsTwo DEF EnqDeq
<1>9. QED
  BY <1>2, <1>8 DEF g0, k0

LEMMA TwoStowLeads ==
  /\ TwoStows \in Seq(QuietStep)
  /\ Leads(Complete, Has({"stowlist", "stowlistadd"} \cup DespStorage, Complete), TwoStows,
           Has({"stowlist", "stowlistadd"} \cup DespStorage, Complete))
<1> DEFINE g0 == {"stowlist", "stowlistadd"} \cup DespStorage
           k0 == Complete
           g1 == (g0 \cup {}) \ {}
           k1 == k0 \ {}
           g2 == (g1 \cup {}) \ {}
           k2 == k1 \ {}
<1>1. g0 \in SUBSET Resource /\ g1 \in SUBSET Resource /\ g2 \in SUBSET Resource
      /\ k0 \in SUBSET Resource /\ k1 \in SUBSET Resource /\ k2 \in SUBSET Resource
  BY Resources
<1>2. g2 = {"stowlist", "stowlistadd"} \cup DespStorage /\ k2 = Complete
  BY DEF Complete, DespStorage
<1>3. k1 = k0
  BY DEF Complete, DespStorage
<1> HIDE DEF g0, g1, g2, k0, k1, k2
<1>4. Service({}, {}) \in QuietStep /\ Takes(k0, Has(g0, k0), Service({}, {}), Has(g1, k1))
  BY <1>1, <1>3, Serves DEF g1, k1
<1>5. Service({}, {}) \in QuietStep /\ Takes(k0, Has(g1, k1), Service({}, {}), Has(g2, k2))
  BY <1>1, <1>3, Serves DEF g2, k2
<1>6. Has(g0, k0) \in Holding /\ Has(g1, k1) \in Holding /\ Has(g2, k2) \in Holding
  BY <1>1, HasIs
<1>7. TwoStows \in Seq(QuietStep) /\ Leads(k0, Has(g0, k0), TwoStows, Has(g2, k2))
  BY <1>4, <1>5, <1>6, LeadsTwo DEF TwoStows
<1>8. QED
  BY <1>2, <1>7 DEF g0, k0
LEMMA SeqOfQuiet ==
  ASSUME NEW s \in Seq(QuietStep)
  PROVE  s \in Seq(CodeStep)
BY QuietIsCode

LEMMA DsddAllocLeads ==
  DsddAlloc \in Seq(CodeStep) /\ Leads({}, Has({"bh"}, {}), DsddAlloc, Has({"bh", "DD"}, {}))
<1>1. {"bh"} \in SUBSET Resource /\ "DD" \notin {"bh"}
  BY Resources
<1>2. S99Init \in Seq(QuietStep)
      /\ Leads({}, Has({"bh"}, {}), S99Init, Has({"bh"} \cup S99Storage, {}))
  BY <1>1, S99InitLeads
<1>3. S99Init \in Seq(CodeStep)
  BY <1>2, SeqOfQuiet
<1>4. QED
  BY <1>2, <1>3, AllocLeads, LeadsConcat DEF DsddAlloc

LEMMA DdFreeLeads ==
  /\ DdFree \in Seq(QuietStep)
  /\ Leads(Complete \ {"OPEN"}, Has({"closecb"}, Complete \ {"OPEN"}), DdFree, Has({"closecb"}, Complete \ {"OPEN", "DD"}))
<1>1. /\ {"closecb"} \in SUBSET Resource /\ "DD" \notin {"closecb"}
      /\ Complete \ {"OPEN"} \in SUBSET Resource /\ "OPEN" \notin Complete \ {"OPEN"}
  BY Resources
<1>2. /\ S99Init \in Seq(QuietStep)
      /\ Leads(Complete \ {"OPEN"}, Has({"closecb"}, Complete \ {"OPEN"}), S99Init,
               Has({"closecb"} \cup S99Storage, Complete \ {"OPEN"}))
  BY <1>1, S99InitLeads
<1>3. QED
  BY <1>2, UnallocLeads, LeadsConcat DEF DdFree

LEMMA OpenPdsLeads ==
  OpenPds \in Seq(CodeStep) /\ Leads({}, Has({}, {}), OpenPds, Has(Complete, {}))
<1>1. {"bh"} \in SUBSET Resource /\ {} \in SUBSET Resource /\ "bh" \in Resource
      /\ {} \cup {"bh"} = {"bh"}
  BY Resources
<1>2. /\ Has({}, {}) \in Holding /\ Has({"bh"}, {}) \in Holding
      /\ Get("bh") \in CodeStep /\ Takes({}, Has({}, {}), Get("bh"), Has({"bh"}, {}))
      /\ Test \in CodeStep /\ Takes({}, Has({"bh"}, {}), Test, Has({"bh"}, {}))
  <2>1. Has({}, {}) \in Holding /\ Has({"bh"}, {}) \in Holding
    BY <1>1, HasIs
  <2>2. Get("bh") \in CodeStep /\ Takes({}, Has({}, {}), Get("bh"), Has({} \cup {"bh"}, {}))
    BY <1>1, Gets
  <2>3. Test \in CodeStep /\ Takes({}, Has({"bh"}, {}), Test, Has({"bh"}, {}))
    BY <1>1, Tests, QuietIsCode
  <2>4. QED
    BY <1>1, <2>1, <2>2, <2>3
<1>3. <<Get("bh")>> \in Seq(CodeStep) /\ Leads({}, Has({}, {}), <<Get("bh")>>, Has({"bh"}, {}))
  BY <1>2, LeadsOne
<1>4. <<Test>> \in Seq(CodeStep) /\ Leads({}, Has({"bh"}, {}), <<Test>>, Has({"bh"}, {}))
  BY <1>2, LeadsOne
<1>5. AllocPds \in Seq(CodeStep) /\ Leads({}, Has({"bh"}, {}), AllocPds, Has({"bh", "DD"}, {}))
  BY <1>4, DsddAllocLeads, LeadsConcat DEF AllocPds
<1>6. BpamOpen \in Seq(CodeStep) /\ Leads({}, Has({"bh", "DD"}, {}), BpamOpen, Has(Complete, {}))
  <2>1. DcbInit \in Seq(CodeStep)
    BY DcbInitLeads, SeqOfQuiet
  <2>2. QED
    BY <2>1, DcbInitLeads, OpenLeads, LeadsConcat DEF BpamOpen, OpenSteps
<1> DEFINE a == <<Get("bh")>> \o AllocPds
<1>7. a \in Seq(CodeStep) /\ Leads({}, Has({}, {}), a, Has({"bh", "DD"}, {}))
  BY <1>3, <1>5, LeadsConcat
<1>8. OpenPds = a \o BpamOpen
  BY DEF OpenPds
<1> HIDE DEF a
<1>9. QED
  BY <1>6, <1>7, <1>8, LeadsConcat

LEMMA OpenmemdirLeads ==
  /\ OpenPds \o GetDespAll \in Seq(CodeStep)
  /\ Leads({}, Has({}, {}), OpenPds \o GetDespAll, Has(Complete \cup {"desp", "desb"}, {}))
BY OpenPdsLeads, GetDespAllLeads, LeadsConcat

LEMMA ReadMemdirEntryLeads ==
  ReadMemdirEntry \in Seq(QuietStep)
  /\ Leads(Complete, Has({}, Complete), ReadMemdirEntry, Has({}, Complete))
<1> DEFINE D == DespStorage
<1>1. /\ {} \in SUBSET Resource /\ Complete \in SUBSET Resource /\ "DD" \in Complete
      /\ D \in SUBSET Resource /\ {} \cup D = D /\ (D \cup {}) \ {} = D /\ Complete \ {} = Complete
      /\ D \ D = {} /\ Complete \ D = Complete /\ D \cap Below24 \subseteq {"stowlist"}
  BY Resources
<1>2. InitDesp \in Seq(QuietStep) /\ Leads(Complete, Has({}, Complete), InitDesp, Has(D, Complete))
  <2>1. Leads(Complete, Has({}, Complete), InitDesp, Has({} \cup D, Complete))
    BY <1>1, InitDespLeads
  <2>2. QED
    BY <1>1, <2>1, InitDespLeads
<1>3. /\ Has(D, Complete) \in Holding /\ Has({}, Complete) \in Holding
      /\ Service({}, {}) \in QuietStep
      /\ Takes(Complete, Has(D, Complete), Service({}, {}), Has(D, Complete))
      /\ Test \in QuietStep /\ Takes(Complete, Has(D, Complete), Test, Has(D, Complete))
      /\ Free(D) \in QuietStep /\ Takes(Complete, Has(D, Complete), Free(D), Has({}, Complete))
  <2>1. Has(D, Complete) \in Holding /\ Has({}, Complete) \in Holding
    BY <1>1, HasIs
  <2>2. /\ Service({}, {}) \in QuietStep
        /\ Takes(Complete, Has(D, Complete), Service({}, {}), Has((D \cup {}) \ {}, Complete \ {}))
    BY <1>1, Serves
  <2>3. Test \in QuietStep /\ Takes(Complete, Has(D, Complete), Test, Has(D, Complete))
    BY <1>1, Tests
  <2>4. Free(D) \in QuietStep
        /\ Takes(Complete, Has(D, Complete), Free(D), Has(D \ D, Complete \ D))
    BY <1>1, Frees
  <2>5. QED
    BY <1>1, <2>1, <2>2, <2>3, <2>4
<1> HIDE DEF D
<1>4. /\ <<Service({}, {})>> \in Seq(QuietStep)
      /\ Leads(Complete, Has(D, Complete), <<Service({}, {})>>, Has(D, Complete))
  BY <1>3, LeadsOne
<1>5. <<Test>> \in Seq(QuietStep) /\ Leads(Complete, Has(D, Complete), <<Test>>, Has(D, Complete))
  BY <1>3, LeadsOne
<1>6. <<Free(D)>> \in Seq(QuietStep)
      /\ Leads(Complete, Has(D, Complete), <<Free(D)>>, Has({}, Complete))
  BY <1>3, LeadsOne
<1>7. FindDesp \in Seq(QuietStep) /\ Leads(Complete, Has({}, Complete), FindDesp, Has(D, Complete))
  BY <1>2, <1>4, LeadsConcat DEF FindDesp
<1>8. /\ FindDesp \o <<Test>> \in Seq(QuietStep)
      /\ Leads(Complete, Has({}, Complete), FindDesp \o <<Test>>, Has(D, Complete))
  BY <1>5, <1>7, LeadsConcat
<1>9. FreeDesp = <<Free(D)>>
  BY DEF FreeDesp, D
<1>10. QED
  BY <1>6, <1>8, <1>9, LeadsConcat DEF ReadMemdirEntry

LEMMA StowUpdateLeads ==
  /\ StowUpdate \in Seq(QuietStep)
  /\ Leads(Complete, Has({}, Complete), StowUpdate, Has({"stowlist", "stowlistadd"} \cup DespStorage, Complete))
<1> DEFINE L == {"stowlist", "stowlistadd"}
<1>1. /\ {} \in SUBSET Resource /\ Complete \in SUBSET Resource /\ "DD" \in Complete
      /\ L \in SUBSET Resource /\ {} \cup L = L
      /\ "stowlist" \in Resource /\ "stowlistadd" \in Resource
      /\ "stowlist" \notin {"DD", "OPEN"} /\ "stowlistadd" \notin {"DD", "OPEN"}
  BY Resources
<1>2. /\ GetBoth("stowlist", "stowlistadd") \in QuietStep
      /\ Takes(Complete, Has({}, Complete), GetBoth("stowlist", "stowlistadd"), Has({} \cup L, Complete))
  BY <1>1, GetsBoth
<1>3. Has({}, Complete) \in Holding /\ Has(L, Complete) \in Holding
  BY <1>1, HasIs
<1>4. /\ <<GetBoth("stowlist", "stowlistadd")>> \in Seq(QuietStep)
      /\ Leads(Complete, Has({}, Complete), <<GetBoth("stowlist", "stowlistadd")>>, Has(L, Complete))
  BY <1>1, <1>2, <1>3, LeadsOne
<1>5. /\ InitDesp \in Seq(QuietStep)
      /\ Leads(Complete, Has(L, Complete), InitDesp, Has(L \cup DespStorage, Complete))
  BY <1>1, InitDespLeads
<1> DEFINE a == <<GetBoth("stowlist", "stowlistadd")>> \o InitDesp
<1>6. a \in Seq(QuietStep)
      /\ Leads(Complete, Has({}, Complete), a, Has(L \cup DespStorage, Complete))
  BY <1>4, <1>5, LeadsConcat
<1>7. StowUpdate = a \o TwoStows
  BY DEF StowUpdate, TwoStows
<1> HIDE DEF a
<1>8. QED
  BY <1>6, <1>7, TwoStowLeads, LeadsConcat

------------------------------------------------------------------------------
(* The inductive invariant                                                  *)

\* The handle when f begins, and what f has come to when nothing is before it.
Base(f, h) ==
  CASE f = "ddfree" -> Complete \ {"OPEN"}
    [] f = "close"  -> Complete
    [] OTHER -> IF h THEN Complete ELSE {}

Goal(f, h) ==
  CASE f = "open" -> Has(Complete, {})
    [] f = "openmemdir" -> Has(Complete \cup {"desp", "desb"}, {})
    [] f = "close" -> Has({"closecb"}, Complete \ {"OPEN"})
    [] f = "ddfree" -> Has({"closecb"}, Complete \ {"OPEN", "DD"})
    [] f = "enq" -> Has({}, IF h THEN Complete ELSE {})
    [] OTHER -> Has(Leak(f), Complete)

OfHandle == {"find", "readmemdir_entry", "stow_new", "stow_pds", "stow_update"}

\* Which function runs for which call, with a handle or without.
CallInv ==
  /\ handle \in BOOLEAN
  /\ \/ op \in {"open", "openmemdir"} /\ call = op /\ ~handle
     \/ op \in OfHandle /\ call = op /\ handle
     \/ op = "enq" /\ call = op
     \/ op \in {"close", "ddfree"} /\ call = "close" /\ handle
     \/ op \in {"close", "ddfree"} /\ call = "openmemdir" /\ ~handle
     \/ op = "none"

Whole == IF blind THEN Complete \ {"DD"} ELSE Complete

IdleInv == op = "none" => rest = <<>> /\ got = {} /\ kept = IF handle THEN Whole ELSE {}

\* What is there is what x says, but for what a missing text unit hides.
Like(x) ==
  /\ got \subseteq x.got
  /\ x.got \ got \subseteq IF blind THEN {"unit", "DD"} ELSE {}
  /\ kept \subseteq x.kept
  /\ x.kept \ kept \subseteq IF blind THEN {"DD"} ELSE {}

\* The steps that are left lead from what is there to the goal.
PathInv ==
  op # "none" =>
    /\ rest \in Seq(CodeStep)
    /\ \E x \in Holding : Like(x) /\ Leads(Base(op, handle), x, rest, Goal(op, handle))

\* A DD without a text unit for its name is unknown, except to the handle that
\* was there before.
BlindInv == blind => "DD" \notin got /\ (op # "ddfree" => "DD" \notin kept)

\* Only open and openmemdir acquire a DD or open a dataset.
QuietInv ==
  /\ op \notin {"open", "openmemdir"} => rest \in Seq(QuietStep) /\ got \cap {"DD", "OPEN"} = {}
  /\ op = "ddfree" => "OPEN" \notin kept

\* Before a call ends it has lost nothing, but for the area of openmemdir.
LostInv ==
  op # "none" /\ ~blind =>
    lost = [r \in Resource |-> before[r] + IF call = "openmemdir" /\ op # "openmemdir"
                                              /\ r \in {"desp", "desb"} THEN 1 ELSE 0]

Types ==
  /\ got \subseteq Resource
  /\ kept \subseteq Resource
  /\ lost \in [Resource -> Nat]
  /\ before \in [Resource -> Nat]
  /\ blind \in BOOLEAN
  /\ misfreed \subseteq {"stowlist"}
  /\ answer \in {"none", "ok", "failed", "unset"}
  /\ calls \in 0 .. MaxCalls

\* The promises are part of it: they are made when a call ends.
IInv ==
  /\ Types /\ CallInv /\ IdleInv /\ PathInv /\ BlindInv /\ QuietInv /\ LostInv
  /\ LostIsTold /\ SuccessLeaks

------------------------------------------------------------------------------
(* It is kept                                                               *)

LEMMA InitIInv == Init => IInv
<1> SUFFICES ASSUME Init PROVE IInv
  OBVIOUS
<1>1. lost \in [Resource -> Nat]
  BY DEF Init
<1>2. Types
  <2>1. 0 \in 0 .. MaxCalls
    BY CallsAssumption
  <2>2. before \in [Resource -> Nat]
    BY <1>1 DEF Init
  <2>3. got = {} /\ kept = {} /\ misfreed = {} /\ blind = FALSE /\ answer = "none" /\ calls = 0
    BY DEF Init
  <2>4. QED
    BY <1>1, <2>1, <2>2, <2>3 DEF Types
<1>3. CallInv /\ IdleInv /\ PathInv /\ BlindInv /\ LostInv
  BY DEF Init, CallInv, IdleInv, PathInv, BlindInv, LostInv
<1>4. QuietInv
  BY DEF Init, QuietInv
<1>5. LostIsTold
  BY <1>1 DEF Init, LostIsTold, LostNow, Resource, Complete
<1>6. SuccessLeaks
  BY DEF Init, SuccessLeaks
<1>7. QED
  BY <1>2, <1>3, <1>4, <1>5, <1>6 DEF IInv

\* Every call begins with steps that lead to its goal.
LEMMA StepsLead ==
  ASSUME NEW f, NEW h \in BOOLEAN,
         \/ f \in {"open", "openmemdir"} /\ ~h
         \/ f \in OfHandle \cup {"close"} /\ h
         \/ f = "enq"
  PROVE  /\ StepsOf(f) \in Seq(CodeStep)
         /\ f \notin {"open", "openmemdir"} => StepsOf(f) \in Seq(QuietStep)
         /\ Leads(Base(f, h), Has({}, IF h THEN Complete ELSE {}), StepsOf(f), Goal(f, h))
<1>1. CASE f = "open" /\ ~h
  BY <1>1, OpenPdsLeads DEF StepsOf, Base, Goal
<1>2. CASE f = "openmemdir" /\ ~h
  BY <1>2, OpenmemdirLeads DEF StepsOf, Base, Goal
<1>3. CASE f = "close" /\ h
  BY <1>3, ClosePdsLeads, SeqOfQuiet DEF StepsOf, Base, Goal
<1>4. CASE f = "enq"
  <2>1. StepsOf(f) = EnqDeq /\ Base(f, h) = (IF h THEN Complete ELSE {})
        /\ Goal(f, h) = Has({}, IF h THEN Complete ELSE {})
    BY <1>4 DEF StepsOf, Base, Goal
  <2>2. PICK k \in {{}, Complete} : k = IF h THEN Complete ELSE {}
    OBVIOUS
  <2>3. EnqDeq \in Seq(QuietStep) /\ Leads(k, Has({}, k), EnqDeq, Has({}, k))
    BY EnqDeqLeads
  <2>4. EnqDeq \in Seq(CodeStep)
    BY <2>3, SeqOfQuiet
  <2>5. QED
    BY <1>4, <2>1, <2>2, <2>3, <2>4
<1>5. CASE f = "find" /\ h
  BY <1>5, FindMemberLeads, SeqOfQuiet DEF StepsOf, Base, Goal, Leak
<1>6. CASE f = "readmemdir_entry" /\ h
  BY <1>6, ReadMemdirEntryLeads, SeqOfQuiet DEF StepsOf, Base, Goal, Leak
<1>7. CASE f = "stow_new" /\ h
  BY <1>7, StowNewLeads, SeqOfQuiet DEF StepsOf, Base, Goal, Leak
<1>8. CASE f = "stow_pds" /\ h
  BY <1>8, StowPdsLeads, SeqOfQuiet DEF StepsOf, Base, Goal, Leak
<1>9. CASE f = "stow_update" /\ h
  BY <1>9, StowUpdateLeads, SeqOfQuiet DEF StepsOf, Base, Goal, Leak
<1>10. QED
  BY <1>1, <1>2, <1>3, <1>4, <1>5, <1>6, <1>7, <1>8, <1>9 DEF OfHandle

\* Where a function is.
LEMMA AtStep ==
  ASSUME IInv, Running
  PROVE  /\ Head(rest) \in CodeStep /\ Tail(rest) \in Seq(CodeStep)
         /\ op \notin {"open", "openmemdir"} =>
              Head(rest) \in QuietStep /\ Tail(rest) \in Seq(QuietStep)
         /\ \E x, z \in Holding :
              /\ Like(x)
              /\ Takes(Base(op, handle), x, Head(rest), z)
              /\ Leads(Base(op, handle), z, Tail(rest), Goal(op, handle))
<1>1. op # "none" /\ rest # <<>> /\ rest \in Seq(CodeStep)
  BY DEF IInv, PathInv, Running
<1>2. PICK x \in Holding : Like(x) /\ Leads(Base(op, handle), x, rest, Goal(op, handle))
  BY <1>1 DEF IInv, PathInv
<1>3. /\ Head(rest) \in CodeStep /\ Tail(rest) \in Seq(CodeStep)
      /\ \E z \in Holding : /\ Takes(Base(op, handle), x, Head(rest), z)
                            /\ Leads(Base(op, handle), z, Tail(rest), Goal(op, handle))
  BY <1>1, <1>2, LeadsTail
<1>4. ASSUME op \notin {"open", "openmemdir"}
      PROVE  Head(rest) \in QuietStep /\ Tail(rest) \in Seq(QuietStep)
  <2>1. rest \in Seq(QuietStep)
    BY <1>4 DEF IInv, QuietInv
  <2>2. QED
    BY <1>1, <1>2, <2>1, LeadsTail
<1>5. QED
  BY <1>2, <1>3, <1>4

LEMMA AtEnd ==
  ASSUME IInv, op # "none", rest = <<>>
  PROVE  Like(Goal(op, handle))
<1>1. PICK x \in Holding : Like(x) /\ Leads(Base(op, handle), x, <<>>, Goal(op, handle))
  BY DEF IInv, PathInv
<1>2. x = Goal(op, handle)
  BY <1>1, LeadsEmpty
<1>3. QED
  BY <1>1, <1>2

\* With every text unit there, what is there is what it should be.
LEMMA LikeExactly ==
  ASSUME NEW x, Like(x), IInv
  PROVE  /\ ~blind => got = x.got /\ kept = x.kept
         /\ op # "ddfree" => kept = IF blind THEN x.kept \ {"DD"} ELSE x.kept
         /\ x.got \cap {"unit"} = {} => got = IF blind THEN x.got \ {"DD"} ELSE x.got
BY DEF Like, IInv, BlindInv

LEMMA CallIInv ==
  ASSUME IInv, Call
  PROVE  IInv'
<1>1. PICK f : /\ f \in IF handle THEN {"close", "find", "readmemdir_entry", "stow_new", "stow_pds",
                                        "stow_update", "enq"}
                        ELSE {"open", "openmemdir", "enq"}
               /\ op' = f /\ call' = f /\ rest' = StepsOf(f)
  BY DEF Call
<1>2. /\ op = "none" /\ calls < MaxCalls /\ before' = lost /\ calls' = calls + 1 /\ answer' = "none"
      /\ blind' = (blind /\ handle)
      /\ handle' = handle /\ kept' = kept /\ got' = got /\ lost' = lost /\ misfreed' = misfreed
  BY DEF Call
<1>3. handle \in BOOLEAN /\ got = {} /\ kept = IF handle THEN Whole ELSE {}
  BY <1>2 DEF IInv, CallInv, IdleInv
<1>4. Types'
  <2>1. calls + 1 \in 0 .. MaxCalls
    BY <1>2, CallsAssumption DEF IInv, Types
  <2>2. (blind /\ handle) \in BOOLEAN
    OBVIOUS
  <2>3. QED
    BY <1>2, <2>1, <2>2 DEF IInv, Types
<1>5. CallInv'
  BY <1>1, <1>2, <1>3 DEF CallInv, OfHandle
<1>6. op' # "none"
  BY <1>1, <1>3
<1>7. IdleInv' /\ LostIsTold' /\ SuccessLeaks'
  BY <1>6 DEF IdleInv, LostIsTold, SuccessLeaks
<1>8. \/ f \in {"open", "openmemdir"} /\ ~handle
      \/ f \in OfHandle \cup {"close"} /\ handle
      \/ f = "enq"
  BY <1>1, <1>3 DEF OfHandle
<1>0. PICK x : x = Has({}, IF handle THEN Complete ELSE {})
  OBVIOUS
<1>9. /\ rest' \in Seq(CodeStep)
      /\ f \notin {"open", "openmemdir"} => rest' \in Seq(QuietStep)
      /\ Leads(Base(f, handle), x, rest', Goal(f, handle))
  BY <1>0, <1>1, <1>3, <1>8, StepsLead
<1>10. x \in Holding /\ x.got = {} /\ x.kept = IF handle THEN Complete ELSE {}
  <2>1. {} \in SUBSET Resource /\ (IF handle THEN Complete ELSE {}) \in SUBSET Resource
    BY Resources
  <2>2. QED
    BY <1>0, <2>1, HasIs
<1>11. Like(x)'
  BY <1>2, <1>3, <1>10 DEF Like, Whole
<1>12. PathInv'
  BY <1>1, <1>2, <1>9, <1>10, <1>11 DEF PathInv
<1>13. BlindInv'
  BY <1>2, <1>3 DEF BlindInv, Whole
<1>14. QuietInv'
  BY <1>1, <1>2, <1>3, <1>9 DEF QuietInv
<1>15. LostInv'
  <2>1. call' = "openmemdir" => op' = "openmemdir"
    BY <1>1
  <2>2. lost = [r \in Resource |-> lost[r] + 0]
    BY DEF IInv, Types
  <2>3. QED
    BY <1>2, <2>1, <2>2 DEF LostInv
<1>16. QED
  BY <1>4, <1>5, <1>7, <1>12, <1>13, <1>14, <1>15 DEF IInv

LEMMA StepDoneIInv ==
  ASSUME IInv, StepDone
  PROVE  IInv'
<1>1. PICK s : s = Head(rest)
  OBVIOUS
<1>2. PICK known : known = IF blind THEN s.gets \ {"DD"} ELSE s.gets
  OBVIOUS
<1>3. /\ Running
      /\ got' = (got \cup known) \ Gone(s)
      /\ kept' = kept \ Gone(s)
      /\ misfreed' = misfreed \cup (Gone(s) \cap Below24)
      /\ Lose(s.gets \ known)
      /\ rest' = Tail(rest)
      /\ handle' = handle /\ op' = op /\ blind' = blind /\ answer' = answer /\ call' = call
      /\ before' = before /\ calls' = calls
  BY <1>1, <1>2 DEF StepDone, Gone
<1>4. PICK x \in Holding, z \in Holding :
        Like(x) /\ Takes(Base(op, handle), x, s, z)
        /\ Leads(Base(op, handle), z, Tail(rest), Goal(op, handle))
  BY <1>1, <1>3, AtStep
<1>5. /\ s \in CodeStep /\ Tail(rest) \in Seq(CodeStep)
      /\ op \notin {"open", "openmemdir"} => s \in QuietStep /\ Tail(rest) \in Seq(QuietStep)
  BY <1>1, <1>3, AtStep
<1>6. op # "none"
  BY <1>3 DEF Running
<1>7. s.gets \subseteq Resource /\ Gone(s) \cap Below24 \subseteq {"stowlist"}
      /\ known \subseteq s.gets
      /\ (~blind => known = s.gets) /\ s.gets \ known \subseteq {"DD"} /\ (blind => "DD" \notin known)
  BY <1>2, <1>5 DEF CodeStep
<1>8. Types'
  <2>1. lost' \in [Resource -> Nat]
    BY <1>3 DEF IInv, Types, Lose
  <2>2. got' \subseteq Resource /\ kept' \subseteq Resource /\ misfreed' \subseteq {"stowlist"}
    BY <1>3, <1>7 DEF IInv, Types
  <2>3. QED
    BY <1>3, <2>1, <2>2 DEF IInv, Types
<1>9. CallInv'
  BY <1>3 DEF IInv, CallInv
<1>10. IdleInv' /\ LostIsTold' /\ SuccessLeaks'
  BY <1>3, <1>6 DEF IdleInv, LostIsTold, SuccessLeaks
<1>11. Like(z)'
  <2>1. z.got = (x.got \cup s.gets) \ Gone(s) /\ z.kept = x.kept \ Gone(s)
    BY <1>4 DEF Takes
  <2>2. got \subseteq x.got /\ kept \subseteq x.kept
        /\ (blind => x.got \ got \subseteq {"unit", "DD"} /\ x.kept \ kept \subseteq {"DD"})
        /\ (~blind => got = x.got /\ kept = x.kept)
    BY <1>4 DEF Like
  <2>3. z.got \ got' \subseteq IF blind THEN {"unit", "DD"} ELSE {}
    BY <1>3, <1>7, <2>1, <2>2
  <2>4. z.kept \ kept' \subseteq IF blind THEN {"DD"} ELSE {}
    BY <1>3, <2>1, <2>2
  <2>5. got' \subseteq z.got /\ kept' \subseteq z.kept
    BY <1>3, <1>7, <2>1, <2>2
  <2>6. QED
    BY <1>3, <2>3, <2>4, <2>5 DEF Like
<1>12. PathInv'
  BY <1>3, <1>4, <1>5, <1>11 DEF PathInv
<1>13. BlindInv'
  BY <1>3, <1>7 DEF IInv, BlindInv
<1>14. QuietInv'
  <2>1. op \notin {"open", "openmemdir"} => got' \cap {"DD", "OPEN"} = {}
    BY <1>3, <1>5, <1>7 DEF IInv, QuietInv, QuietStep
  <2>2. op = "ddfree" => "OPEN" \notin kept'
    BY <1>3 DEF IInv, QuietInv
  <2>3. QED
    BY <1>3, <1>5, <2>1, <2>2 DEF QuietInv
<1>15. LostInv'
  <2>1. ASSUME ~blind PROVE lost' = lost
    <3>1. s.gets \ known = {}
      BY <1>7, <2>1
    <3>2. lost' = [r \in Resource |-> lost[r] + 0]
      BY <1>3, <3>1 DEF Lose
    <3>3. QED
      BY <3>2 DEF IInv, Types
  <2>2. QED
    BY <1>3, <2>1 DEF IInv, LostInv
<1>16. QED
  BY <1>8, <1>9, <1>10, <1>12, <1>13, <1>14, <1>15 DEF IInv

LEMMA StepFailedUnnoticedIInv ==
  ASSUME IInv, StepFailedUnnoticed
  PROVE  IInv'
<1>1. PICK s : s = Head(rest)
  OBVIOUS
<1>2. /\ Running /\ s.fails /\ ~s.tested
      /\ rest' = Tail(rest)
      /\ handle' = handle /\ op' = op /\ answer' = answer /\ call' = call /\ kept' = kept
      /\ got' = got
      /\ lost' = lost /\ misfreed' = misfreed /\ before' = before /\ calls' = calls
      /\ blind' = (blind \/ "unit" \in s.gets)
  BY <1>1 DEF StepFailedUnnoticed
<1>3. PICK x \in Holding, z \in Holding :
        Like(x) /\ Takes(Base(op, handle), x, s, z)
        /\ Leads(Base(op, handle), z, Tail(rest), Goal(op, handle))
  BY <1>1, <1>2, AtStep
<1>4. /\ s \in CodeStep /\ Tail(rest) \in Seq(CodeStep)
      /\ op \notin {"open", "openmemdir"} => s \in QuietStep /\ Tail(rest) \in Seq(QuietStep)
  BY <1>1, <1>2, AtStep
<1>5. s.gets = {"unit"} /\ Gone(s) = {} /\ op # "none"
  BY <1>2, <1>4 DEF CodeStep, Running
<1>6. blind' = TRUE
  BY <1>2, <1>5
<1>7. /\ "DD" \notin x.got
      /\ x.kept # {} => "OPEN" \notin x.kept
      /\ x.kept = Base(op, handle)
      /\ z.got = x.got \cup {"unit"}
      /\ z.kept = x.kept
  BY <1>2, <1>3, <1>5 DEF Takes
<1>8. Types'
  BY <1>2, <1>6 DEF IInv, Types
<1>9. CallInv'
  BY <1>2 DEF IInv, CallInv
<1>10. IdleInv' /\ LostIsTold' /\ SuccessLeaks' /\ LostInv'
  BY <1>2, <1>5, <1>6 DEF IdleInv, LostIsTold, SuccessLeaks, LostInv
<1>11. got \subseteq x.got /\ kept \subseteq x.kept
       /\ x.got \ got \subseteq {"unit", "DD"} /\ x.kept \ kept \subseteq {"DD"}
  BY <1>3 DEF Like
<1>12. Like(z)'
  <2>1. z.got \ got' \subseteq {"unit", "DD"} /\ got' \subseteq z.got
    BY <1>2, <1>7, <1>11
  <2>2. z.kept \ kept' \subseteq {"DD"} /\ kept' \subseteq z.kept
    BY <1>2, <1>7, <1>11
  <2>3. QED
    BY <1>6, <2>1, <2>2 DEF Like
<1>13. PathInv'
  BY <1>2, <1>3, <1>4, <1>12 DEF PathInv
<1>14. BlindInv'
  <2>1. "DD" \notin got'
    BY <1>2, <1>7, <1>11
  <2>2. ASSUME op # "ddfree" PROVE "DD" \notin kept'
    <3>1. Base(op, handle) = {} \/ Base(op, handle) = Complete
      BY <2>2 DEF Base
    <3>2. x.kept = {}
      BY <1>7, <3>1, Resources
    <3>3. QED
      BY <1>2, <1>11, <3>2
  <2>3. QED
    BY <1>2, <2>1, <2>2 DEF BlindInv
<1>15. QuietInv'
  BY <1>2, <1>4 DEF IInv, QuietInv
<1>16. QED
  BY <1>8, <1>9, <1>10, <1>13, <1>14, <1>15 DEF IInv

\* What a call that returns has to show, if it loses R at its end.
LEMMA EndIInv ==
  ASSUME IInv, op # "none", NEW f, NEW R \in SUBSET Resource, EndOfCall(f, R),
         blind' = blind, misfreed' = misfreed, call' = call, before' = before, calls' = calls,
         handle' \in BOOLEAN,
         kept' = IF handle' THEN Whole ELSE {},
         ~blind /\ ("DD" \in R \/ "OPEN" \in R) =>
           /\ answer' = "failed" \/ call = "openmemdir"
           /\ call \in {"open", "close", "openmemdir"}
           /\ call = "close" => ~handle' /\ "OPEN" \notin R,
         ~blind /\ answer' = "ok" /\ (call = "openmemdir" => "DD" \notin R) =>
           IF call = "openmemdir" /\ op # "openmemdir"
             THEN R \cup {"desp", "desb"} = Leak(call) /\ "desp" \notin R /\ "desb" \notin R
             ELSE R = Leak(call)
  PROVE  IInv'
<1>1. /\ op' = "none" /\ rest' = <<>> /\ got' = {}
      /\ lost' = [r \in Resource |-> lost[r] + IF r \in R THEN 1 ELSE 0]
      /\ answer' \in {"ok", "unset", "failed"}
  BY DEF EndOfCall, Lose
<1>2. PICK extra \in SUBSET {"desp", "desb"} :
        extra = IF call = "openmemdir" /\ op # "openmemdir" THEN {"desp", "desb"} ELSE {}
  OBVIOUS
<1>3. lost \in [Resource -> Nat] /\ before \in [Resource -> Nat]
  BY DEF IInv, Types
<1>4. ~blind => \A r \in Resource : lost[r] = before[r] + IF r \in extra THEN 1 ELSE 0
  BY <1>2 DEF IInv, LostInv
<1>5. ~blind => \A r \in Resource :
        LostNow'[r] = (IF r \in extra THEN 1 ELSE 0) + (IF r \in R THEN 1 ELSE 0)
  <2> SUFFICES ASSUME ~blind, NEW r \in Resource
               PROVE  LostNow'[r] = (IF r \in extra THEN 1 ELSE 0) + (IF r \in R THEN 1 ELSE 0)
    OBVIOUS
  <2>1. PICK n \in Nat, b \in Nat : n = lost[r] /\ b = before[r]
    BY <1>3
  <2>2. n = b + IF r \in extra THEN 1 ELSE 0
    BY <1>4, <2>1
  <2>3. LostNow'[r] = (n + IF r \in R THEN 1 ELSE 0) - b
    BY <1>1, <2>1 DEF LostNow
  <2>4. QED
    BY <2>2, <2>3
<1>6. Types'
  <2>1. lost' \in [Resource -> Nat]
    BY <1>1, <1>3
  <2>2. kept' \subseteq Resource
    BY Resources DEF Whole
  <2>3. QED
    BY <1>1, <2>1, <2>2 DEF IInv, Types
<1>7. CallInv' /\ IdleInv' /\ PathInv' /\ BlindInv' /\ QuietInv' /\ LostInv'
  <2>1. Whole' = Whole
    BY DEF Whole
  <2>2. CallInv'
    BY <1>1 DEF CallInv
  <2>3. IdleInv' /\ PathInv' /\ LostInv'
    BY <1>1, <2>1 DEF IdleInv, PathInv, LostInv
  <2>4. BlindInv'
    BY <1>1, <2>1 DEF BlindInv, Whole
  <2>5. QuietInv'
    BY <1>1 DEF QuietInv
  <2>6. QED
    BY <2>2, <2>3, <2>4, <2>5
<1>8. LostIsTold'
  <2>1. "DD" \in Resource /\ "OPEN" \in Resource /\ "DD" \notin extra /\ "OPEN" \notin extra
    BY <1>2, Resources
  <2>2. ~blind => /\ LostNow'["DD"] = IF "DD" \in R THEN 1 ELSE 0
                  /\ LostNow'["OPEN"] = IF "OPEN" \in R THEN 1 ELSE 0
    BY <1>5, <2>1
  <2>3. SUFFICES ASSUME ~blind, LostNow'["DD"] > 0 \/ LostNow'["OPEN"] > 0
                 PROVE  /\ answer' = "failed" \/ call' = "openmemdir"
                        /\ call' \in {"open", "close", "openmemdir"}
                        /\ call' = "close" => ~handle' /\ LostNow'["OPEN"] = 0
    BY DEF LostIsTold
  <2>4. "DD" \in R \/ "OPEN" \in R
    BY <2>2, <2>3
  <2>5. QED
    BY <2>2, <2>3, <2>4
<1>9. SuccessLeaks'
  <2>1. SUFFICES ASSUME ~blind, answer' = "ok", call = "openmemdir" => LostNow'["DD"] = 0
                 PROVE  LostNow' = [r \in Resource |-> IF r \in Leak(call) THEN 1 ELSE 0]
    BY DEF SuccessLeaks, Leak
  <2>2. "DD" \in Resource /\ "DD" \notin extra
    BY <1>2, Resources
  <2>3. call = "openmemdir" => "DD" \notin R
    BY <1>5, <2>1, <2>2
  <2>4. R \cup extra = Leak(call) /\ R \cap extra = {}
    BY <1>2, <2>1, <2>3
  <2>5. ASSUME NEW r \in Resource PROVE LostNow'[r] = IF r \in Leak(call) THEN 1 ELSE 0
    BY <1>5, <2>1, <2>4
  <2>6. LostNow' = [r \in Resource |-> LostNow'[r]]
    BY DEF LostNow
  <2>7. QED
    BY <2>5, <2>6
<1>10. QED
  BY <1>6, <1>7, <1>8, <1>9 DEF IInv

LEMMA StepFailedIInv ==
  ASSUME IInv, StepFailed
  PROVE  IInv'
<1>1. PICK s : s = Head(rest)
  OBVIOUS
<1>2. PICK gone \in BOOLEAN : gone = (op = "ddfree" \/ (op = "close" /\ call = "openmemdir"))
  OBVIOUS
<1>3. PICK part, left :
        /\ part \in SUBSET s.gets
        /\ left = (got \cup part) \ s.always
        /\ EndOfCall(op, IF op = "ddfree" THEN (left \cup kept) \ {"bh"}
                         ELSE IF gone THEN left \cup kept ELSE left)
        /\ kept' = IF gone THEN {} ELSE kept
        /\ handle' = (handle /\ ~gone)
  BY <1>1, <1>2 DEF StepFailed
<1>4. /\ Running /\ s.fails /\ s.tested
      /\ blind' = blind /\ misfreed' = misfreed /\ call' = call /\ before' = before
      /\ calls' = calls
  BY <1>1 DEF StepFailed
<1>5. op # "none" /\ rest # <<>>
  BY <1>4 DEF Running
<1>6. PICK x \in Holding : Like(x) /\ x.kept = Base(op, handle)
  BY <1>1, <1>4, AtStep DEF Takes
<1>7. s \in CodeStep /\ (op \notin {"open", "openmemdir"} => s \in QuietStep)
  BY <1>1, <1>4, AtStep
<1>8. left \subseteq Resource
  BY <1>3, <1>7 DEF CodeStep, IInv, Types
<1>9. op \notin {"open", "openmemdir"} => "DD" \notin left /\ "OPEN" \notin left
  BY <1>3, <1>7 DEF QuietStep, IInv, QuietInv
<1> DEFINE R == IF op = "ddfree" THEN (left \cup kept) \ {"bh"}
                ELSE IF gone THEN left \cup kept ELSE left
<1>10. R \in SUBSET Resource
  BY <1>8 DEF IInv, Types
<1>11. /\ \/ op \in {"open", "openmemdir"} /\ call = op /\ ~handle
          \/ op \in OfHandle /\ call = op /\ handle
          \/ op = "enq" /\ call = op
          \/ op \in {"close", "ddfree"} /\ call = "close" /\ handle
          \/ op \in {"close", "ddfree"} /\ call = "openmemdir" /\ ~handle
       /\ handle \in BOOLEAN
  BY <1>5 DEF IInv, CallInv
<1>12. handle' \in BOOLEAN
  BY <1>3, <1>11
<1>13. kept' = IF handle' THEN Whole ELSE {}
  <2>1. CASE gone
    BY <1>3, <2>1
  <2>2. CASE ~gone
    <3>1. op # "ddfree" /\ Base(op, handle) = IF handle THEN Complete ELSE {}
      BY <1>2, <1>11, <2>2 DEF Base
    <3>2. kept = IF blind THEN x.kept \ {"DD"} ELSE x.kept
      BY <1>6, <3>1, LikeExactly
    <3>3. kept = IF handle THEN Whole ELSE {}
      BY <1>6, <3>1, <3>2 DEF Whole
    <3>4. QED
      BY <1>3, <2>2, <3>3
  <2>3. QED
    BY <2>1, <2>2
<1>14. answer' = IF call = "openmemdir" /\ op # "openmemdir" THEN "ok"
                 ELSE IF op = "stow_update" /\ "stowlist" \in got /\ Len(rest) > 1 THEN "unset"
                 ELSE "failed"
  BY <1>3, <1>5 DEF EndOfCall
<1>15. ASSUME ~blind, "DD" \in R \/ "OPEN" \in R
       PROVE  /\ answer' = "failed" \/ call = "openmemdir"
              /\ call \in {"open", "close", "openmemdir"}
              /\ call = "close" => ~handle' /\ "OPEN" \notin R
  <2>1. CASE call = "openmemdir"
    BY <2>1
  <2>2. CASE call = "open"
    <3>1. op = "open"
      BY <1>11, <2>2 DEF OfHandle
    <3>2. QED
      BY <1>14, <2>2, <3>1
  <2>3. CASE call = "close"
    <3>1. op \in {"close", "ddfree"}
      BY <1>11, <2>3 DEF OfHandle
    <3>2. op = "ddfree"
      BY <1>2, <1>9, <1>15, <2>3, <3>1
    <3>3. "OPEN" \notin R
      BY <1>9, <3>2 DEF IInv, QuietInv
    <3>4. ~handle'
      BY <1>2, <1>3, <3>2
    <3>5. QED
      BY <1>14, <2>3, <3>2, <3>3, <3>4
  <2>4. CASE call \notin {"open", "close", "openmemdir"}
    <3>1. op \notin {"open", "openmemdir", "close", "ddfree"}
      BY <1>11, <2>4 DEF OfHandle
    <3>2. R = left
      BY <1>2, <3>1
    <3>3. QED
      BY <1>9, <1>15, <3>1, <3>2
  <2>5. QED
    BY <2>1, <2>2, <2>3, <2>4
<1>16. ASSUME ~blind, answer' = "ok", call = "openmemdir" => "DD" \notin R
       PROVE  FALSE
  <2>1. call = "openmemdir" /\ op # "openmemdir"
    BY <1>14, <1>16
  <2>2. op \in {"close", "ddfree"}
    BY <1>11, <2>1 DEF OfHandle
  <2>3. kept = Base(op, handle)
    BY <1>6, <1>16, LikeExactly
  <2>4. "DD" \in kept
    BY <2>2, <2>3, Resources DEF Base
  <2>5. "DD" \in R
    BY <1>2, <2>1, <2>2, <2>4
  <2>6. QED
    BY <1>16, <2>1, <2>5
<1> HIDE DEF R
<1>17. EndOfCall(op, R)
  BY <1>3 DEF R
<1>18. QED
  BY <1>4, <1>5, <1>10, <1>12, <1>13, <1>15, <1>16, <1>17, EndIInv

LEMMA OpenDoneIInv ==
  ASSUME IInv, OpenDone
  PROVE  IInv'
<1>1. /\ op = "open" /\ rest = <<>>
      /\ handle' = TRUE /\ kept' = got /\ EndOfCall("open", {})
      /\ blind' = blind /\ misfreed' = misfreed /\ call' = call /\ before' = before
      /\ calls' = calls
  BY DEF OpenDone, Done
<1>2. call = "open" /\ ~handle
  BY <1>1 DEF IInv, CallInv, OfHandle
<1>3. Like(Has(Complete, {}))
  BY <1>1, AtEnd DEF Goal
<1>4. Has(Complete, {}).got = Complete
  BY Resources, HasIs
<1>5. "unit" \notin Complete
  BY DEF Complete
<1>6. got = Whole
  BY <1>3, <1>4, <1>5, LikeExactly DEF Whole
<1>7. Leak(call) = {}
  BY <1>2 DEF Leak
<1>8. QED
  BY <1>1, <1>2, <1>6, <1>7, EndIInv

LEMMA CloseDoneIInv ==
  ASSUME IInv, CloseDone
  PROVE  IInv'
<1>1. /\ op = "close" /\ rest = <<>> /\ op' = "ddfree" /\ rest' = DdFree
      /\ handle' = handle /\ kept' = kept /\ got' = got /\ lost' = lost /\ blind' = blind
      /\ misfreed' = misfreed /\ answer' = answer /\ call' = call /\ before' = before
      /\ calls' = calls
  BY DEF CloseDone, Done
<1>2. PICK x \in Holding : x = Has({"closecb"}, Complete \ {"OPEN"}) /\ x.kept = Complete \ {"OPEN"}
  <2>1. {"closecb"} \in SUBSET Resource /\ Complete \ {"OPEN"} \in SUBSET Resource
    BY Resources
  <2>2. QED
    BY <2>1, HasIs
<1>3. Like(x)
  BY <1>1, <1>2, AtEnd DEF Goal
<1>4. Like(x)'
  BY <1>1, <1>3 DEF Like
<1>5. DdFree \in Seq(QuietStep) /\ DdFree \in Seq(CodeStep)
      /\ Leads(Base("ddfree", handle), x, DdFree, Goal("ddfree", handle))
  BY <1>2, DdFreeLeads, SeqOfQuiet DEF Base, Goal
<1>6. PathInv'
  BY <1>1, <1>4, <1>5 DEF PathInv
<1>7. QuietInv'
  <2>1. got \cap {"DD", "OPEN"} = {}
    BY <1>1 DEF IInv, QuietInv
  <2>2. "OPEN" \notin kept
    BY <1>2, <1>3 DEF Like
  <2>3. QED
    BY <1>1, <1>5, <2>1, <2>2 DEF QuietInv
<1>8. Types' /\ CallInv' /\ BlindInv'
  BY <1>1 DEF IInv, Types, CallInv, BlindInv, OfHandle
<1>9. IdleInv' /\ LostIsTold' /\ SuccessLeaks'
  BY <1>1 DEF IdleInv, LostIsTold, SuccessLeaks
<1>10. LostInv'
  BY <1>1 DEF IInv, LostInv
<1>11. QED
  BY <1>6, <1>7, <1>8, <1>9, <1>10 DEF IInv

LEMMA DdFreeDoneIInv ==
  ASSUME IInv, DdFreeDone
  PROVE  IInv'
<1>1. PICK R : R = (got \cup kept) \ {"bh"}
  OBVIOUS
<1>2. /\ op = "ddfree" /\ rest = <<>>
      /\ handle' = FALSE /\ kept' = {} /\ EndOfCall("ddfree", R)
      /\ blind' = blind /\ misfreed' = misfreed /\ call' = call /\ before' = before
      /\ calls' = calls
  BY <1>1 DEF DdFreeDone, Done
<1>3. call \in {"close", "openmemdir"}
  BY <1>2 DEF IInv, CallInv, OfHandle
<1>4. PICK x : x = Has({"closecb"}, Complete \ {"OPEN", "DD"}) /\ x.got = {"closecb"}
               /\ x.kept = Complete \ {"OPEN", "DD"}
  <2>1. {"closecb"} \in SUBSET Resource /\ Complete \ {"OPEN", "DD"} \in SUBSET Resource
    BY Resources
  <2>2. QED
    BY <2>1, HasIs
<1>5. Like(x)
  BY <1>2, <1>4, AtEnd DEF Goal
<1>6. R \in SUBSET Resource
  BY <1>1 DEF IInv, Types
<1>7. ~blind => R = {"closecb", "dcb", "dcbe", "opencb", "decb", "block"}
  BY <1>1, <1>4, <1>5, LikeExactly DEF Complete
<1>8. ~blind => "DD" \notin R /\ "OPEN" \notin R /\ "desp" \notin R /\ "desb" \notin R
  BY <1>7
<1>9. ~blind => IF call = "openmemdir" THEN R \cup {"desp", "desb"} = Leak(call) ELSE R = Leak(call)
  BY <1>3, <1>7 DEF Leak
<1>10. QED
  BY <1>2, <1>3, <1>6, <1>8, <1>9, EndIInv

LEMMA OpenmemdirDoneIInv ==
  ASSUME IInv, OpenmemdirDone
  PROVE  IInv'
<1>1. /\ op = "openmemdir" /\ rest = <<>> /\ op' = "close" /\ rest' = ClosePds
      /\ kept' = got \ {"desp", "desb"} /\ got' = {} /\ Lose({"desp", "desb"})
      /\ handle' = handle /\ blind' = blind /\ misfreed' = misfreed /\ answer' = answer
      /\ call' = call /\ before' = before /\ calls' = calls
  BY DEF OpenmemdirDone, Done
<1>2. call = "openmemdir" /\ ~handle /\ handle \in BOOLEAN
  BY <1>1 DEF IInv, CallInv, OfHandle
<1>3. PICK A \in SUBSET Resource : A = Complete \cup {"desp", "desb"}
  BY Resources
<1>4. Like(Has(A, {})) /\ Has(A, {}).got = A
  <2>1. Like(Has(A, {}))
    BY <1>1, <1>3, AtEnd DEF Goal
  <2>2. Has(A, {}).got = A
    BY HasIs
  <2>3. QED
    BY <2>1, <2>2
<1>5. got = IF blind THEN A \ {"DD"} ELSE A
  <2>1. "unit" \notin A
    BY <1>3 DEF Complete
  <2>2. QED
    BY <1>4, <2>1, LikeExactly
<1>6. kept' = Whole
  BY <1>1, <1>3, <1>5 DEF Whole, Complete
<1>7. PICK x \in Holding : x = Has({}, Complete) /\ x.got = {} /\ x.kept = Complete
  BY Resources, HasIs
<1>8. Like(x)'
  BY <1>1, <1>6, <1>7 DEF Like, Whole
<1>9. /\ ClosePds \in Seq(QuietStep) /\ ClosePds \in Seq(CodeStep)
      /\ Leads(Base("close", handle), x, ClosePds, Goal("close", handle))
  BY <1>7, ClosePdsLeads, SeqOfQuiet DEF Base, Goal
<1>10. PathInv'
  BY <1>1, <1>7, <1>8, <1>9 DEF PathInv
<1>11. QuietInv'
  BY <1>1, <1>9 DEF QuietInv
<1>12. Types'
  <2>1. lost' \in [Resource -> Nat]
    BY <1>1 DEF IInv, Types, Lose
  <2>2. got' \subseteq Resource /\ kept' \subseteq Resource
    BY <1>1, <1>6, Resources DEF Whole
  <2>3. QED
    BY <1>1, <2>1, <2>2 DEF IInv, Types
<1>13. CallInv' /\ BlindInv'
  BY <1>1, <1>2, <1>6 DEF CallInv, BlindInv, Whole
<1>14. IdleInv' /\ LostIsTold' /\ SuccessLeaks'
  BY <1>1 DEF IdleInv, LostIsTold, SuccessLeaks
<1>15. LostInv'
  <2>1. SUFFICES ASSUME ~blind
                 PROVE  lost' = [r \in Resource |-> before[r] + IF r \in {"desp", "desb"} THEN 1 ELSE 0]
    BY <1>1, <1>2 DEF LostInv
  <2>2. lost = [r \in Resource |-> before[r] + 0]
    BY <1>1, <2>1 DEF IInv, LostInv
  <2>3. before \in [Resource -> Nat]
    BY DEF IInv, Types
  <2>4. lost = before
    BY <2>2, <2>3
  <2>5. QED
    BY <1>1, <2>4 DEF Lose
<1>16. QED
  BY <1>10, <1>11, <1>12, <1>13, <1>14, <1>15 DEF IInv

LEMMA OtherDoneIInv ==
  ASSUME IInv, OtherDone
  PROVE  IInv'
<1>1. /\ op \in OfHandle \cup {"enq"} /\ rest = <<>> /\ EndOfCall(op, got)
      /\ handle' = handle /\ kept' = kept
      /\ blind' = blind /\ misfreed' = misfreed /\ call' = call /\ before' = before
      /\ calls' = calls
  BY DEF OtherDone, OfHandle
<1>2. op # "none" /\ op \notin {"open", "openmemdir", "close", "ddfree"} /\ call = op
      /\ handle \in BOOLEAN /\ (op \in OfHandle => handle)
  BY <1>1 DEF IInv, CallInv, OfHandle
<1>3. PICK x : x = Goal(op, handle) /\ x.got = Leak(op) /\ x.kept = IF handle THEN Complete ELSE {}
  <2>1. Leak(op) \in SUBSET Resource
    BY <1>2, Resources DEF Leak
  <2>2. (IF handle THEN Complete ELSE {}) \in SUBSET Resource
    BY Resources
  <2>3. Goal(op, handle) = Has(Leak(op), IF handle THEN Complete ELSE {})
    <3>1. CASE op = "enq"
      BY <3>1 DEF Goal, Leak
    <3>2. CASE op \in OfHandle
      <4>1. handle /\ op # "enq"
        BY <1>2, <3>2 DEF OfHandle
      <4>2. QED
        BY <1>2, <4>1 DEF Goal
    <3>3. QED
      BY <1>1, <3>1, <3>2
  <2>4. QED
    BY <2>1, <2>2, <2>3, HasIs
<1>4. Like(x)
  BY <1>1, <1>2, <1>3, AtEnd
<1>5. kept' = IF handle' THEN Whole ELSE {}
  BY <1>1, <1>2, <1>3, <1>4, LikeExactly DEF Whole
<1>6. "DD" \notin got /\ "OPEN" \notin got
  BY <1>2 DEF IInv, QuietInv
<1>7. ~blind => got = Leak(call)
  BY <1>2, <1>3, <1>4, LikeExactly
<1>8. got \in SUBSET Resource
  BY DEF IInv, Types
<1>9. QED
  BY <1>1, <1>2, <1>5, <1>6, <1>7, <1>8, EndIInv

LEMMA NextIInv ==
  ASSUME IInv, [Next]_vars
  PROVE  IInv'
<1>1. CASE Call
  BY <1>1, CallIInv
<1>2. CASE StepDone
  BY <1>2, StepDoneIInv
<1>3. CASE StepFailedUnnoticed
  BY <1>3, StepFailedUnnoticedIInv
<1>4. CASE StepFailed
  BY <1>4, StepFailedIInv
<1>5. CASE OpenDone
  BY <1>5, OpenDoneIInv
<1>6. CASE CloseDone
  BY <1>6, CloseDoneIInv
<1>7. CASE DdFreeDone
  BY <1>7, DdFreeDoneIInv
<1>8. CASE OpenmemdirDone
  BY <1>8, OpenmemdirDoneIInv
<1>9. CASE OtherDone
  BY <1>9, OtherDoneIInv
<1>10. CASE UNCHANGED vars
  <2>1. /\ handle' = handle /\ kept' = kept /\ op' = op /\ rest' = rest /\ got' = got
        /\ lost' = lost
        /\ blind' = blind /\ misfreed' = misfreed /\ answer' = answer /\ call' = call
        /\ before' = before /\ calls' = calls
    BY <1>10 DEF vars
  <2>2. Types' /\ CallInv' /\ BlindInv' /\ QuietInv'
    BY <2>1 DEF IInv, Types, CallInv, BlindInv, QuietInv
  <2>3. PathInv'
    <3>1. ASSUME NEW x PROVE Like(x)' <=> Like(x)
      BY <2>1 DEF Like
    <3>2. QED
      BY <2>1, <3>1 DEF IInv, PathInv
  <2>4. IdleInv' /\ LostInv'
    BY <2>1 DEF IInv, IdleInv, LostInv, Whole
  <2>5. LostNow' = LostNow
    BY <2>1 DEF LostNow
  <2>6. LostIsTold' /\ SuccessLeaks'
    BY <2>1, <2>5 DEF IInv, LostIsTold, SuccessLeaks
  <2>7. QED
    BY <2>2, <2>3, <2>4, <2>6 DEF IInv
<1>11. QED
  BY <1>1, <1>2, <1>3, <1>4, <1>5, <1>6, <1>7, <1>8, <1>9, <1>10 DEF Next, Stop

------------------------------------------------------------------------------
(* Theorems                                                                 *)

\* In every reachable state, after any number of calls, the steps that the running
\* function has before it lead from what is held to what it has to come to.
THEOREM Inductive == Spec => []IInv
<1>1. Init => IInv
  BY InitIInv
<1>2. IInv /\ [Next]_vars => IInv'
  BY NextIInv
<1>3. QED
  BY <1>1, <1>2, PTL DEF Spec

\* The state is well typed, and a function that does not run holds nothing.
THEOREM TypeCorrect == Spec => []TypeOK
<1>1. IInv => TypeOK
  <2> SUFFICES ASSUME IInv PROVE TypeOK
    OBVIOUS
  <2>1. {"stowlist"} \subseteq Below24
    BY DEF Below24
  <2>2. misfreed \subseteq Below24
    BY <2>1 DEF IInv, Types
  <2>3. QED
    BY <2>2 DEF IInv, Types, CallInv, IdleInv, TypeOK
<1>2. QED
  BY <1>1, Inductive, PTL

\* Between calls a handle has its DD, its open dataset, DCB, DECB and block, whatever
\* calls were made before and whatever failed: open_pds_for_read and
\* open_pds_for_write give a whole handle or none, and close_pds that fails early
\* leaves it whole.
THEOREM HandlesAreComplete == Spec => []HandleIsComplete
<1>1. IInv => HandleIsComplete
  BY DEF IInv, IdleInv, HandleIsComplete, Whole
<1>2. QED
  BY <1>1, Inductive, PTL

\* No call frees what it or the handle does not have, so nothing is freed twice; and
\* only the list for STOW in a PDS is given to free() though it was obtained below
\* the line.
THEOREM NothingFreedTwice == Spec => []FreesWhatItHas
<1>1. IInv => FreesWhatItHas
  <2> SUFFICES ASSUME IInv PROVE FreesWhatItHas
    OBVIOUS
  <2>1. misfreed \subseteq {"stowlist"}
    BY DEF IInv, Types
  <2>2. ASSUME Running
        PROVE  Gone(Head(rest)) \subseteq got \cup kept \cup (IF blind THEN {"unit", "DD"} ELSE {})
    <3>1. PICK x \in Holding, z \in Holding :
            Like(x) /\ Takes(Base(op, handle), x, Head(rest), z)
      BY <2>2, AtStep
    <3>2. Gone(Head(rest)) \subseteq x.got \cup x.kept
      BY <3>1 DEF Takes
    <3>3. QED
      BY <3>1, <3>2 DEF Like
  <2>3. QED
    BY <2>1, <2>2 DEF FreesWhatItHas, Gone
<1>2. QED
  BY <1>1, Inductive, PTL

\* A DD or an open dataset that nothing points to any more was told of by a failure,
\* but for openmemdir; and close_pds loses the DD only with the handle.
THEOREM LossesAreTold == Spec => []LostIsTold
<1>1. IInv => LostIsTold
  BY DEF IInv
<1>2. QED
  BY <1>1, Inductive, PTL

\* What a call that succeeds loses is exactly its leak, each time it is made.
THEOREM LeaksAreKnown == Spec => []SuccessLeaks
<1>1. IInv => SuccessLeaks
  BY DEF IInv
<1>2. QED
  BY <1>1, Inductive, PTL

=============================================================================
