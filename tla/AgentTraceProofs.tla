--------------------------- MODULE AgentTraceProofs ---------------------------
(***************************************************************************)
(* Theorems about AgentTrace, for any number of spans and exceptions and   *)
(* whatever the code between them opens, raises, catches and raises again; *)
(* and about GroundingStudy, its case-runs for any orders, items and reads,  *)
(* any number of steps and of policy runs and whatever a state shows of a    *)
(* read, its experiment for any number of cases, rounds and failures.        *)
(***************************************************************************)
EXTENDS AgentTrace, GroundingStudy, FiniteSetTheorems, SequenceTheorems, WellFoundedInduction, TLAPS

Exceptions == 1..Len(cause)

SpanRows ==
    [parent : Nat \cup {Nothing}, stage : Stage, status : {"ok", "error"},
     exc : Nat \cup {Nothing}, tells : BOOLEAN]

Handlers == [exc : Nat, depth : Nat]

\* What each variable holds.
TypeInv ==
    /\ spans \in Seq(SpanRows)
    /\ \A s \in DOMAIN spans :
         spans[s].parent \in DOMAIN spans \cup {Nothing} /\ spans[s].exc \in 0..Len(cause) \cup {Nothing}
    /\ stack \in Seq(Nat) /\ \A i \in DOMAIN stack : stack[i] \in DOMAIN spans
    /\ flying \in Exceptions \cup {Nothing}
    /\ caught \in Seq(Handlers)
    /\ \A i \in DOMAIN caught : caught[i].exc \in Exceptions /\ caught[i].depth <= Len(stack)
    /\ cause \in Seq(Nat \cup {Nothing})
    /\ origin \in Seq(Nat \cup {Nothing}) /\ Len(origin) = Len(cause)
    /\ \A c \in Exceptions : origin[c] \in DOMAIN spans \cup {Nothing}
    /\ handled \subseteq Exceptions

\* The span that is open around the first k of them.
Below(k) == IF k = 0 THEN Nothing ELSE stack[k]

\* Open spans stand in one another, no exception has left them yet, and what stands in
\* one of them is younger.
StackInv ==
    /\ \A i \in DOMAIN stack : spans[stack[i]].exc = Nothing /\ spans[stack[i]].parent = Below(i - 1)
    /\ \A i, j \in DOMAIN stack : i < j => stack[i] < stack[j]
    /\ \A s \in DOMAIN spans, i \in DOMAIN stack : spans[s].parent = stack[i] => stack[i] < s

\* The spans that an exception left.
Through(c) == {s \in DOMAIN spans : spans[s].exc = c}

\* They are a chain, from the one in which it was raised, which alone tells of it, outwards
\* to one which, if it was dealt with inside of a span, is not an outermost one.
OneWay(c) ==
    /\ Through(c) # {} => origin[c] \in Through(c) /\ \A o \in Through(c) : spans[o].parent # origin[c]
    /\ \A s \in Through(c) : s # origin[c] => \E o \in Through(c) : spans[o].parent = s
    /\ \A s, t \in Through(c) : spans[s].parent \notin Through(c) /\ spans[t].parent \notin Through(c) => s = t
    /\ \A s \in Through(c) : spans[s].parent \in Through(c) => spans[s].parent < s
    /\ \A s \in Through(c) : spans[s].tells <=> s = origin[c]
    /\ c \in handled => \A s \in Through(c) : spans[s].parent # Nothing

WaysInv == \A c \in Exceptions : OneWay(c)

\* An exception that is on its way, or was caught, where k spans are open: it left all that
\* stood in them.
Rides(c, k) ==
    /\ Through(c) = {} => origin[c] = Below(k)
    /\ Through(c) # {} => \E s \in Through(c) : spans[s].parent = Below(k)
    /\ \A s \in Through(c) : spans[s].parent \in Through(c) \cup {Below(k)}
    /\ c \notin handled

LiveInv ==
    /\ flying # Nothing => Rides(flying, Len(stack)) /\ \A i \in DOMAIN caught : caught[i].exc # flying
    /\ \A i \in DOMAIN caught : Rides(caught[i].exc, caught[i].depth)
    /\ \A i, j \in DOMAIN caught : i < j => caught[i].exc # caught[j].exc /\ caught[i].depth <= caught[j].depth

\* What the run says until it is finished, and how it ends.
RunInv ==
    /\ trace = [streaming |-> trace.streaming, status |-> trace.status, error |-> trace.error,
                blamed |-> trace.blamed, stage |-> trace.stage, finished |-> trace.finished]
    /\ trace.finished \in BOOLEAN
    /\ ~trace.finished =>
         /\ stored = "running" /\ \A s \in DOMAIN spans : spans[s].exc # Exits
         /\ trace.error # Disconnected /\ trace.status \in {"running", "failed"}
         /\ (trace.status = "failed") <=> (trace.error # Nothing)
    /\ EndsOnce /\ InterruptedAreTold

\* Who is blamed: the origin of the exception or of one behind it, which got all the way out.
BlameInv ==
    trace.error \notin {Nothing, Disconnected} =>
        /\ trace.error \in Exceptions
        /\ trace.blamed # Nothing =>
             \E c \in Chain(trace.error) :
                origin[c] = trace.blamed /\ \E s \in Through(c) : spans[s].parent = Nothing
        /\ origin[trace.error] # Nothing => trace.blamed = origin[trace.error]

TraceInv == TypeInv /\ StackInv /\ WaysInv /\ LiveInv /\ RunInv /\ BlameInv

-----------------------------------------------------------------------------
(* Numbers and sequences *)

\* A set of numbers that is not empty has a least one.
LEMMA LeastOf ==
    ASSUME NEW S \in SUBSET Nat, S # {}
    PROVE  \E m \in S : \A x \in S : m <= x
<1>0. \A x, y \in Nat : y < x => <<y, x>> \in OpToRel(<, Nat)
  BY DEF OpToRel
<1>1. PICK R : /\ IsWellFoundedOn(R, Nat)
               /\ \A x, y \in Nat : y < x => <<y, x>> \in R
  BY <1>0, NatLessThanWellFounded, Zenon
<1>2. PICK m \in S : \A x \in S : ~(<<x, m>> \in R)
  BY <1>1, WFMin
<1>3. ASSUME NEW x \in S PROVE m <= x
  <2>1. m \in Nat /\ x \in Nat
    OBVIOUS
  <2>2. x < m => <<x, m>> \in R
    BY <1>1, <2>1, Zenon
  <2>3. ~(x < m)
    BY <1>2, <2>2, Zenon
  <2>4. QED
    BY <2>1, <2>3
<1>4. QED
  BY <1>3

LEMMA MaxOf ==
    ASSUME NEW n \in Nat, NEW S \in SUBSET (0..n), S # {}
    PROVE  Max(S) \in S /\ \A x \in S : x <= Max(S)
<1> DEFINE F == {n - x : x \in S}
<1>1. F \in SUBSET Nat /\ F # {}
  OBVIOUS
<1>2. PICK m \in F : \A x \in F : m <= x
  BY <1>1, LeastOf
<1>3. PICK y \in S : m = n - y
  OBVIOUS
<1>4. ASSUME NEW x \in S PROVE y >= x
  <2>1. n - y <= n - x
    BY <1>2, <1>3
  <2>2. QED
    BY <2>1
<1>5. \E z \in S : \A x \in S : z >= x
  BY <1>4
<1>6. Max(S) \in S /\ \A x \in S : Max(S) >= x
  BY <1>5 DEF Max
<1>7. QED
  BY <1>6

LEMMA PrefixOf ==
    ASSUME NEW S, NEW q \in Seq(S), NEW k \in 0..Len(q)
    PROVE  /\ SubSeq(q, 1, k) \in Seq(S) /\ Len(SubSeq(q, 1, k)) = k
           /\ DOMAIN SubSeq(q, 1, k) = 1..k
           /\ \A i \in 1..k : SubSeq(q, 1, k)[i] = q[i]
  OBVIOUS

\* The front of a sequence.
LEMMA FrontOf ==
    ASSUME NEW S, NEW q \in Seq(S), q # <<>>
    PROVE  /\ Len(q) \in Nat \ {0} /\ Front(q) \in Seq(S) /\ Len(Front(q)) = Len(q) - 1
           /\ DOMAIN Front(q) = 1..(Len(q) - 1)
           /\ \A i \in 1..(Len(q) - 1) : Front(q)[i] = q[i]
           /\ Last(q) = q[Len(q)]
<1>1. Len(q) \in Nat \ {0}
  OBVIOUS
<1>2. PICK k : k = Len(q) - 1
  OBVIOUS
<1>3. k \in 0..Len(q)
  BY <1>1, <1>2
<1>4. /\ SubSeq(q, 1, k) \in Seq(S) /\ Len(SubSeq(q, 1, k)) = k
      /\ DOMAIN SubSeq(q, 1, k) = 1..k /\ \A i \in 1..k : SubSeq(q, 1, k)[i] = q[i]
  BY <1>3, PrefixOf
<1>5. Front(q) = SubSeq(q, 1, k)
  BY <1>2 DEF Front
<1>6. QED
  BY <1>1, <1>2, <1>4, <1>5 DEF Last

LEMMA AppendOf ==
    ASSUME NEW S, NEW q \in Seq(S), NEW x \in S
    PROVE  /\ Append(q, x) \in Seq(S) /\ Len(Append(q, x)) = Len(q) + 1
           /\ DOMAIN Append(q, x) = 1..(Len(q) + 1)
           /\ \A i \in 1..Len(q) : Append(q, x)[i] = q[i]
           /\ Append(q, x)[Len(q) + 1] = x
  OBVIOUS

-----------------------------------------------------------------------------
(* Frames *)

\* A step that changes no span that is there, and no exception.
Grows ==
    /\ DOMAIN spans \subseteq DOMAIN spans'
    /\ \A s \in DOMAIN spans : spans'[s] = spans[s]
    /\ \A s \in DOMAIN spans' \ DOMAIN spans : spans'[s].exc = Nothing
    /\ Exceptions \subseteq Exceptions'
    /\ \A c \in Exceptions : cause'[c] = cause[c] /\ origin'[c] = origin[c]

LEMMA ExceptionIsNat == ASSUME TypeInv PROVE Len(cause) \in Nat /\ Exceptions \subseteq Nat /\ Nothing \notin Exceptions
  BY TraceAssumption DEF TypeInv, Exceptions

LEMMA ThroughGrows ==
    ASSUME TypeInv, Grows, NEW c \in Exceptions
    PROVE  Through(c)' = Through(c) /\ \A s \in Through(c) : spans'[s] = spans[s]
<1>1. c # Nothing
  BY ExceptionIsNat
<1>2. QED
  BY <1>1 DEF Grows, Through

LEMMA OneWayGrows ==
    ASSUME TypeInv, Grows, NEW c \in Exceptions, OneWay(c),
           c \in handled' => c \in handled \/ \A s \in Through(c) : spans[s].parent # Nothing
    PROVE  OneWay(c)'
<1>1. Through(c)' = Through(c) /\ \A s \in Through(c) : spans'[s] = spans[s]
  BY ThroughGrows
<1>2. origin'[c] = origin[c]
  BY DEF Grows
<1>3. QED
  BY <1>1, <1>2 DEF OneWay

LEMMA RidesGrows ==
    ASSUME TypeInv, Grows, NEW c \in Exceptions, NEW k, Rides(c, k), Below(k)' = Below(k), c \notin handled'
    PROVE  Rides(c, k)'
<1>1. Through(c)' = Through(c) /\ \A s \in Through(c) : spans'[s] = spans[s]
  BY ThroughGrows
<1>2. origin'[c] = origin[c]
  BY DEF Grows
<1>3. QED
  BY <1>1, <1>2 DEF Rides

LEMMA ChainGrows ==
    ASSUME TypeInv, \A c \in Exceptions : cause'[c] = cause[c], NEW e \in Exceptions
    PROVE  Chain(e)' = Chain(e) /\ Chain(e) \subseteq 1..e /\ 1..e \subseteq Exceptions
<1>1. 1..e \subseteq Exceptions
  BY ExceptionIsNat DEF Exceptions
<1>2. QED
  BY <1>1 DEF Chain

\* Whoever is blamed stays blamed.
LEMMA BlameGrows ==
    ASSUME TypeInv, BlameInv, trace'.error = trace.error, trace'.blamed = trace.blamed,
           Exceptions \subseteq Exceptions',
           \A c \in Exceptions : cause'[c] = cause[c] /\ origin'[c] = origin[c],
           \A c \in Exceptions :
             (\E s \in Through(c) : spans[s].parent = Nothing) => \E s \in Through(c)' : spans'[s].parent = Nothing
    PROVE  BlameInv'
<1>1. SUFFICES ASSUME trace.error \notin {Nothing, Disconnected}
               PROVE  /\ trace.error \in Exceptions'
                      /\ trace.blamed # Nothing =>
                           \E c \in Chain(trace.error)' :
                              origin'[c] = trace.blamed /\ \E s \in Through(c)' : spans'[s].parent = Nothing
                      /\ origin'[trace.error] # Nothing => trace.blamed = origin'[trace.error]
  BY DEF BlameInv, Chain
<1>2. PICK e : e = trace.error
  OBVIOUS
<1>3. e \in Exceptions /\ (origin[e] # Nothing => trace.blamed = origin[e])
  BY <1>1, <1>2 DEF BlameInv
<1>4. Chain(e)' = Chain(e) /\ Chain(e) \subseteq Exceptions
  BY <1>3, ChainGrows
<1>5. e \in Exceptions' /\ (origin'[e] # Nothing => trace.blamed = origin'[e])
  BY <1>3
<1>6. ASSUME trace.blamed # Nothing
      PROVE  \E c \in Chain(e) : origin'[c] = trace.blamed /\ \E s \in Through(c)' : spans'[s].parent = Nothing
  <2>1. PICK c \in Chain(e) : origin[c] = trace.blamed /\ \E s \in Through(c) : spans[s].parent = Nothing
    BY <1>1, <1>2, <1>6 DEF BlameInv
  <2>2. c \in Exceptions
    BY <1>4
  <2>3. origin'[c] = trace.blamed /\ \E s \in Through(c)' : spans'[s].parent = Nothing
    BY <2>1, <2>2
  <2>4. QED
    BY <2>3
<1>7. Chain(trace.error)' = Chain(e)
  BY <1>2, <1>4 DEF Chain
<1>8. QED
  BY <1>2, <1>5, <1>6, <1>7

\* Until the run is finished nothing is said of its end.
LEMMA RunStays ==
    ASSUME RunInv, ~trace.finished, UNCHANGED <<trace, stored>>, \A s \in DOMAIN spans' : spans'[s].exc # Exits
    PROVE  RunInv'
  BY DEF RunInv, EndsOnce, InterruptedAreTold

LEMMA CaughtIs ==
    ASSUME TypeInv, NEW i \in DOMAIN caught
    PROVE  /\ caught[i] \in Handlers /\ caught[i].exc \in Exceptions
           /\ caught[i].depth \in 0..Len(stack)
<1>0. caught \in Seq(Handlers)
  BY DEF TypeInv
<1>1. caught[i] \in Handlers
  BY <1>0
<1>2. caught[i].depth \in Nat
  BY <1>1 DEF Handlers
<1>3. Len(stack) \in Nat /\ caught[i].exc \in Exceptions /\ caught[i].depth <= Len(stack)
  BY DEF TypeInv
<1>4. QED
  BY <1>1, <1>2, <1>3

\* The live exceptions, when none is added and no handler.
LEMMA LiveGrows ==
    ASSUME TypeInv, Grows, LiveInv, UNCHANGED <<flying, caught, handled>>,
           \A k \in 1..Len(stack) : stack'[k] = stack[k], flying # Nothing => Len(stack') = Len(stack)
    PROVE  LiveInv'
<1>1. ASSUME NEW c \in Exceptions, NEW k \in 0..Len(stack), Rides(c, k) PROVE Rides(c, k)'
  <2>1. Below(k)' = Below(k)
    BY DEF Below
  <2>2. c \notin handled'
    BY <1>1 DEF Rides
  <2>3. QED
    BY <1>1, <2>1, <2>2, RidesGrows
<1>2. Len(stack) \in Nat
  BY DEF TypeInv
<1>3. ASSUME NEW i \in DOMAIN caught PROVE Rides(caught[i].exc, caught[i].depth)'
  <2>1. PICK c, k : c = caught[i].exc /\ k = caught[i].depth
    OBVIOUS
  <2>2. c \in Exceptions /\ k \in 0..Len(stack) /\ Rides(c, k)
    BY <2>1, CaughtIs DEF LiveInv
  <2>3. Rides(c, k)'
    BY <1>1, <2>2
  <2>4. caught'[i].exc = c /\ caught'[i].depth = k
    BY <2>1
  <2>5. QED
    BY <2>3, <2>4 DEF Rides, Below
<1>4. ASSUME flying # Nothing PROVE Rides(flying, Len(stack))'
  <2>1. PICK c, k : c = flying /\ k = Len(stack)
    OBVIOUS
  <2>2. c \in Exceptions /\ k \in 0..Len(stack) /\ Rides(c, k)
    BY <1>2, <1>4, <2>1 DEF TypeInv, LiveInv
  <2>3. Rides(c, k)'
    BY <1>1, <2>2
  <2>4. flying' = c /\ Len(stack') = k
    BY <1>4, <2>1
  <2>5. QED
    BY <2>3, <2>4 DEF Rides, Below
<1>5. QED
  BY <1>3, <1>4 DEF LiveInv

LEMMA AppendSpan ==
    ASSUME TypeInv, NEW x \in SpanRows, x.exc = Nothing, x.parent \in DOMAIN spans \cup {Nothing},
           spans' = Append(spans, x), UNCHANGED <<cause, origin>>
    PROVE  /\ Grows /\ spans' \in Seq(SpanRows) /\ DOMAIN spans' = 1..Len(spans) + 1 /\ Len(spans') = Len(spans) + 1
           /\ Len(spans) \in Nat /\ DOMAIN spans = 1..Len(spans) /\ spans'[Len(spans) + 1] = x
           /\ \A s \in DOMAIN spans' :
                spans'[s].parent \in DOMAIN spans' \cup {Nothing} /\ spans'[s].exc \in 0..Len(cause) \cup {Nothing}
<1>1. spans \in Seq(SpanRows) /\ Len(spans) \in Nat /\ DOMAIN spans = 1..Len(spans)
  BY DEF TypeInv
<1>2. /\ spans' \in Seq(SpanRows) /\ Len(spans') = Len(spans) + 1 /\ DOMAIN spans' = 1..(Len(spans) + 1)
      /\ \A i \in 1..Len(spans) : spans'[i] = spans[i]
      /\ spans'[Len(spans) + 1] = x
  BY <1>1, AppendOf
<1>3. Grows
  BY <1>1, <1>2 DEF Grows, Exceptions
<1>4. \A s \in DOMAIN spans' :
        spans'[s].parent \in DOMAIN spans' \cup {Nothing} /\ spans'[s].exc \in 0..Len(cause) \cup {Nothing}
  BY <1>1, <1>2 DEF TypeInv
<1>5. QED
  BY <1>1, <1>2, <1>3, <1>4

LEMMA TopIs ==
    ASSUME TypeInv
    PROVE  /\ Len(stack) \in Nat /\ DOMAIN stack = 1..Len(stack)
           /\ Top = Below(Len(stack)) /\ Top \in DOMAIN spans \cup {Nothing} /\ DOMAIN spans \subseteq Nat
           /\ stack # <<>> => Len(stack) \in DOMAIN stack /\ Top = stack[Len(stack)] /\ Top \in DOMAIN spans
           /\ stack = <<>> => Len(stack) = 0 /\ Top = Nothing
           /\ Nothing \notin DOMAIN spans /\ Nothing \notin Nat
           /\ \A i \in 1..Len(stack) : stack[i] \in DOMAIN spans
           /\ Len(spans) \in Nat /\ DOMAIN spans = 1..Len(spans)
           /\ \A s \in DOMAIN spans : spans[s].parent \in DOMAIN spans \cup {Nothing}
<1>1. /\ Len(stack) \in Nat /\ DOMAIN stack = 1..Len(stack) /\ Len(spans) \in Nat /\ DOMAIN spans = 1..Len(spans)
      /\ stack # <<>> => Len(stack) \in DOMAIN stack
      /\ stack = <<>> => Len(stack) = 0
  BY DEF TypeInv
<1>2. \A i \in 1..Len(stack) : stack[i] \in DOMAIN spans
  BY <1>1 DEF TypeInv
<1>3. \A s \in DOMAIN spans : spans[s].parent \in DOMAIN spans \cup {Nothing}
  BY DEF TypeInv
<1>4. Top = Below(Len(stack)) /\ (stack # <<>> => Top = stack[Len(stack)]) /\ (stack = <<>> => Top = Nothing)
  BY <1>1 DEF Top, Below
<1>5. QED
  BY <1>1, <1>2, <1>3, <1>4, TraceAssumption

\* What every step that only grows keeps.
LEMMA GrownKeeps ==
    ASSUME TraceInv, Grows, ~trace.finished, UNCHANGED <<flying, caught, trace, stored, handled, cause, origin>>,
           TypeInv', StackInv', \A k \in 1..Len(stack) : stack'[k] = stack[k],
           flying # Nothing => Len(stack') = Len(stack)
    PROVE  TraceInv'
<1>1. TypeInv /\ LiveInv /\ RunInv /\ BlameInv /\ WaysInv
  BY DEF TraceInv
<1>2. WaysInv'
  <2>1. ASSUME NEW c \in Exceptions PROVE OneWay(c)'
    BY <1>1, OneWayGrows DEF WaysInv
  <2>2. QED
    BY <2>1 DEF WaysInv, Exceptions
<1>3. LiveInv'
  BY <1>1, LiveGrows
<1>4. RunInv'
  <2>1. \A s \in DOMAIN spans' : spans'[s].exc # Exits
    BY <1>1, TraceAssumption DEF Grows, RunInv, Exits
  <2>2. QED
    BY <1>1, <2>1, RunStays
<1>5. BlameInv'
  <2>1. ASSUME NEW c \in Exceptions, NEW s \in Through(c), spans[s].parent = Nothing
        PROVE  s \in Through(c)' /\ spans'[s].parent = Nothing
    BY <1>1, <2>1, ThroughGrows
  <2>2. Exceptions \subseteq Exceptions'
    BY DEF Exceptions
  <2>3. QED
    BY <1>1, <2>1, <2>2, BlameGrows
<1>6. QED
  BY <1>2, <1>3, <1>4, <1>5 DEF TraceInv

LEMMA OpenKeeps ==
    ASSUME TraceInv, NEW stage \in Stage, Open(stage)
    PROVE  TraceInv'
<1> DEFINE x == Span(Top, stage)
<1>1. TypeInv /\ StackInv /\ ~trace.finished /\ flying = Nothing
  BY DEF TraceInv, Open, Steps
<1>2. /\ spans' = Append(spans, x) /\ stack' = Append(stack, Len(spans'))
      /\ UNCHANGED <<flying, caught, cause, trace, stored, origin, handled>>
  BY DEF Open
<1>3. /\ Len(stack) \in Nat /\ DOMAIN stack = 1..Len(stack) /\ Top = Below(Len(stack))
      /\ Top \in DOMAIN spans \cup {Nothing} /\ DOMAIN spans \subseteq Nat
      /\ \A i \in 1..Len(stack) : stack[i] \in DOMAIN spans
      /\ \A s \in DOMAIN spans : spans[s].parent \in DOMAIN spans \cup {Nothing}
  BY <1>1, TopIs
<1>4. x \in SpanRows /\ x.exc = Nothing /\ x.parent = Top
  BY <1>3 DEF Span, SpanRows
<1>5. /\ Grows /\ spans' \in Seq(SpanRows) /\ DOMAIN spans' = 1..Len(spans) + 1 /\ Len(spans') = Len(spans) + 1
      /\ Len(spans) \in Nat /\ DOMAIN spans = 1..Len(spans) /\ spans'[Len(spans) + 1] = x
      /\ \A s \in DOMAIN spans' :
           spans'[s].parent \in DOMAIN spans' \cup {Nothing} /\ spans'[s].exc \in 0..Len(cause) \cup {Nothing}
  BY <1>1, <1>2, <1>3, <1>4, AppendSpan
<1>6. PICK n : n = Len(spans) + 1
  OBVIOUS
<1>7. n \in Nat /\ n \in DOMAIN spans' /\ stack \in Seq(Nat)
  BY <1>1, <1>5, <1>6 DEF TypeInv
<1>8. /\ stack' \in Seq(Nat) /\ Len(stack') = Len(stack) + 1 /\ DOMAIN stack' = 1..(Len(stack) + 1)
      /\ \A i \in 1..Len(stack) : stack'[i] = stack[i]
      /\ stack'[Len(stack) + 1] = n
  BY <1>2, <1>5, <1>6, <1>7, AppendOf
<1>9. TypeInv'
  <2>1. \A i \in DOMAIN stack' : stack'[i] \in DOMAIN spans'
    <3>1. ASSUME NEW i \in 1..Len(stack) PROVE stack'[i] \in DOMAIN spans'
      BY <1>3, <1>5, <1>8 DEF Grows
    <3>2. QED
      BY <1>3, <1>7, <1>8, <3>1
  <2>2. \A i \in DOMAIN caught' : caught'[i].exc \in Exceptions' /\ caught'[i].depth <= Len(stack')
    BY <1>1, <1>2, <1>3, <1>8, CaughtIs DEF Exceptions
  <2>3. \A c \in Exceptions' : origin'[c] \in DOMAIN spans' \cup {Nothing}
    BY <1>1, <1>2, <1>5 DEF TypeInv, Exceptions, Grows
  <2>4. QED
    BY <1>1, <1>2, <1>5, <1>8, <2>1, <2>2, <2>3 DEF TypeInv, Exceptions
<1>10. StackInv'
  <2>1. ASSUME NEW i \in DOMAIN stack'
        PROVE  spans'[stack'[i]].exc = Nothing /\ spans'[stack'[i]].parent = Below(i - 1)'
    <3>1. CASE i = Len(stack) + 1
      BY <1>3, <1>4, <1>5, <1>6, <1>8, <3>1 DEF Below
    <3>2. CASE i \in 1..Len(stack)
      <4>1. stack[i] \in DOMAIN spans /\ spans[stack[i]].exc = Nothing /\ spans[stack[i]].parent = Below(i - 1)
        BY <1>1, <1>3, <3>2 DEF TypeInv, StackInv
      <4>2. Below(i - 1)' = Below(i - 1)
        BY <1>3, <1>8, <3>2 DEF Below
      <4>3. QED
        BY <1>5, <1>8, <3>2, <4>1, <4>2 DEF Grows
    <3>3. QED
      BY <1>3, <1>8, <3>1, <3>2
  <2>2. ASSUME NEW i \in DOMAIN stack', NEW j \in DOMAIN stack', i < j PROVE stack'[i] < stack'[j]
    <3>1. CASE j \in 1..Len(stack)
      <4>1. i \in 1..Len(stack)
        BY <1>3, <1>8, <2>2, <3>1
      <4>2. QED
        BY <1>1, <1>3, <1>8, <2>2, <3>1, <4>1 DEF StackInv
    <3>2. CASE j = Len(stack) + 1
      <4>1. i \in 1..Len(stack)
        BY <1>3, <1>8, <2>2, <3>2
      <4>2. stack'[i] \in 1..Len(spans) /\ stack'[j] = n
        BY <1>3, <1>5, <1>8, <3>2, <4>1
      <4>3. QED
        BY <1>5, <1>6, <4>2
    <3>3. QED
      BY <1>3, <1>8, <3>1, <3>2
  <2>3. ASSUME NEW s \in DOMAIN spans', NEW i \in DOMAIN stack', spans'[s].parent = stack'[i] PROVE stack'[i] < s
    <3>1. spans'[s].parent \in DOMAIN spans \cup {Nothing}
      <4>1. CASE s \in DOMAIN spans
        BY <1>3, <1>5, <4>1 DEF Grows
      <4>2. CASE s = Len(spans) + 1
        BY <1>3, <1>4, <1>5, <4>2
      <4>3. QED
        BY <1>5, <4>1, <4>2
    <3>2. i \in 1..Len(stack)
      <4>1. n \notin DOMAIN spans /\ n # Nothing
        BY <1>5, <1>6, <1>7, TraceAssumption
      <4>2. i # Len(stack) + 1
        BY <1>8, <2>3, <3>1, <4>1
      <4>3. QED
        BY <1>3, <1>8, <4>2
    <3>3. CASE s \in DOMAIN spans
      <4>1. spans[s].parent = stack[i]
        BY <1>5, <1>8, <2>3, <3>2, <3>3 DEF Grows
      <4>2. stack[i] < s
        BY <1>1, <1>3, <3>2, <3>3, <4>1 DEF StackInv
      <4>3. QED
        BY <1>8, <3>2, <4>2
    <3>4. CASE s = n
      <4>1. stack'[i] \in 1..Len(spans)
        BY <1>3, <1>5, <1>8, <3>2
      <4>2. QED
        BY <1>5, <1>6, <3>4, <4>1
    <3>5. QED
      BY <1>5, <1>6, <3>3, <3>4
  <2>4. QED
    BY <2>1, <2>2, <2>3 DEF StackInv
<1>11. QED
  BY <1>1, <1>2, <1>5, <1>8, <1>9, <1>10, GrownKeeps

LEMMA RecordKeeps ==
    ASSUME TraceInv, Record
    PROVE  TraceInv'
<1>1. TypeInv /\ StackInv /\ ~trace.finished /\ flying = Nothing
  BY DEF TraceInv, Record, Steps
<1>2. PICK stage \in Business : spans' = Append(spans, [Span(Top, stage) EXCEPT !.status = "error"])
  BY DEF Record
<1>3. UNCHANGED <<stack, flying, caught, cause, trace, stored, origin, handled>>
  BY DEF Record
<1>4. /\ Len(stack) \in Nat /\ DOMAIN stack = 1..Len(stack)
      /\ Top \in DOMAIN spans \cup {Nothing} /\ DOMAIN spans \subseteq Nat
      /\ \A i \in 1..Len(stack) : stack[i] \in DOMAIN spans
  BY <1>1, TopIs
<1> DEFINE x == [Span(Top, stage) EXCEPT !.status = "error"]
<1>5. x \in SpanRows /\ x.exc = Nothing /\ x.parent = Top
  BY <1>4 DEF Span, SpanRows, Stage
<1>6. /\ Grows /\ spans' \in Seq(SpanRows) /\ DOMAIN spans' = 1..Len(spans) + 1 /\ Len(spans') = Len(spans) + 1
      /\ Len(spans) \in Nat /\ DOMAIN spans = 1..Len(spans) /\ spans'[Len(spans) + 1] = x
      /\ \A s \in DOMAIN spans' :
           spans'[s].parent \in DOMAIN spans' \cup {Nothing} /\ spans'[s].exc \in 0..Len(cause) \cup {Nothing}
  BY <1>1, <1>2, <1>3, <1>4, <1>5, AppendSpan
<1>7. TypeInv'
  BY <1>1, <1>3, <1>6 DEF TypeInv, Exceptions, Grows
<1>8. StackInv'
  <2>1. ASSUME NEW i \in DOMAIN stack
        PROVE  spans'[stack[i]].exc = Nothing /\ spans'[stack[i]].parent = Below(i - 1)
    BY <1>1, <1>6 DEF TypeInv, StackInv, Grows
  <2>2. ASSUME NEW s \in DOMAIN spans', NEW i \in DOMAIN stack, spans'[s].parent = stack[i] PROVE stack[i] < s
    <3>1. CASE s \in DOMAIN spans
      <4>1. spans[s].parent = stack[i]
        BY <1>6, <2>2, <3>1 DEF Grows
      <4>2. QED
        BY <1>1, <3>1, <4>1 DEF StackInv
    <3>2. CASE s = Len(spans) + 1
      <4>1. stack[i] \in 1..Len(spans)
        BY <1>4, <1>6
      <4>2. QED
        BY <1>6, <3>2, <4>1
    <3>3. QED
      BY <1>6, <3>1, <3>2
  <2>3. QED
    BY <1>1, <1>3, <2>1, <2>2 DEF StackInv, Below
<1>9. QED
  BY <1>1, <1>3, <1>6, <1>7, <1>8, GrownKeeps

LEMMA CloseSpanKeeps ==
    ASSUME TraceInv, CloseSpan
    PROVE  TraceInv'
<1>1. TypeInv /\ StackInv /\ WaysInv /\ LiveInv /\ RunInv /\ BlameInv /\ ~trace.finished /\ flying = Nothing
  BY DEF TraceInv, CloseSpan, Steps
<1>2. /\ stack # <<>> /\ stack' = Front(stack) /\ \A i \in DOMAIN caught : caught[i].depth < Len(stack)
      /\ UNCHANGED <<spans, flying, caught, cause, trace, stored, origin, handled>>
  BY DEF CloseSpan
<1>3. stack \in Seq(Nat) /\ Len(stack) \in Nat \ {0} /\ DOMAIN stack = 1..Len(stack)
  BY <1>1, <1>2 DEF TypeInv
<1>4. /\ stack' \in Seq(Nat) /\ Len(stack') = Len(stack) - 1 /\ DOMAIN stack' = 1..(Len(stack) - 1)
      /\ \A i \in 1..(Len(stack) - 1) : stack'[i] = stack[i]
  BY <1>2, <1>3, FrontOf
<1>5. TypeInv'
  <2>1. \A i \in DOMAIN caught : caught[i].exc \in Exceptions /\ caught[i].depth <= Len(stack')
    BY <1>1, <1>2, <1>3, <1>4, CaughtIs
  <2>2. \A i \in DOMAIN stack' : stack'[i] \in DOMAIN spans
    <3>1. DOMAIN stack' \subseteq 1..Len(stack)
      BY <1>3, <1>4
    <3>2. \A i \in 1..Len(stack) : stack[i] \in DOMAIN spans
      BY <1>1, TopIs
    <3>3. QED
      BY <1>4, <3>1, <3>2
  <2>3. QED
    BY <1>1, <1>2, <1>4, <2>1, <2>2 DEF TypeInv, Exceptions
<1>6. \A k \in 0..(Len(stack) - 1) : Below(k)' = Below(k)
  BY <1>3, <1>4 DEF Below
<1>7. StackInv'
  <2>1. DOMAIN stack' \subseteq DOMAIN stack /\ \A i \in DOMAIN stack' : i - 1 \in 0..(Len(stack) - 1)
    BY <1>3, <1>4
  <2>2. QED
    BY <1>1, <1>2, <1>4, <1>6, <2>1 DEF StackInv
<1>8. WaysInv'
  BY <1>1, <1>2 DEF WaysInv, OneWay, Through, Exceptions
<1>9. LiveInv'
  <2>1. ASSUME NEW i \in DOMAIN caught PROVE Rides(caught[i].exc, caught[i].depth)'
    <3>1. caught[i].depth \in 0..(Len(stack) - 1) /\ caught[i].exc \in Exceptions
      BY <1>1, <1>2, <1>3, CaughtIs
    <3>2. PICK c, k : c = caught[i].exc /\ k = caught[i].depth
      OBVIOUS
    <3>3. Rides(c, k) /\ Below(k)' = Below(k)
      BY <1>1, <1>6, <3>1, <3>2 DEF LiveInv
    <3>4. Rides(c, k)'
      BY <1>2, <3>3 DEF Rides, Through
    <3>5. caught'[i].exc = c /\ caught'[i].depth = k
      BY <1>2, <3>2
    <3>6. QED
      BY <3>4, <3>5 DEF Rides, Below
  <2>2. QED
    BY <1>1, <1>2, <2>1 DEF LiveInv
<1>10. RunInv'
  <2>1. \A s \in DOMAIN spans' : spans'[s].exc # Exits
    BY <1>1, <1>2 DEF RunInv
  <2>2. QED
    BY <1>1, <1>2, <2>1, RunStays
<1>11. BlameInv'
  BY <1>1, <1>2 DEF BlameInv, Chain, Through, Exceptions
<1>12. QED
  BY <1>5, <1>7, <1>8, <1>9, <1>10, <1>11 DEF TraceInv

-----------------------------------------------------------------------------
(* Steps that change no span *)

\* What a step keeps that only has to do with handlers.
LEMMA StillKeeps ==
    ASSUME TraceInv, UNCHANGED <<spans, stack, cause, origin>>,
           handled' \subseteq Exceptions,
           \A c \in handled' \ handled : \A s \in Through(c) : spans[s].parent # Nothing
    PROVE  /\ StackInv' /\ WaysInv' /\ TypeInv
           /\ \A c \in Exceptions, k \in 0..Len(stack) : Rides(c, k) /\ c \notin handled' => Rides(c, k)'
<1>1. TypeInv /\ StackInv /\ WaysInv
  BY DEF TraceInv
<1>2. Grows
  BY DEF Grows, Exceptions
<1>3. StackInv'
  BY <1>1 DEF StackInv, Below
<1>4. WaysInv'
  <2>1. ASSUME NEW c \in Exceptions PROVE OneWay(c)'
    <3>1. OneWay(c)
      BY <1>1 DEF WaysInv
    <3>2. c \in handled' => c \in handled \/ \A s \in Through(c) : spans[s].parent # Nothing
      OBVIOUS
    <3>3. QED
      BY <1>1, <1>2, <3>1, <3>2, OneWayGrows
  <2>2. QED
    BY <2>1 DEF WaysInv, Exceptions
<1>5. ASSUME NEW c \in Exceptions, NEW k \in 0..Len(stack), Rides(c, k), c \notin handled' PROVE Rides(c, k)'
  <2>1. Below(k)' = Below(k)
    BY DEF Below
  <2>2. QED
    BY <1>1, <1>2, <1>5, <2>1, RidesGrows
<1>6. QED
  BY <1>1, <1>3, <1>4, <1>5

LEMMA StillBlamed ==
    ASSUME TraceInv, UNCHANGED <<spans, cause, origin>>, trace'.error = trace.error, trace'.blamed = trace.blamed
    PROVE  BlameInv'
  BY DEF TraceInv, BlameInv, Through, Chain, Exceptions

\* The live exceptions of the handlers.
LEMMA CaughtRides ==
    ASSUME TraceInv, NEW i \in DOMAIN caught
    PROVE  \E c \in Exceptions, k \in 0..Len(stack) : c = caught[i].exc /\ k = caught[i].depth /\ Rides(c, k)
  BY CaughtIs DEF TraceInv, LiveInv

LEMMA CatchKeeps ==
    ASSUME TraceInv, Catch
    PROVE  TraceInv'
<1>1. TypeInv /\ LiveInv /\ RunInv /\ ~trace.finished /\ flying # Nothing
  BY DEF TraceInv, Catch
<1>2. PICK outer \in 0..Len(caught) :
        caught' = Append(SubSeq(caught, 1, outer), [exc |-> flying, depth |-> Len(stack)])
  BY DEF Catch
<1>3. flying' = Nothing /\ UNCHANGED <<spans, stack, cause, trace, stored, origin, handled>>
  BY DEF Catch
<1>4. StackInv' /\ WaysInv'
  BY <1>1, <1>3, StillKeeps DEF TypeInv
<1>5. \A c \in Exceptions, k \in 0..Len(stack) : Rides(c, k) /\ c \notin handled => Rides(c, k)'
  BY <1>1, <1>3, StillKeeps DEF TypeInv
<1>6. PICK f, n : f = flying /\ n = Len(stack)
  OBVIOUS
<1>7. f \in Exceptions /\ f \in Nat /\ n \in Nat /\ n \in 0..Len(stack) /\ Rides(f, n)
  BY <1>1, <1>6, ExceptionIsNat, TopIs DEF TypeInv, LiveInv
<1>8. caught \in Seq(Handlers) /\ Len(caught) \in Nat /\ DOMAIN caught = 1..Len(caught)
  BY <1>1 DEF TypeInv
<1>9. PICK q : q = SubSeq(caught, 1, outer)
  OBVIOUS
<1>10. q \in Seq(Handlers) /\ Len(q) = outer /\ DOMAIN q = 1..outer /\ \A i \in 1..outer : q[i] = caught[i]
  BY <1>8, <1>9, PrefixOf
<1>11. PICK h : h = [exc |-> f, depth |-> n]
  OBVIOUS
<1>12. h \in Handlers /\ h.exc = f /\ h.depth = n
  BY <1>7, <1>11 DEF Handlers
<1>13. caught' = Append(q, h)
  BY <1>2, <1>6, <1>9, <1>11
<1>14. /\ caught' \in Seq(Handlers) /\ Len(caught') = outer + 1 /\ DOMAIN caught' = 1..(outer + 1)
       /\ \A i \in 1..outer : caught'[i] = q[i]
       /\ caught'[outer + 1] = h
  BY <1>10, <1>12, <1>13, AppendOf
<1>15. \A i \in 1..outer : i \in DOMAIN caught /\ caught'[i] = caught[i]
  BY <1>8, <1>10, <1>14
<1>16. \A i \in 1..outer : caught[i].exc \in Exceptions /\ caught[i].exc # f /\ caught[i].depth \in 0..n
  BY <1>1, <1>6, <1>15, CaughtIs DEF LiveInv
<1>17. TypeInv'
  <2>1. ASSUME NEW i \in DOMAIN caught' PROVE caught'[i].exc \in Exceptions /\ caught'[i].depth <= n
    <3>1. CASE i \in 1..outer
      BY <1>7, <1>15, <1>16, <3>1
    <3>2. CASE i = outer + 1
      BY <1>7, <1>12, <1>14, <3>2
    <3>3. QED
      BY <1>14, <3>1, <3>2
  <2>2. QED
    BY <1>1, <1>3, <1>6, <1>14, <2>1 DEF TypeInv, Exceptions
<1>18. LiveInv'
  <2>1. ASSUME NEW i \in DOMAIN caught' PROVE Rides(caught[i].exc, caught[i].depth)'
    <3>1. CASE i \in 1..outer
      <4>1. PICK c \in Exceptions, k \in 0..Len(stack) : c = caught[i].exc /\ k = caught[i].depth /\ Rides(c, k)
        BY <1>15, <3>1, CaughtRides
      <4>2. Rides(c, k)'
        BY <1>5, <4>1 DEF Rides
      <4>3. caught'[i].exc = c /\ caught'[i].depth = k
        BY <1>15, <3>1, <4>1
      <4>4. QED
        BY <4>2, <4>3 DEF Rides, Below
    <3>2. CASE i = outer + 1
      <4>1. Rides(f, n)'
        BY <1>5, <1>7 DEF Rides
      <4>2. caught'[i].exc = f /\ caught'[i].depth = n
        BY <1>12, <1>14, <3>2
      <4>3. QED
        BY <4>1, <4>2 DEF Rides, Below
    <3>3. QED
      BY <1>14, <3>1, <3>2
  <2>2. ASSUME NEW i \in DOMAIN caught', NEW j \in DOMAIN caught', i < j
        PROVE  caught'[i].exc # caught'[j].exc /\ caught'[i].depth <= caught'[j].depth
    <3>1. i \in 1..outer
      BY <1>14, <2>2
    <3>2. CASE j \in 1..outer
      BY <1>1, <1>15, <2>2, <3>1, <3>2 DEF LiveInv
    <3>3. CASE j = outer + 1
      BY <1>7, <1>12, <1>14, <1>15, <1>16, <3>1, <3>3
    <3>4. QED
      BY <1>14, <3>2, <3>3
  <2>3. QED
    BY <1>3, <2>1, <2>2 DEF LiveInv
<1>19. RunInv'
  BY <1>1, <1>3, RunStays DEF RunInv
<1>20. BlameInv'
  BY <1>3, StillBlamed
<1>21. QED
  BY <1>4, <1>17, <1>18, <1>19, <1>20 DEF TraceInv

\* The handler that is done, and those around it.
LEMMA LastOf ==
    ASSUME TraceInv, caught # <<>>, caught' = Front(caught), Last(caught).depth = Len(stack)
    PROVE  \E c \in Exceptions :
             /\ c = Last(caught).exc /\ Rides(c, Len(stack))
             /\ caught' \in Seq(Handlers) /\ DOMAIN caught' \subseteq DOMAIN caught
             /\ \A i \in DOMAIN caught' : caught'[i] = caught[i] /\ caught[i].exc # c
<1>1. TypeInv /\ LiveInv /\ caught \in Seq(Handlers) /\ DOMAIN caught = 1..Len(caught)
  BY DEF TraceInv, TypeInv
<1>2. /\ Len(caught) \in Nat \ {0} /\ caught' \in Seq(Handlers) /\ DOMAIN caught' = 1..(Len(caught) - 1)
      /\ \A i \in 1..(Len(caught) - 1) : caught'[i] = caught[i]
      /\ Last(caught) = caught[Len(caught)]
  BY <1>1, FrontOf
<1>3. PICK n : n = Len(caught)
  OBVIOUS
<1>4. n \in DOMAIN caught /\ \A i \in DOMAIN caught' : i \in DOMAIN caught /\ i < n
  BY <1>1, <1>2, <1>3
<1>5. PICK c \in Exceptions, k \in 0..Len(stack) : c = caught[n].exc /\ k = caught[n].depth /\ Rides(c, k)
  BY <1>4, CaughtRides
<1>6. k = Len(stack)
  BY <1>2, <1>3, <1>5
<1>7. \A i \in DOMAIN caught' : caught[i].exc # c
  BY <1>1, <1>4, <1>5 DEF LiveInv
<1>8. QED
  BY <1>2, <1>3, <1>4, <1>5, <1>6, <1>7

\* The handlers that stay, when the others are untouched.
LEMMA HandlersStay ==
    ASSUME TraceInv, UNCHANGED <<spans, stack, cause, origin>>, caught' \in Seq(Handlers),
           DOMAIN caught' \subseteq DOMAIN caught, \A i \in DOMAIN caught' : caught'[i] = caught[i],
           handled' \subseteq Exceptions, flying' \in Exceptions \cup {Nothing},
           \A c \in handled' \ handled : \A s \in Through(c) : spans[s].parent # Nothing,
           \A i \in DOMAIN caught' : caught[i].exc \notin handled'
    PROVE  /\ TypeInv' /\ StackInv' /\ WaysInv'
           /\ \A i \in DOMAIN caught' : Rides(caught[i].exc, caught[i].depth)'
           /\ \A i, j \in DOMAIN caught' :
                i < j => caught'[i].exc # caught'[j].exc /\ caught'[i].depth <= caught'[j].depth
<1>1. StackInv' /\ WaysInv' /\ TypeInv
  BY StillKeeps
<1>2. \A c \in Exceptions, k \in 0..Len(stack) : Rides(c, k) /\ c \notin handled' => Rides(c, k)'
  BY StillKeeps
<1>3. TypeInv'
  BY <1>1 DEF TypeInv, Exceptions
<1>4. ASSUME NEW i \in DOMAIN caught' PROVE Rides(caught[i].exc, caught[i].depth)'
  <2>1. PICK c \in Exceptions, k \in 0..Len(stack) : c = caught[i].exc /\ k = caught[i].depth /\ Rides(c, k)
    BY CaughtRides
  <2>2. Rides(c, k)'
    BY <1>2, <2>1
  <2>3. caught'[i].exc = c /\ caught'[i].depth = k
    BY <2>1
  <2>4. QED
    BY <2>2, <2>3 DEF Rides, Below
<1>5. \A i, j \in DOMAIN caught' :
        i < j => caught'[i].exc # caught'[j].exc /\ caught'[i].depth <= caught'[j].depth
  BY DEF TraceInv, LiveInv
<1>6. QED
  BY <1>1, <1>3, <1>4, <1>5

LEMMA HandledKeeps ==
    ASSUME TraceInv, Handled
    PROVE  TraceInv'
<1>1. TypeInv /\ LiveInv /\ RunInv /\ ~trace.finished /\ flying = Nothing
  BY DEF TraceInv, Handled, Steps
<1>2. /\ caught # <<>> /\ Last(caught).depth = Len(stack) /\ caught' = Front(caught)
      /\ handled' = IF stack = <<>> THEN handled ELSE handled \cup {Last(caught).exc}
      /\ UNCHANGED <<spans, stack, flying, cause, trace, stored, origin>>
  BY DEF Handled
<1>3. PICK c \in Exceptions :
        /\ c = Last(caught).exc /\ Rides(c, Len(stack))
        /\ caught' \in Seq(Handlers) /\ DOMAIN caught' \subseteq DOMAIN caught
        /\ \A i \in DOMAIN caught' : caught'[i] = caught[i] /\ caught[i].exc # c
  BY <1>2, LastOf
<1>4. handled \subseteq Exceptions /\ handled' \subseteq handled \cup {c}
  BY <1>1, <1>2, <1>3 DEF TypeInv
<1>5. ASSUME NEW d \in handled' \ handled PROVE \A s \in Through(d) : spans[s].parent # Nothing
  <2>1. d = c /\ stack # <<>>
    BY <1>2, <1>4
  <2>2. Below(Len(stack)) \in DOMAIN spans /\ Nothing \notin DOMAIN spans
    BY <1>1, <2>1, TopIs
  <2>3. QED
    BY <1>3, <2>1, <2>2 DEF Rides, Through
<1>6. \A i \in DOMAIN caught' : caught[i].exc \notin handled'
  BY <1>1, <1>3, <1>4 DEF LiveInv, Rides
<1>7. /\ TypeInv' /\ StackInv' /\ WaysInv'
      /\ \A i \in DOMAIN caught' : Rides(caught[i].exc, caught[i].depth)'
      /\ \A i, j \in DOMAIN caught' :
           i < j => caught'[i].exc # caught'[j].exc /\ caught'[i].depth <= caught'[j].depth
  BY <1>1, <1>2, <1>3, <1>4, <1>5, <1>6, HandlersStay
<1>8. LiveInv'
  BY <1>1, <1>2, <1>7 DEF LiveInv
<1>9. RunInv'
  BY <1>1, <1>2, RunStays DEF RunInv
<1>10. BlameInv'
  BY <1>2, StillBlamed
<1>11. QED
  BY <1>7, <1>8, <1>9, <1>10 DEF TraceInv

LEMMA RaiseAgainKeeps ==
    ASSUME TraceInv, RaiseAgain
    PROVE  TraceInv'
<1>1. TypeInv /\ LiveInv /\ RunInv /\ ~trace.finished /\ flying = Nothing
  BY DEF TraceInv, RaiseAgain, Steps
<1>2. /\ caught # <<>> /\ Last(caught).depth = Len(stack) /\ caught' = Front(caught)
      /\ flying' = Last(caught).exc
      /\ UNCHANGED <<spans, stack, cause, trace, stored, origin, handled>>
  BY DEF RaiseAgain
<1>3. PICK c \in Exceptions :
        /\ c = Last(caught).exc /\ Rides(c, Len(stack))
        /\ caught' \in Seq(Handlers) /\ DOMAIN caught' \subseteq DOMAIN caught
        /\ \A i \in DOMAIN caught' : caught'[i] = caught[i] /\ caught[i].exc # c
  BY <1>2, LastOf
<1>4. handled' \subseteq Exceptions /\ c \notin handled'
  BY <1>1, <1>2, <1>3 DEF TypeInv, Rides
<1>5. \A i \in DOMAIN caught' : caught[i].exc \notin handled'
  BY <1>1, <1>2, <1>3 DEF LiveInv, Rides
<1>6. flying' \in Exceptions \cup {Nothing}
  BY <1>2, <1>3
<1>7. \A d \in handled' \ handled : \A s \in Through(d) : spans[s].parent # Nothing
  BY <1>2
<1>8. /\ TypeInv' /\ StackInv' /\ WaysInv'
      /\ \A i \in DOMAIN caught' : Rides(caught[i].exc, caught[i].depth)'
      /\ \A i, j \in DOMAIN caught' :
           i < j => caught'[i].exc # caught'[j].exc /\ caught'[i].depth <= caught'[j].depth
  BY <1>2, <1>3, <1>4, <1>5, <1>6, <1>7, HandlersStay
<1>9. Rides(flying, Len(stack))'
  <2>1. PICK n : n = Len(stack)
    OBVIOUS
  <2>2. n \in 0..Len(stack) /\ Rides(c, n)
    BY <1>1, <1>3, <2>1, TopIs
  <2>3. \A d \in Exceptions, k \in 0..Len(stack) : Rides(d, k) /\ d \notin handled' => Rides(d, k)'
    BY <1>2, <1>4, <1>7, StillKeeps
  <2>4. Rides(c, n)'
    BY <1>4, <2>2, <2>3
  <2>5. flying' = c /\ Len(stack') = n
    BY <1>2, <1>3, <2>1
  <2>6. QED
    BY <2>4, <2>5 DEF Rides, Below
<1>10. LiveInv'
  <2>1. \A i \in DOMAIN caught' : caught'[i].exc # flying'
    BY <1>2, <1>3
  <2>2. QED
    BY <1>8, <1>9, <2>1 DEF LiveInv
<1>11. RunInv'
  BY <1>1, <1>2, RunStays DEF RunInv
<1>12. BlameInv'
  BY <1>2, StillBlamed
<1>13. QED
  BY <1>8, <1>10, <1>11, <1>12 DEF TraceInv

-----------------------------------------------------------------------------
(* Steps that change spans *)

\* A new exception: nothing was left through it yet.
LEMMA RaiseKeeps ==
    ASSUME TraceInv, Raise
    PROVE  TraceInv'
<1>1. /\ TypeInv /\ StackInv /\ WaysInv /\ LiveInv /\ RunInv /\ BlameInv
      /\ ~trace.finished /\ flying = Nothing
  BY DEF TraceInv, Raise, Steps
<1>2. PICK behind \in {IF caught = <<>> THEN Nothing ELSE Last(caught).exc} \cup DOMAIN cause :
        cause' = Append(cause, behind)
  BY DEF Raise
<1>3. /\ origin' = Append(origin, Top) /\ flying' = Len(cause')
      /\ UNCHANGED <<spans, stack, caught, trace, stored, handled>>
  BY DEF Raise
<1>4. /\ Len(cause) \in Nat /\ cause \in Seq(Nat \cup {Nothing}) /\ DOMAIN cause = 1..Len(cause)
      /\ origin \in Seq(Nat \cup {Nothing}) /\ Len(origin) = Len(cause)
      /\ caught \in Seq(Handlers) /\ DOMAIN caught = 1..Len(caught)
  BY <1>1 DEF TypeInv
<1>5. behind \in Nat \cup {Nothing}
  <2>1. CASE caught # <<>>
    <3>1. Len(caught) \in DOMAIN caught /\ Last(caught) = caught[Len(caught)]
      BY <1>4, <2>1 DEF Last
    <3>2. Last(caught).exc \in Nat
      BY <1>1, <3>1, CaughtIs, ExceptionIsNat
    <3>3. QED
      BY <1>2, <1>4, <3>2
  <2>2. QED
    BY <1>2, <1>4, <2>1
<1>6. /\ Len(stack) \in Nat /\ Top = Below(Len(stack)) /\ Top \in DOMAIN spans \cup {Nothing}
      /\ DOMAIN spans \subseteq Nat
  BY <1>1, TopIs
<1>7. PICK e : e = Len(cause) + 1
  OBVIOUS
<1>8. /\ cause' \in Seq(Nat \cup {Nothing}) /\ Len(cause') = e
      /\ \A c \in 1..Len(cause) : cause'[c] = cause[c]
  BY <1>2, <1>4, <1>5, <1>7, AppendOf
<1>9. /\ origin' \in Seq(Nat \cup {Nothing}) /\ Len(origin') = e
      /\ \A c \in 1..Len(cause) : origin'[c] = origin[c]
      /\ origin'[e] = Top
  <2>1. Top \in Nat \cup {Nothing}
    BY <1>6
  <2>2. QED
    BY <1>3, <1>4, <1>7, <2>1, AppendOf
<1>10. /\ Exceptions' = Exceptions \cup {e} /\ e \notin Exceptions /\ e \in Nat /\ e # Nothing
       /\ e \notin 0..Len(cause)
  BY <1>4, <1>7, <1>8, TraceAssumption DEF Exceptions
<1>11. Grows
  BY <1>3, <1>8, <1>9, <1>10 DEF Grows, Exceptions
<1>12. Through(e)' = {}
  BY <1>1, <1>3, <1>10 DEF TypeInv, Through
<1>13. TypeInv'
  <2>1. ASSUME NEW s \in DOMAIN spans'
        PROVE  spans'[s].parent \in DOMAIN spans' \cup {Nothing} /\ spans'[s].exc \in 0..Len(cause') \cup {Nothing}
    <3>1. spans[s].parent \in DOMAIN spans \cup {Nothing} /\ spans[s].exc \in 0..Len(cause) \cup {Nothing}
      BY <1>1, <1>3 DEF TypeInv
    <3>2. 0..Len(cause) \subseteq 0..Len(cause')
      BY <1>4, <1>7, <1>8
    <3>3. QED
      BY <1>3, <3>1, <3>2
  <2>2. \A i \in DOMAIN caught' : caught'[i].exc \in Exceptions' /\ caught'[i].depth <= Len(stack')
    BY <1>1, <1>3, <1>10 DEF TypeInv
  <2>3. \A c \in Exceptions' : origin'[c] \in DOMAIN spans' \cup {Nothing}
    <3>1. \A c \in Exceptions : origin[c] \in DOMAIN spans \cup {Nothing}
      BY <1>1 DEF TypeInv
    <3>2. QED
      BY <1>3, <1>6, <1>9, <1>10, <3>1 DEF Exceptions
  <2>4. flying' \in Exceptions' \cup {Nothing} /\ handled' \subseteq Exceptions'
    BY <1>1, <1>3, <1>8, <1>10 DEF TypeInv
  <2>5. spans' \in Seq(SpanRows) /\ stack' \in Seq(Nat) /\ (\A i \in DOMAIN stack' : stack'[i] \in DOMAIN spans')
        /\ caught' \in Seq(Handlers)
    BY <1>1, <1>3 DEF TypeInv
  <2>6. QED
    BY <1>8, <1>9, <2>1, <2>2, <2>3, <2>4, <2>5 DEF TypeInv
<1>14. StackInv'
  BY <1>1, <1>3 DEF StackInv, Below
<1>15. WaysInv'
  <2>1. ASSUME NEW c \in Exceptions PROVE OneWay(c)'
    BY <1>1, <1>3, <1>11, OneWayGrows DEF WaysInv
  <2>2. OneWay(e)'
    BY <1>12 DEF OneWay
  <2>3. QED
    BY <1>10, <2>1, <2>2 DEF WaysInv
<1>16. LiveInv'
  <2>1. ASSUME NEW i \in DOMAIN caught PROVE Rides(caught[i].exc, caught[i].depth)'
    <3>1. PICK c \in Exceptions, k \in 0..Len(stack) : c = caught[i].exc /\ k = caught[i].depth /\ Rides(c, k)
      BY CaughtRides
    <3>2. Below(k)' = Below(k) /\ c \notin handled'
      BY <1>3, <3>1 DEF Below, Rides
    <3>3. Rides(c, k)'
      BY <1>1, <1>11, <3>1, <3>2, RidesGrows
    <3>4. caught'[i].exc = c /\ caught'[i].depth = k
      BY <1>3, <3>1
    <3>5. QED
      BY <3>3, <3>4 DEF Rides, Below
  <2>2. Rides(flying, Len(stack))'
    <3>1. e \notin handled'
      BY <1>1, <1>3, <1>10 DEF TypeInv
    <3>2. PICK n : n = Len(stack)
      OBVIOUS
    <3>3. Below(n)' = Below(n)
      BY <1>3 DEF Below
    <3>4. Rides(e, n)'
      BY <1>6, <1>9, <1>12, <3>1, <3>2, <3>3 DEF Rides
    <3>5. flying' = e /\ Len(stack') = n
      BY <1>3, <1>8, <3>2
    <3>6. QED
      BY <3>4, <3>5 DEF Rides, Below
  <2>3. \A i \in DOMAIN caught' : caught'[i].exc # flying'
    BY <1>1, <1>3, <1>8, <1>10 DEF TypeInv
  <2>4. QED
    BY <1>1, <1>3, <2>1, <2>2, <2>3 DEF LiveInv
<1>17. RunInv'
  BY <1>1, <1>3, RunStays DEF RunInv
<1>18. BlameInv'
  <2>1. \A c \in Exceptions : Through(c)' = Through(c)
    BY <1>3 DEF Through
  <2>2. \A c \in Exceptions : cause'[c] = cause[c] /\ origin'[c] = origin[c]
    BY <1>8, <1>9 DEF Exceptions
  <2>3. QED
    BY <1>1, <1>3, <1>10, <2>1, <2>2, BlameGrows
<1>19. QED
  BY <1>13, <1>14, <1>15, <1>16, <1>17, <1>18 DEF TraceInv

\* What Regroup makes of the spans: some that stood in the innermost open one stand in a new one.
LEMMA RegroupSpans ==
    ASSUME TypeInv, Regroup
    PROVE  /\ spans' \in Seq(SpanRows) /\ Len(spans') = Len(spans) + 1 /\ DOMAIN spans' = 1..Len(spans) + 1
           /\ Len(spans) + 1 \in Nat /\ DOMAIN spans = 1..Len(spans)
           /\ \A s \in DOMAIN spans :
                /\ spans'[s].exc = spans[s].exc /\ spans'[s].tells = spans[s].tells
                /\ spans'[s].parent = spans[s].parent \/ (spans[s].parent = Top /\ spans'[s].parent = Len(spans) + 1)
           /\ spans'[Len(spans) + 1].exc = Nothing /\ spans'[Len(spans) + 1].parent = Top
<1>1. PICK stage \in Business :
        spans' = [s \in 1..Len(spans) + 1 |->
                   IF s > Len(spans) THEN Span(Top, stage)
                   ELSE IF spans[s].parent = Top /\ spans[s].stage = "llm_call"
                        THEN [spans[s] EXCEPT !.parent = Len(spans) + 1] ELSE spans[s]]
  BY DEF Regroup
<1>2. spans \in Seq(SpanRows) /\ Len(spans) \in Nat /\ DOMAIN spans = 1..Len(spans)
  BY DEF TypeInv
<1>3. Top \in Nat \cup {Nothing}
  BY TopIs
<1>4. PICK n : n = Len(spans) + 1
  OBVIOUS
<1>5. n \in Nat /\ DOMAIN spans' = 1..n /\ 1..n = DOMAIN spans \cup {n} /\ n \notin DOMAIN spans
  BY <1>1, <1>2, <1>4
<1>6. spans'[n] = Span(Top, stage)
  BY <1>1, <1>2, <1>4
<1>7. ASSUME NEW s \in DOMAIN spans
      PROVE  spans'[s] = spans[s] \/ (spans[s].parent = Top /\ spans'[s] = [spans[s] EXCEPT !.parent = n])
  BY <1>1, <1>2, <1>4
<1>8. ASSUME NEW s \in DOMAIN spans
      PROVE  /\ spans'[s] \in SpanRows /\ spans'[s].exc = spans[s].exc /\ spans'[s].tells = spans[s].tells
             /\ spans'[s].parent = spans[s].parent \/ (spans[s].parent = Top /\ spans'[s].parent = n)
  <2>1. PICK r \in SpanRows : r = spans[s]
    BY <1>2
  <2>2. PICK moved : moved = [r EXCEPT !.parent = n]
    OBVIOUS
  <2>3. moved \in SpanRows /\ moved.exc = r.exc /\ moved.tells = r.tells /\ moved.parent = n
    BY <1>5, <2>1, <2>2 DEF SpanRows
  <2>4. spans'[s] = r \/ (r.parent = Top /\ spans'[s] = moved)
    BY <1>7, <2>1, <2>2
  <2>5. QED
    BY <2>1, <2>3, <2>4
<1>9. spans'[n] \in SpanRows /\ spans'[n].exc = Nothing /\ spans'[n].parent = Top
  BY <1>3, <1>6 DEF Span, SpanRows, Stage
<1>10. spans' = [s \in 1..n |-> spans'[s]]
  BY <1>1, <1>4
<1>11. \A s \in 1..n : spans'[s] \in SpanRows
  BY <1>5, <1>8, <1>9
<1>12. spans' \in Seq(SpanRows) /\ Len(spans') = n
  BY <1>5, <1>10, <1>11
<1>13. QED
  BY <1>2, <1>4, <1>5, <1>8, <1>9, <1>12

LEMMA RegroupKeeps ==
    ASSUME TraceInv, Regroup
    PROVE  TraceInv'
<1>1. /\ TypeInv /\ StackInv /\ WaysInv /\ LiveInv /\ RunInv /\ BlameInv
      /\ ~trace.finished /\ flying = Nothing
  BY DEF TraceInv, Regroup, Steps
<1>2. /\ stack # <<>> /\ caught = <<>>
      /\ UNCHANGED <<stack, flying, caught, cause, trace, stored, origin, handled>>
  BY DEF Regroup
<1>3. PICK n : n = Len(spans) + 1
  OBVIOUS
<1>4. /\ spans' \in Seq(SpanRows) /\ Len(spans') = n /\ DOMAIN spans' = 1..n /\ n \in Nat
      /\ DOMAIN spans = 1..Len(spans)
      /\ \A s \in DOMAIN spans :
           /\ spans'[s].exc = spans[s].exc /\ spans'[s].tells = spans[s].tells
           /\ spans'[s].parent = spans[s].parent \/ (spans[s].parent = Top /\ spans'[s].parent = n)
      /\ spans'[n].exc = Nothing /\ spans'[n].parent = Top
  BY <1>1, <1>3, RegroupSpans
<1>5. /\ Len(stack) \in Nat /\ DOMAIN stack = 1..Len(stack) /\ Len(stack) \in DOMAIN stack
      /\ Top = stack[Len(stack)] /\ Top \in DOMAIN spans /\ DOMAIN spans \subseteq Nat
      /\ Nothing \notin Nat /\ Len(spans) \in Nat
      /\ \A i \in 1..Len(stack) : stack[i] \in DOMAIN spans
      /\ \A s \in DOMAIN spans : spans[s].parent \in DOMAIN spans \cup {Nothing}
  BY <1>1, <1>2, TopIs
<1>6. DOMAIN spans' = DOMAIN spans \cup {n} /\ n \notin DOMAIN spans /\ n # Nothing
  BY <1>3, <1>4, <1>5
<1>7. spans[Top].exc = Nothing
  BY <1>1, <1>5 DEF StackInv
<1>8. \A c \in Exceptions : Through(c)' = Through(c) /\ Top \notin Through(c) /\ n \notin Through(c)
  <2>1. ASSUME NEW c \in Exceptions
        PROVE  Through(c)' = Through(c) /\ Top \notin Through(c) /\ n \notin Through(c)
    <3>1. c # Nothing
      BY <1>1, ExceptionIsNat
    <3>2. ASSUME NEW s \in DOMAIN spans' PROVE spans'[s].exc = c <=> s \in DOMAIN spans /\ spans[s].exc = c
      BY <1>4, <1>6, <3>1
    <3>3. Through(c)' = Through(c)
      BY <1>6, <3>2 DEF Through
    <3>4. QED
      BY <1>6, <1>7, <3>1, <3>3 DEF Through
  <2>2. QED
    BY <2>1
<1>9. TypeInv'
  <2>1. ASSUME NEW s \in DOMAIN spans'
        PROVE  spans'[s].parent \in DOMAIN spans' \cup {Nothing} /\ spans'[s].exc \in 0..Len(cause) \cup {Nothing}
    <3>1. CASE s \in DOMAIN spans
      BY <1>1, <1>4, <1>5, <1>6, <3>1 DEF TypeInv
    <3>2. CASE s = n
      BY <1>4, <1>5, <1>6, <3>2
    <3>3. QED
      BY <1>6, <3>1, <3>2
  <2>2. \A c \in Exceptions : origin[c] \in DOMAIN spans' \cup {Nothing}
    BY <1>1, <1>6 DEF TypeInv
  <2>3. \A i \in DOMAIN stack : stack[i] \in DOMAIN spans'
    BY <1>5, <1>6
  <2>4. QED
    BY <1>1, <1>2, <1>4, <2>1, <2>2, <2>3 DEF TypeInv, Exceptions
<1>10. StackInv'
  <2>1. ASSUME NEW i \in DOMAIN stack
        PROVE  spans'[stack[i]].exc = Nothing /\ spans'[stack[i]].parent = Below(i - 1)
    <3>1. PICK s \in DOMAIN spans : s = stack[i]
      BY <1>5
    <3>2. spans[s].exc = Nothing /\ spans[s].parent = Below(i - 1)
      BY <1>1, <3>1 DEF StackInv
    <3>3. Below(i - 1) # Top
      <4>1. CASE i = 1
        BY <1>5, <4>1 DEF Below
      <4>2. CASE i # 1
        <5>1. i - 1 \in DOMAIN stack /\ i - 1 < Len(stack)
          BY <1>5, <4>2
        <5>2. stack[i - 1] < stack[Len(stack)]
          BY <1>1, <1>5, <5>1 DEF StackInv
        <5>3. stack[i - 1] \in Nat /\ stack[Len(stack)] \in Nat
          BY <1>5, <5>1
        <5>4. Below(i - 1) = stack[i - 1]
          BY <1>5, <4>2 DEF Below
        <5>5. QED
          BY <1>5, <5>2, <5>3, <5>4
      <4>3. QED
        BY <4>1, <4>2
    <3>4. QED
      BY <1>4, <3>1, <3>2, <3>3
  <2>2. ASSUME NEW s \in DOMAIN spans', NEW i \in DOMAIN stack, spans'[s].parent = stack[i] PROVE stack[i] < s
    <3>1. CASE s \in DOMAIN spans
      <4>1. spans[s].parent = stack[i]
        BY <1>4, <1>5, <1>6, <2>2, <3>1
      <4>2. QED
        BY <1>1, <3>1, <4>1 DEF StackInv
    <3>2. CASE s = n
      <4>1. stack[i] \in 1..Len(spans)
        BY <1>4, <1>5
      <4>2. QED
        BY <1>3, <1>5, <3>2, <4>1
    <3>3. QED
      BY <1>6, <3>1, <3>2
  <2>3. QED
    BY <1>1, <1>2, <2>1, <2>2 DEF StackInv, Below
<1>11. ASSUME NEW c \in Exceptions, NEW s \in Through(c)
       PROVE  /\ spans'[s].tells = spans[s].tells
              /\ \A o \in Through(c) : spans'[s].parent = o <=> spans[s].parent = o
              /\ spans'[s].parent \in Through(c) <=> spans[s].parent \in Through(c)
              /\ spans[s].parent \in Through(c) => spans'[s].parent = spans[s].parent
              /\ spans'[s].parent = Nothing <=> spans[s].parent = Nothing
  <2>1. s \in DOMAIN spans
    BY DEF Through
  <2>2. spans'[s].parent = spans[s].parent \/ (spans[s].parent = Top /\ spans'[s].parent = n)
    BY <1>4, <2>1
  <2>3. Top # Nothing /\ Top \notin Through(c) /\ n \notin Through(c)
    BY <1>5, <1>8
  <2>4. QED
    BY <1>4, <1>6, <2>1, <2>2, <2>3
<1>12. WaysInv'
  <2>1. ASSUME NEW c \in Exceptions PROVE OneWay(c)'
    <3>1. PICK S : S = Through(c)
      OBVIOUS
    <3>2. Through(c)' = S /\ origin'[c] = origin[c] /\ handled' = handled /\ OneWay(c)
      BY <1>1, <1>2, <1>8, <3>1 DEF WaysInv
    <3>3. /\ S # {} => origin[c] \in S /\ \A o \in S : spans'[o].parent # origin[c]
          /\ \A s \in S : s # origin[c] => \E o \in S : spans'[o].parent = s
      BY <1>11, <3>1, <3>2 DEF OneWay
    <3>4. /\ \A s, t \in S : spans'[s].parent \notin S /\ spans'[t].parent \notin S => s = t
          /\ \A s \in S : spans'[s].parent \in S => spans'[s].parent < s
      BY <1>11, <3>1, <3>2 DEF OneWay
    <3>5. /\ \A s \in S : spans'[s].tells <=> s = origin[c]
          /\ c \in handled => \A s \in S : spans'[s].parent # Nothing
      BY <1>11, <3>1, <3>2 DEF OneWay
    <3>6. QED
      BY <3>2, <3>3, <3>4, <3>5 DEF OneWay
  <2>2. QED
    BY <1>2, <2>1 DEF WaysInv, Exceptions
<1>13. LiveInv'
  BY <1>1, <1>2 DEF LiveInv
<1>14. RunInv'
  <2>1. \A s \in DOMAIN spans' : spans'[s].exc # Exits
    <3>1. \A s \in DOMAIN spans : spans'[s].exc # Exits
      BY <1>1, <1>4 DEF RunInv
    <3>2. spans'[n].exc # Exits
      BY <1>4, <1>5 DEF Exits
    <3>3. QED
      BY <1>6, <3>1, <3>2
  <2>2. QED
    BY <1>1, <1>2, <2>1, RunStays
<1>15. BlameInv'
  <2>1. ASSUME NEW c \in Exceptions, NEW s \in Through(c), spans[s].parent = Nothing
        PROVE  s \in Through(c)' /\ spans'[s].parent = Nothing
    BY <1>8, <1>11, <2>1
  <2>2. Exceptions \subseteq Exceptions' /\ \A c \in Exceptions : cause'[c] = cause[c] /\ origin'[c] = origin[c]
    BY <1>2 DEF Exceptions
  <2>3. QED
    BY <1>1, <1>2, <2>1, <2>2, BlameGrows
<1>16. QED
  BY <1>9, <1>10, <1>12, <1>13, <1>14, <1>15 DEF TraceInv

\* What an exception does to the span that it leaves.
LEMMA UnwindSpans ==
    ASSUME TypeInv, Unwind
    PROVE  /\ spans' \in Seq(SpanRows) /\ DOMAIN spans' = DOMAIN spans
           /\ \A s \in DOMAIN spans : s # Top => spans'[s] = spans[s]
           /\ spans'[Top].parent = spans[Top].parent /\ spans'[Top].exc = flying
           /\ spans'[Top].tells <=> ~PassedThroughChild(Top, flying)
<1>1. flying # Nothing /\ stack # <<>> /\ spans' = [spans EXCEPT ![Top] = Left(Top, flying)]
  BY DEF Unwind
<1>2. Top \in DOMAIN spans
  BY <1>1, TopIs
<1>3. spans \in Seq(SpanRows) /\ flying \in Nat
  BY <1>1, ExceptionIsNat DEF TypeInv
<1>4. PICK r \in SpanRows : r = spans[Top]
  BY <1>2, <1>3
<1>5. PICK tells \in BOOLEAN : tells <=> ~PassedThroughChild(Top, flying)
  OBVIOUS
<1>6. PICK x : x = Left(Top, flying)
  OBVIOUS
<1>7. PICK y : y = [r EXCEPT !.status = "error", !.exc = flying, !.tells = tells]
  OBVIOUS
<1>8. x = y
  <2>1. (~PassedThroughChild(Top, flying)) = tells
    BY <1>5
  <2>2. QED
    BY <1>4, <1>6, <1>7, <2>1 DEF Left
<1>9. y \in SpanRows /\ y.parent = r.parent /\ y.exc = flying /\ y.tells = tells
  BY <1>3, <1>4, <1>7 DEF SpanRows
<1>10. spans' = [spans EXCEPT ![Top] = y]
  BY <1>1, <1>6, <1>8
<1>11. spans' \in Seq(SpanRows) /\ DOMAIN spans' = DOMAIN spans /\ spans'[Top] = y
       /\ \A s \in DOMAIN spans : s # Top => spans'[s] = spans[s]
  BY <1>2, <1>3, <1>9, <1>10
<1>12. QED
  BY <1>4, <1>5, <1>9, <1>11

\* The open spans under the innermost one are others, and it stands in the next.
LEMMA UnderTop ==
    ASSUME TypeInv, StackInv, stack # <<>>
    PROVE  /\ \A i \in 1..(Len(stack) - 1) : i \in DOMAIN stack /\ stack[i] # Top
           /\ spans[Top].exc = Nothing /\ spans[Top].parent = Below(Len(stack) - 1)
           /\ Below(Len(stack) - 1) # Top
           /\ \A c \in Exceptions : Below(Len(stack) - 1) \notin Through(c) /\ Top \notin Through(c)
<1>1. /\ Len(stack) \in Nat /\ DOMAIN stack = 1..Len(stack) /\ Len(stack) \in DOMAIN stack
      /\ Top = stack[Len(stack)] /\ Top \in DOMAIN spans /\ DOMAIN spans \subseteq Nat
      /\ Nothing \notin DOMAIN spans /\ \A i \in 1..Len(stack) : stack[i] \in DOMAIN spans
  BY TopIs
<1>2. ASSUME NEW i \in 1..(Len(stack) - 1) PROVE i \in DOMAIN stack /\ stack[i] # Top
  <2>1. i \in DOMAIN stack /\ i < Len(stack)
    BY <1>1
  <2>2. stack[i] < stack[Len(stack)] /\ stack[i] \in Nat /\ stack[Len(stack)] \in Nat
    BY <1>1, <2>1 DEF StackInv
  <2>3. QED
    BY <1>1, <2>1, <2>2
<1>3. spans[Top].exc = Nothing /\ spans[Top].parent = Below(Len(stack) - 1)
  BY <1>1 DEF StackInv
<1>4. PICK k : k = Len(stack) - 1
  OBVIOUS
<1>5. CASE k = 0
  <2>1. Below(k) = Nothing
    BY <1>5 DEF Below
  <2>2. \A c \in Exceptions : Nothing \notin Through(c) /\ Top \notin Through(c)
    BY <1>1, <1>3, ExceptionIsNat DEF Through
  <2>3. QED
    BY <1>1, <1>2, <1>3, <1>4, <2>1, <2>2
<1>6. CASE k # 0
  <2>1. k \in 1..(Len(stack) - 1) /\ Below(k) = stack[k]
    BY <1>1, <1>4, <1>6 DEF Below
  <2>2. stack[k] # Top /\ k \in DOMAIN stack
    BY <1>2, <2>1
  <2>3. spans[stack[k]].exc = Nothing
    BY <2>2 DEF StackInv
  <2>4. \A c \in Exceptions : stack[k] \notin Through(c) /\ Top \notin Through(c)
    BY <1>3, <2>3, ExceptionIsNat DEF Through
  <2>5. QED
    BY <1>2, <1>3, <1>4, <2>1, <2>2, <2>4
<1>7. QED
  BY <1>5, <1>6

\* The way of the exception that flies has got one span longer.
LEMMA UnwindWays ==
    ASSUME TraceInv, Unwind
    PROVE  /\ Through(flying)' = Through(flying) \cup {Top}
           /\ \A c \in Exceptions : c # flying => Through(c)' = Through(c)
           /\ \A s \in DOMAIN spans : spans'[s].parent = spans[s].parent
           /\ \A c \in Exceptions : \A s \in Through(c) : spans'[s] = spans[s]
           /\ OneWay(flying)'
           /\ \A s \in Through(flying)' : spans'[s].parent \in Through(flying)' \cup {spans[Top].parent}
<1>1. TypeInv /\ StackInv /\ WaysInv /\ LiveInv
  BY DEF TraceInv
<1>2. flying # Nothing /\ stack # <<>> /\ UNCHANGED <<flying, cause, trace, stored, origin, handled>>
  BY DEF Unwind
<1>3. PICK f, top, S : f = flying /\ top = Top /\ S = Through(flying)
  OBVIOUS
<1>4. f \in Exceptions
  BY <1>1, <1>2, <1>3 DEF TypeInv
<1>5. /\ DOMAIN spans' = DOMAIN spans
      /\ \A s \in DOMAIN spans : s # top => spans'[s] = spans[s]
      /\ spans'[top].parent = spans[top].parent /\ spans'[top].exc = f
      /\ spans'[top].tells <=> ~PassedThroughChild(top, f)
  BY <1>1, <1>3, UnwindSpans
<1>6. top \in DOMAIN spans /\ DOMAIN spans \subseteq Nat /\ Top = Below(Len(stack))
      /\ Len(stack) \in DOMAIN stack /\ top = stack[Len(stack)]
  BY <1>1, <1>2, <1>3, TopIs
<1>7. /\ spans[top].exc = Nothing /\ spans[top].parent # top /\ spans[top].parent \notin S
      /\ \A c \in Exceptions : top \notin Through(c)
  BY <1>1, <1>2, <1>3, <1>4, UnderTop
<1>8. OneWay(f) /\ Rides(f, Len(stack))
  BY <1>1, <1>2, <1>3, <1>4 DEF WaysInv, LiveInv
<1>9. Through(f)' = S \cup {top}
  BY <1>3, <1>4, <1>5, <1>6 DEF Through
<1>10. ASSUME NEW c \in Exceptions, c # f PROVE Through(c)' = Through(c)
  <2>1. \A s \in DOMAIN spans : spans'[s].exc = c <=> spans[s].exc = c
    <3>1. Nothing # c
      BY <1>1, ExceptionIsNat
    <3>2. QED
      BY <1>5, <1>7, <1>10, <3>1
  <2>2. QED
    BY <1>5, <2>1 DEF Through
<1>11. \A c \in Exceptions : \A s \in Through(c) : spans'[s] = spans[s]
  BY <1>5, <1>7 DEF Through
<1>12. \A s \in DOMAIN spans : spans'[s].parent = spans[s].parent
  BY <1>5
<1>13. S \subseteq DOMAIN spans /\ top \notin S /\ \A s \in S : spans'[s] = spans[s]
  BY <1>3, <1>4, <1>7, <1>11 DEF Through
<1>14. /\ S = {} => origin[f] = top
       /\ S # {} => \E s \in S : spans[s].parent = top
       /\ \A s \in S : spans[s].parent \in S \cup {top}
       /\ f \notin handled
  BY <1>3, <1>6, <1>8 DEF Rides
<1>15. /\ S # {} => origin[f] \in S /\ \A o \in S : spans[o].parent # origin[f]
       /\ \A s \in S : s # origin[f] => \E o \in S : spans[o].parent = s
       /\ \A s \in S : spans[s].parent \in S => spans[s].parent < s
       /\ \A s \in S : spans[s].tells <=> s = origin[f]
  BY <1>3, <1>8 DEF OneWay
<1>16. PassedThroughChild(top, f) <=> \E s \in S : spans[s].parent = top
  BY <1>3 DEF PassedThroughChild, Through
<1> DEFINE W == S \cup {top}
<1>17. OneWay(f)'
  <2>1. origin'[f] = origin[f] /\ handled' = handled
    BY <1>2
  <2>2. origin[f] \in W /\ \A o \in W : spans'[o].parent # origin[f]
    <3>1. CASE S = {}
      BY <1>5, <1>7, <1>14, <3>1
    <3>2. CASE S # {}
      BY <1>5, <1>7, <1>13, <1>15, <3>2
    <3>3. QED
      BY <3>1, <3>2
  <2>3. \A s \in W : s # origin[f] => \E o \in W : spans'[o].parent = s
    <3>1. ASSUME NEW s \in S, s # origin[f] PROVE \E o \in W : spans'[o].parent = s
      BY <1>13, <1>15, <3>1
    <3>2. ASSUME top # origin[f] PROVE \E o \in W : spans'[o].parent = top
      BY <1>13, <1>14, <3>2
    <3>3. QED
      BY <3>1, <3>2
  <2>4. \A s \in W : spans'[s].parent \notin W => s = top
    BY <1>5, <1>13, <1>14
  <2>5. \A s \in W : spans'[s].parent \in W => spans'[s].parent < s
    <3>1. ASSUME NEW s \in S, spans[s].parent = top PROVE top < s
      BY <1>1, <1>6, <1>13, <3>1 DEF StackInv
    <3>2. spans'[top].parent \notin W
      BY <1>5, <1>7
    <3>3. QED
      BY <1>13, <1>14, <1>15, <3>1, <3>2
  <2>6. \A s \in W : spans'[s].tells <=> s = origin[f]
    <3>1. \A s \in S : spans'[s].tells <=> s = origin[f]
      BY <1>13, <1>15
    <3>2. spans'[top].tells <=> top = origin[f]
      <4>1. CASE S = {}
        BY <1>5, <1>14, <1>16, <4>1
      <4>2. CASE S # {}
        BY <1>5, <1>13, <1>14, <1>15, <1>16, <4>2
      <4>3. QED
        BY <4>1, <4>2
    <3>3. QED
      BY <3>1, <3>2
  <2>7. PICK U : U = Through(f)'
    OBVIOUS
  <2>8. U = W
    BY <1>9, <2>7
  <2>9. /\ U # {} => origin'[f] \in U /\ \A o \in U : spans'[o].parent # origin'[f]
        /\ \A s \in U : s # origin'[f] => \E o \in U : spans'[o].parent = s
        /\ \A s, t \in U : spans'[s].parent \notin U /\ spans'[t].parent \notin U => s = t
        /\ \A s \in U : spans'[s].parent \in U => spans'[s].parent < s
        /\ \A s \in U : spans'[s].tells <=> s = origin'[f]
        /\ f \notin handled'
    BY <1>14, <2>1, <2>2, <2>3, <2>4, <2>5, <2>6, <2>8
  <2>10. QED
    BY <2>7, <2>9 DEF OneWay
<1>18. \A s \in W : spans'[s].parent \in W \cup {spans[top].parent}
  BY <1>5, <1>13, <1>14
<1>19. flying' = f
  BY <1>2, <1>3
<1>20. Through(flying)' = W /\ OneWay(flying)'
  BY <1>9, <1>17, <1>19 DEF Through, OneWay
<1>21. QED
  BY <1>3, <1>10, <1>11, <1>12, <1>18, <1>20

\* The handlers outside of a depth are the first ones, and all of them lie there.
LEMMA OutsideOf ==
    ASSUME TypeInv, LiveInv, NEW k \in Nat
    PROVE  /\ Outside(caught, k) \in Seq(Handlers) /\ DOMAIN Outside(caught, k) \subseteq DOMAIN caught
           /\ \A i \in DOMAIN Outside(caught, k) : Outside(caught, k)[i] = caught[i] /\ caught[i].depth <= k
<1>1. caught \in Seq(Handlers) /\ Len(caught) \in Nat /\ DOMAIN caught = 1..Len(caught)
  BY DEF TypeInv
<1>2. PICK near : near = {i \in DOMAIN caught : caught[i].depth <= k}
  OBVIOUS
<1>3. PICK S : S = {0} \cup near
  OBVIOUS
<1>4. S \in SUBSET (0..Len(caught)) /\ S # {}
  BY <1>1, <1>2, <1>3
<1>5. PICK m : m = Max(S)
  OBVIOUS
<1>6. m \in S
  BY <1>1, <1>4, <1>5, MaxOf
<1>7. m \in 0..Len(caught)
  BY <1>4, <1>6
<1>8. Outside(caught, k) = SubSeq(caught, 1, m)
  BY <1>2, <1>3, <1>5 DEF Outside
<1>9. PICK q : q = SubSeq(caught, 1, m)
  OBVIOUS
<1>10. q \in Seq(Handlers) /\ DOMAIN q = 1..m /\ \A i \in 1..m : q[i] = caught[i]
  BY <1>1, <1>7, <1>9, PrefixOf
<1>11. ASSUME NEW i \in 1..m PROVE i \in DOMAIN caught /\ caught[i].depth <= k
  <2>1. m # 0 /\ m \in near /\ i \in DOMAIN caught /\ m \in DOMAIN caught
    BY <1>1, <1>2, <1>3, <1>6, <1>7
  <2>2. caught[m].depth <= k
    BY <1>2, <2>1
  <2>3. CASE i = m
    BY <2>1, <2>2, <2>3
  <2>4. CASE i # m
    <3>1. i < m
      BY <1>7, <2>4
    <3>2. caught[i].depth <= caught[m].depth
      BY <2>1, <3>1 DEF LiveInv
    <3>3. caught[i].depth \in Nat /\ caught[m].depth \in Nat
      BY <2>1, CaughtIs, TopIs
    <3>4. QED
      BY <2>1, <2>2, <3>2, <3>3
  <2>5. QED
    BY <2>3, <2>4
<1>12. QED
  BY <1>1, <1>8, <1>9, <1>10, <1>11

LEMMA UnwindKeeps ==
    ASSUME TraceInv, Unwind
    PROVE  TraceInv'
<1>1. TypeInv /\ StackInv /\ WaysInv /\ LiveInv /\ RunInv /\ BlameInv /\ ~trace.finished
  BY DEF TraceInv, Unwind
<1>2. /\ flying # Nothing /\ stack # <<>> /\ stack' = Front(stack)
      /\ caught' = Outside(caught, Len(stack'))
      /\ UNCHANGED <<flying, cause, trace, stored, origin, handled>>
  BY DEF Unwind
<1>3. /\ spans' \in Seq(SpanRows) /\ DOMAIN spans' = DOMAIN spans
      /\ \A s \in DOMAIN spans : s # Top => spans'[s] = spans[s]
      /\ spans'[Top].exc = flying
  BY <1>1, UnwindSpans
<1>4. /\ Through(flying)' = Through(flying) \cup {Top}
      /\ \A c \in Exceptions : c # flying => Through(c)' = Through(c)
      /\ \A s \in DOMAIN spans : spans'[s].parent = spans[s].parent
      /\ \A c \in Exceptions : \A s \in Through(c) : spans'[s] = spans[s]
      /\ OneWay(flying)'
      /\ \A s \in Through(flying)' : spans'[s].parent \in Through(flying)' \cup {spans[Top].parent}
  BY UnwindWays
<1>5. stack \in Seq(Nat) /\ Len(stack) \in Nat \ {0} /\ DOMAIN stack = 1..Len(stack)
  BY <1>1, <1>2 DEF TypeInv
<1>6. PICK k : k = Len(stack) - 1
  OBVIOUS
<1>7. k \in Nat /\ k \in 0..Len(stack)
  BY <1>5, <1>6
<1>8. /\ stack' \in Seq(Nat) /\ Len(stack') = k /\ DOMAIN stack' = 1..k
      /\ \A i \in 1..k : stack'[i] = stack[i]
  BY <1>2, <1>5, <1>6, FrontOf
<1>9. \A j \in 0..k : Below(j)' = Below(j)
  BY <1>7, <1>8 DEF Below
<1>10. /\ \A i \in 1..k : i \in DOMAIN stack /\ stack[i] # Top
       /\ spans[Top].parent = Below(k)
  BY <1>1, <1>2, <1>6, UnderTop
<1>11. /\ Top \in DOMAIN spans /\ \A i \in 1..Len(stack) : stack[i] \in DOMAIN spans
  BY <1>1, <1>2, TopIs
<1>12. flying \in Exceptions /\ Exceptions \subseteq Nat /\ Nothing \notin Exceptions
  BY <1>1, <1>2, ExceptionIsNat DEF TypeInv
<1>13. PICK q : q = Outside(caught, k)
  OBVIOUS
<1>14. /\ q \in Seq(Handlers) /\ DOMAIN q \subseteq DOMAIN caught /\ caught' = q
       /\ \A i \in DOMAIN q : q[i] = caught[i] /\ caught[i].depth <= k
  BY <1>1, <1>2, <1>7, <1>8, <1>13, OutsideOf
<1>15. TypeInv'
  <2>1. ASSUME NEW s \in DOMAIN spans
        PROVE  spans'[s].parent \in DOMAIN spans \cup {Nothing} /\ spans'[s].exc \in 0..Len(cause) \cup {Nothing}
    <3>1. spans'[s].parent \in DOMAIN spans \cup {Nothing}
      BY <1>1, <1>4, TopIs
    <3>2. CASE s = Top
      BY <1>3, <1>12, <3>1, <3>2 DEF Exceptions
    <3>3. CASE s # Top
      BY <1>1, <1>3, <3>1, <3>3 DEF TypeInv
    <3>4. QED
      BY <3>2, <3>3
  <2>2. \A i \in DOMAIN caught' : caught'[i].exc \in Exceptions /\ caught'[i].depth <= k
    BY <1>1, <1>14, CaughtIs
  <2>3. \A i \in DOMAIN stack' : stack'[i] \in DOMAIN spans
    <3>1. DOMAIN stack' \subseteq 1..Len(stack)
      BY <1>7, <1>8
    <3>2. QED
      BY <1>8, <1>11, <3>1
  <2>4. \A c \in Exceptions : origin[c] \in DOMAIN spans \cup {Nothing}
    BY <1>1 DEF TypeInv
  <2>5. QED
    BY <1>1, <1>2, <1>3, <1>8, <1>12, <1>14, <2>1, <2>2, <2>3, <2>4 DEF TypeInv, Exceptions
<1>16. StackInv'
  <2>1. ASSUME NEW i \in DOMAIN stack'
        PROVE  spans'[stack'[i]].exc = Nothing /\ spans'[stack'[i]].parent = Below(i - 1)'
    <3>1. i \in 1..k /\ i \in DOMAIN stack /\ stack'[i] = stack[i] /\ stack[i] # Top
      BY <1>8, <1>10
    <3>2. i - 1 \in 0..k
      BY <1>7, <3>1
    <3>3. spans[stack[i]].exc = Nothing /\ spans[stack[i]].parent = Below(i - 1)
      BY <1>1, <3>1 DEF StackInv
    <3>4. spans'[stack[i]] = spans[stack[i]]
      BY <1>3, <1>5, <1>11, <3>1
    <3>5. QED
      BY <1>9, <3>1, <3>2, <3>3, <3>4
  <2>2. \A i, j \in DOMAIN stack' : i < j => stack'[i] < stack'[j]
    BY <1>1, <1>8, <1>10 DEF StackInv
  <2>3. ASSUME NEW s \in DOMAIN spans, NEW i \in DOMAIN stack', spans'[s].parent = stack'[i] PROVE stack'[i] < s
    BY <1>1, <1>4, <1>8, <1>10, <2>3 DEF StackInv
  <2>4. QED
    BY <1>3, <2>1, <2>2, <2>3 DEF StackInv
<1>17. WaysInv'
  <2>1. ASSUME NEW c \in Exceptions PROVE OneWay(c)'
    <3>1. CASE c = flying
      <4>1. PICK f : f = flying
        OBVIOUS
      <4>2. flying' = f /\ c = f
        BY <1>2, <3>1, <4>1
      <4>3. OneWay(f)'
        BY <1>4, <4>2 DEF OneWay, Through
      <4>4. QED
        BY <4>2, <4>3
    <3>2. CASE c # flying
      <4>1. Through(c)' = Through(c) /\ \A s \in Through(c) : spans'[s] = spans[s]
        BY <1>4, <3>2
      <4>2. origin'[c] = origin[c] /\ handled' = handled /\ OneWay(c)
        BY <1>1, <1>2 DEF WaysInv
      <4>3. QED
        BY <4>1, <4>2 DEF OneWay
    <3>3. QED
      BY <3>1, <3>2
  <2>2. QED
    BY <1>2, <2>1 DEF WaysInv, Exceptions
<1>18. LiveInv'
  <2>1. ASSUME NEW i \in DOMAIN caught' PROVE Rides(caught[i].exc, caught[i].depth)'
    <3>1. i \in DOMAIN caught /\ caught'[i] = caught[i] /\ caught[i].depth <= k
      BY <1>14
    <3>2. PICK c \in Exceptions, d \in 0..Len(stack) : c = caught[i].exc /\ d = caught[i].depth /\ Rides(c, d)
      BY <3>1, CaughtRides
    <3>3. d \in 0..k /\ c # flying
      BY <1>1, <1>2, <1>7, <3>1, <3>2 DEF LiveInv
    <3>4. Through(c)' = Through(c) /\ \A s \in Through(c) : spans'[s] = spans[s]
      BY <1>4, <3>3
    <3>5. Below(d)' = Below(d) /\ origin'[c] = origin[c] /\ handled' = handled
      BY <1>2, <1>9, <3>3
    <3>6. Rides(c, d)'
      BY <3>2, <3>4, <3>5 DEF Rides
    <3>7. caught'[i].exc = c /\ caught'[i].depth = d
      BY <3>1, <3>2
    <3>8. QED
      BY <3>6, <3>7 DEF Rides, Below
  <2>2. Rides(flying, Len(stack))'
    <3>1. PICK f : f = flying
      OBVIOUS
    <3>2. PICK U : U = Through(f)'
      OBVIOUS
    <3>3. flying' = f
      BY <1>2, <3>1
    <3>4. U = Through(f) \cup {Top} /\ \A s \in U : spans'[s].parent \in U \cup {Below(k)}
      BY <1>4, <1>10, <3>1, <3>2, <3>3 DEF Through
    <3>5. spans'[Top].parent = Below(k) /\ Below(k)' = Below(k)
      BY <1>4, <1>7, <1>9, <1>10, <1>11
    <3>6. f \notin handled'
      BY <1>1, <1>2, <3>1 DEF LiveInv, Rides
    <3>7. Rides(f, k)'
      BY <3>2, <3>4, <3>5, <3>6 DEF Rides
    <3>8. QED
      BY <1>8, <3>3, <3>7 DEF Rides, Below
  <2>3. \A i \in DOMAIN caught' : caught'[i].exc # flying'
    BY <1>1, <1>2, <1>14 DEF LiveInv
  <2>4. \A i, j \in DOMAIN caught' :
          i < j => caught'[i].exc # caught'[j].exc /\ caught'[i].depth <= caught'[j].depth
    BY <1>1, <1>14 DEF LiveInv
  <2>5. QED
    BY <2>1, <2>2, <2>3, <2>4 DEF LiveInv
<1>19. RunInv'
  <2>1. flying # Exits
    BY <1>12 DEF Exits, Exceptions
  <2>2. \A s \in DOMAIN spans' : spans'[s].exc # Exits
    BY <1>1, <1>3, <2>1 DEF RunInv
  <2>3. QED
    BY <1>1, <1>2, <2>2, RunStays
<1>20. BlameInv'
  <2>1. ASSUME NEW c \in Exceptions, NEW s \in Through(c), spans[s].parent = Nothing
        PROVE  s \in Through(c)' /\ spans'[s].parent = Nothing
    <3>1. spans'[s] = spans[s]
      BY <1>4
    <3>2. s \in Through(c)'
      BY <1>3, <3>1 DEF Through
    <3>3. QED
      BY <2>1, <3>1, <3>2
  <2>2. Exceptions \subseteq Exceptions' /\ \A c \in Exceptions : cause'[c] = cause[c] /\ origin'[c] = origin[c]
    BY <1>2 DEF Exceptions
  <2>3. QED
    BY <1>1, <1>2, <2>1, <2>2, BlameGrows
<1>21. QED
  BY <1>15, <1>16, <1>17, <1>18, <1>19, <1>20 DEF TraceInv

-----------------------------------------------------------------------------
(* The end of a run *)

\* If an exception escaped at all, every span it left did, and the innermost is its origin.
LEMMA EscapedAll ==
    ASSUME TypeInv, NEW c \in Exceptions, OneWay(c), Hits(c) # {}
    PROVE  Innermost(Hits(c)) = origin[c] /\ \E s \in Through(c) : spans[s].parent = Nothing
<1>1. PICK S : S = Through(c)
  OBVIOUS
<1>2. S \subseteq DOMAIN spans /\ DOMAIN spans \subseteq Nat /\ Nothing \notin DOMAIN spans
  BY <1>1, TopIs DEF Through
<1>3. PICK s \in S, left \in SUBSET S : s \in left /\ \A t \in left : spans[t].parent \in left \cup {Nothing}
  BY <1>1 DEF Hits, Escaped, Through
<1>4. PICK m \in left : \A t \in left : m <= t
  BY <1>2, <1>3, LeastOf
<1>5. spans[m].parent = Nothing
  <2>1. SUFFICES ASSUME spans[m].parent \in left PROVE FALSE
    BY <1>3, <1>4
  <2>2. spans[m].parent < m
    BY <1>1, <1>3, <1>4, <2>1 DEF OneWay
  <2>3. m <= spans[m].parent /\ m \in Nat /\ spans[m].parent \in Nat
    BY <1>2, <1>3, <1>4, <2>1
  <2>4. QED
    BY <2>2, <2>3
<1>6. m \in S
  BY <1>3, <1>4
<1>7. \A t \in S : spans[t].parent \in S \cup {Nothing}
  <2>1. ASSUME NEW t \in S, spans[t].parent \notin S PROVE t = m
    <3>1. spans[m].parent \notin S
      BY <1>2, <1>5
    <3>2. QED
      BY <1>1, <1>6, <2>1, <3>1 DEF OneWay
  <2>2. QED
    BY <1>5, <2>1
<1>8. Hits(c) = S
  <2>1. \A t \in S : Escaped(t, c)
    <3>1. S \in SUBSET {t \in DOMAIN spans : spans[t].exc = c}
      BY <1>1 DEF Through
    <3>2. QED
      BY <1>7, <3>1 DEF Escaped
  <2>2. QED
    BY <1>1, <2>1 DEF Hits, Through
<1>9. /\ origin[c] \in S /\ \A o \in S : spans[o].parent # origin[c]
      /\ \A t \in S : t # origin[c] => \E o \in S : spans[o].parent = t
  BY <1>1, <1>6 DEF OneWay
<1>10. Innermost(S) = origin[c]
  BY <1>9 DEF Innermost
<1>11. QED
  BY <1>1, <1>5, <1>6, <1>8, <1>10

\* Who is blamed for an exception that got all the way out.
LEMMA FailedBlames ==
    ASSUME TypeInv, WaysInv, stack = <<>>, NEW e \in Exceptions, Rides(e, 0)
    PROVE  /\ FailureSpan(e) # Nothing =>
                \E c \in Chain(e) : origin[c] = FailureSpan(e) /\ \E s \in Through(c) : spans[s].parent = Nothing
           /\ origin[e] # Nothing => FailureSpan(e) = origin[e]
<1>1. Top = Nothing /\ Below(0) = Nothing /\ Nothing \notin DOMAIN spans
  BY TopIs DEF Below
<1>2. Chain(e) \subseteq 1..e /\ 1..e \subseteq Exceptions /\ e \in Nat
  <2>1. 1..e \subseteq Exceptions /\ e \in Nat
    BY ExceptionIsNat DEF Exceptions
  <2>2. QED
    BY <2>1 DEF Chain
<1>3. e \in Chain(e)
  <2>1. e \in 1..e
    BY <1>2, ExceptionIsNat DEF Exceptions
  <2>2. QED
    BY <2>1 DEF Chain
<1>4. PICK seen : seen = {c \in Chain(e) : Hits(c) # {}}
  OBVIOUS
<1>5. FailureSpan(e) = IF seen = {} THEN Top ELSE Innermost(Hits(Max(seen)))
  BY <1>4 DEF FailureSpan
<1>6. ASSUME origin[e] # Nothing PROVE e \in seen
  <2>1. Through(e) # {} /\ \A s \in Through(e) : spans[s].parent \in Through(e) \cup {Nothing}
    BY <1>1, <1>6 DEF Rides
  <2>2. PICK s : s \in Through(e)
    BY <2>1
  <2>3. Through(e) \in SUBSET {t \in DOMAIN spans : spans[t].exc = e}
    BY DEF Through
  <2>4. s \in Hits(e)
    BY <2>1, <2>2, <2>3 DEF Hits, Escaped
  <2>5. QED
    BY <1>3, <1>4, <2>4
<1>7. CASE seen = {}
  BY <1>1, <1>5, <1>6, <1>7
<1>8. CASE seen # {}
  <2>1. seen \in SUBSET (0..e) /\ seen \subseteq Chain(e)
    BY <1>2, <1>4
  <2>2. PICK c : c = Max(seen)
    OBVIOUS
  <2>3. c \in seen /\ \A x \in seen : x <= c
    BY <1>2, <1>8, <2>1, <2>2, MaxOf
  <2>4. c \in Chain(e) /\ c \in Exceptions /\ Hits(c) # {} /\ c \in 1..e
    BY <1>2, <1>4, <2>3
  <2>5. Innermost(Hits(c)) = origin[c] /\ \E s \in Through(c) : spans[s].parent = Nothing
    BY <2>4, EscapedAll DEF WaysInv
  <2>6. FailureSpan(e) = origin[c]
    BY <1>5, <1>8, <2>2, <2>5
  <2>7. ASSUME origin[e] # Nothing PROVE c = e
    BY <1>2, <1>6, <2>3, <2>4, <2>7
  <2>8. QED
    BY <2>4, <2>5, <2>6, <2>7
<1>9. QED
  BY <1>7, <1>8

LEMMA ReturnKeeps ==
    ASSUME TraceInv, Return
    PROVE  TraceInv'
<1>1. /\ TypeInv /\ LiveInv /\ RunInv /\ ~trace.finished /\ flying = Nothing
      /\ stack = <<>> /\ trace' = Finished(trace) /\ stored' \in {stored, Finished(trace).status}
      /\ UNCHANGED <<spans, stack, flying, caught, cause, origin, handled>>
  BY DEF TraceInv, Return, Steps, Finish
<1>2. PICK r : r = trace
  OBVIOUS
<1>3. /\ r = [streaming |-> r.streaming, status |-> r.status, error |-> r.error,
              blamed |-> r.blamed, stage |-> r.stage, finished |-> r.finished]
      /\ r.status \in {"running", "failed"} /\ stored = "running"
      /\ (r.status = "failed") <=> (r.error # Nothing)
      /\ r.error # Disconnected
  BY <1>1, <1>2 DEF RunInv
<1>4. PICK w : w = Finished(r)
  OBVIOUS
<1>5. /\ w = [streaming |-> w.streaming, status |-> w.status, error |-> w.error,
              blamed |-> w.blamed, stage |-> w.stage, finished |-> w.finished]
      /\ w.finished = TRUE /\ w.error = r.error /\ w.blamed = r.blamed
      /\ w.status = IF r.status = "failed" THEN "failed" ELSE "completed"
  BY <1>3, <1>4 DEF Finished
<1>6. trace' = w /\ stored' \in {"running", w.status}
  BY <1>1, <1>2, <1>3, <1>4
<1>7. RunInv'
  <2>1. EndsOnce'
    BY <1>1, <1>3, <1>5, <1>6 DEF EndsOnce
  <2>2. InterruptedAreTold'
    BY <1>3, <1>5, <1>6 DEF InterruptedAreTold, Disconnected
  <2>3. QED
    BY <1>5, <1>6, <2>1, <2>2 DEF RunInv
<1>8. StackInv' /\ WaysInv' /\ TypeInv'
  BY <1>1, StillKeeps DEF TypeInv, Exceptions
<1>9. LiveInv'
  BY <1>1 DEF LiveInv, Rides, Through, Below
<1>10. BlameInv'
  BY <1>1, <1>2, <1>5, <1>6, StillBlamed
<1>11. QED
  BY <1>7, <1>8, <1>9, <1>10 DEF TraceInv

\* What the first failure, or a later one, makes of the run.
LEMMA FailedIs ==
    ASSUME RunInv, ~trace.finished, NEW e, e # Nothing
    PROVE  LET w == Failed(trace, e)
           IN  /\ w = [streaming |-> w.streaming, status |-> w.status, error |-> w.error,
                       blamed |-> w.blamed, stage |-> w.stage, finished |-> w.finished]
               /\ w.status = "failed" /\ w.finished = FALSE
               /\ trace.error # Nothing => w.error = trace.error /\ w.blamed = trace.blamed
               /\ trace.error = Nothing => w.error = e /\ w.blamed = FailureSpan(e)
<1>1. PICK r : r = trace
  OBVIOUS
<1>2. /\ r = [streaming |-> r.streaming, status |-> r.status, error |-> r.error,
              blamed |-> r.blamed, stage |-> r.stage, finished |-> r.finished]
      /\ r.finished = FALSE
  BY <1>1 DEF RunInv
<1>3. PICK b, g : b = FailureSpan(e) /\ g = TopStage(FailureSpan(e))
  OBVIOUS
<1>4. Failed(r, e) = IF r.error # Nothing THEN [r EXCEPT !.status = "failed"]
                     ELSE [r EXCEPT !.status = "failed", !.error = e, !.blamed = b, !.stage = g]
  BY <1>3 DEF Failed
<1>5. PICK w : w = Failed(r, e)
  OBVIOUS
<1>6. CASE r.error # Nothing
  <2>1. w = [r EXCEPT !.status = "failed"]
    BY <1>4, <1>5, <1>6
  <2>2. QED
    BY <1>1, <1>2, <1>5, <1>6, <2>1
<1>7. CASE r.error = Nothing
  <2>1. w = [r EXCEPT !.status = "failed", !.error = e, !.blamed = b, !.stage = g]
    BY <1>4, <1>5, <1>7
  <2>2. /\ w = [streaming |-> w.streaming, status |-> w.status, error |-> w.error,
                blamed |-> w.blamed, stage |-> w.stage, finished |-> w.finished]
        /\ w.status = "failed" /\ w.finished = FALSE /\ w.error = e /\ w.blamed = b
    BY <1>2, <2>1
  <2>3. QED
    BY <1>1, <1>3, <1>5, <1>7, <2>2
<1>8. QED
  BY <1>6, <1>7

\* Who is blamed when an exception is the first to fail the run, or when it is not.
LEMMA FailureBlamed ==
    ASSUME TraceInv, stack = <<>>, ~trace.finished, NEW e \in Exceptions, Rides(e, 0),
           UNCHANGED <<spans, cause, origin>>,
           trace.error # Nothing => trace'.error = trace.error /\ trace'.blamed = trace.blamed,
           trace.error = Nothing => trace'.error = e /\ trace'.blamed = FailureSpan(e)
    PROVE  BlameInv'
<1>1. TypeInv /\ WaysInv
  BY DEF TraceInv
<1>2. CASE trace.error # Nothing
  BY <1>2, StillBlamed
<1>3. CASE trace.error = Nothing
  <2>1. PICK b : b = FailureSpan(e)
    OBVIOUS
  <2>2. /\ b # Nothing => \E c \in Chain(e) : origin[c] = b /\ \E s \in Through(c) : spans[s].parent = Nothing
        /\ origin[e] # Nothing => b = origin[e]
    BY <1>1, <2>1, FailedBlames
  <2>3. trace'.error = e /\ trace'.blamed = b
    BY <1>3, <2>1
  <2>4. b # Nothing => \E c \in Chain(e)' : origin'[c] = b /\ \E s \in Through(c)' : spans'[s].parent = Nothing
    BY <2>2 DEF Chain, Through
  <2>5. Chain(trace.error)' = Chain(e)'
    BY <2>3 DEF Chain
  <2>6. QED
    BY <2>2, <2>3, <2>4, <2>5 DEF BlameInv, Exceptions
<1>4. QED
  BY <1>2, <1>3

LEMMA AbortKeeps ==
    ASSUME TraceInv, Abort
    PROVE  TraceInv'
<1>1. /\ TypeInv /\ LiveInv /\ RunInv /\ ~trace.finished /\ flying # Nothing /\ stack = <<>>
      /\ trace' = Finished(Failed(trace, flying)) /\ stored' \in {stored, Finished(Failed(trace, flying)).status}
      /\ caught' = <<>> /\ UNCHANGED <<spans, stack, flying, cause, origin, handled>>
  BY DEF TraceInv, Abort, Finish
<1>2. PICK f, w : f = flying /\ w = Failed(trace, flying)
  OBVIOUS
<1>3. f \in Exceptions /\ f # Nothing /\ Len(stack) = 0 /\ Rides(f, 0)
  BY <1>1, <1>2, TopIs DEF TypeInv, LiveInv
<1>4. f # Disconnected
  BY <1>1, <1>3, ExceptionIsNat DEF Exceptions, Disconnected
<1>5. /\ w = [streaming |-> w.streaming, status |-> w.status, error |-> w.error,
              blamed |-> w.blamed, stage |-> w.stage, finished |-> w.finished]
      /\ w.status = "failed"
      /\ trace.error # Nothing => w.error = trace.error /\ w.blamed = trace.blamed
      /\ trace.error = Nothing => w.error = f /\ w.blamed = FailureSpan(f)
  BY <1>1, <1>2, <1>3, FailedIs
<1>6. w.error # Nothing /\ w.error # Disconnected
  BY <1>1, <1>3, <1>4, <1>5 DEF RunInv
<1>7. PICK x : x = Finished(w)
  OBVIOUS
<1>8. /\ x = [streaming |-> x.streaming, status |-> x.status, error |-> x.error,
              blamed |-> x.blamed, stage |-> x.stage, finished |-> x.finished]
      /\ x.finished = TRUE /\ x.error = w.error /\ x.blamed = w.blamed /\ x.status = "failed"
  BY <1>5, <1>7 DEF Finished
<1>9. trace' = x /\ stored' \in {"running", "failed"}
  BY <1>1, <1>2, <1>7, <1>8 DEF RunInv
<1>10. RunInv'
  <2>1. EndsOnce'
    BY <1>1, <1>6, <1>8, <1>9 DEF EndsOnce
  <2>2. InterruptedAreTold'
    BY <1>6, <1>8, <1>9 DEF InterruptedAreTold, Disconnected
  <2>3. QED
    BY <1>8, <1>9, <2>1, <2>2 DEF RunInv
<1>11. StackInv' /\ WaysInv' /\ TypeInv'
  BY <1>1, StillKeeps DEF TypeInv, Exceptions
<1>12. LiveInv'
  BY <1>1 DEF LiveInv, Rides, Through, Below
<1>13. BlameInv'
  BY <1>1, <1>3, <1>5, <1>8, <1>9, FailureBlamed
<1>14. QED
  BY <1>10, <1>11, <1>12, <1>13 DEF TraceInv

LEMMA FailCurrentKeeps ==
    ASSUME TraceInv, FailCurrent
    PROVE  TraceInv'
<1>1. /\ TypeInv /\ LiveInv /\ RunInv /\ ~trace.finished /\ stack = <<>> /\ Len(caught) = 1
      /\ trace' = Failed(trace, caught[1].exc)
      /\ UNCHANGED <<spans, stack, flying, caught, cause, stored, origin, handled>>
  BY DEF TraceInv, FailCurrent, Steps
<1>2. 1 \in DOMAIN caught /\ Len(stack) = 0
  BY <1>1, TopIs DEF TypeInv
<1>3. PICK f \in Exceptions, k \in 0..Len(stack) : f = caught[1].exc /\ k = caught[1].depth /\ Rides(f, k)
  BY <1>2, CaughtRides
<1>4. Rides(f, 0) /\ f # Nothing /\ f # Disconnected
  <2>1. k = 0
    BY <1>2
  <2>2. QED
    BY <1>1, <1>3, <2>1, ExceptionIsNat DEF Exceptions, Disconnected
<1>5. PICK w : w = Failed(trace, f)
  OBVIOUS
<1>6. /\ w = [streaming |-> w.streaming, status |-> w.status, error |-> w.error,
              blamed |-> w.blamed, stage |-> w.stage, finished |-> w.finished]
      /\ w.status = "failed" /\ w.finished = FALSE
      /\ trace.error # Nothing => w.error = trace.error /\ w.blamed = trace.blamed
      /\ trace.error = Nothing => w.error = f /\ w.blamed = FailureSpan(f)
  BY <1>1, <1>4, <1>5, FailedIs
<1>7. w.error # Nothing /\ w.error # Disconnected /\ trace' = w
  BY <1>1, <1>3, <1>4, <1>5, <1>6 DEF RunInv
<1>8. RunInv'
  <2>1. EndsOnce' /\ InterruptedAreTold'
    BY <1>6, <1>7 DEF EndsOnce, InterruptedAreTold
  <2>2. \A s \in DOMAIN spans' : spans'[s].exc # Exits
    BY <1>1 DEF RunInv
  <2>3. stored' = "running"
    BY <1>1 DEF RunInv
  <2>4. QED
    BY <1>6, <1>7, <2>1, <2>2, <2>3 DEF RunInv
<1>9. StackInv' /\ WaysInv' /\ TypeInv'
  BY <1>1, StillKeeps DEF TypeInv, Exceptions
<1>10. LiveInv'
  BY <1>1 DEF LiveInv, Rides, Through, Below
<1>11. BlameInv'
  BY <1>1, <1>4, <1>6, <1>7, FailureBlamed
<1>12. QED
  BY <1>8, <1>9, <1>10, <1>11 DEF TraceInv

\* What closing a stream makes of the spans: those that were open were left by it, and all
\* of them tell of that.
LEMMA ClosedSpans ==
    ASSUME TypeInv, RunInv, ~trace.finished, CloseStream
    PROVE  /\ spans' \in Seq(SpanRows) /\ DOMAIN spans' = DOMAIN spans
           /\ \A s \in DOMAIN spans :
                /\ spans'[s].parent = spans[s].parent
                /\ s \notin ToSet(stack) => spans'[s] = spans[s]
                /\ s \in ToSet(stack) => spans'[s].exc = Exits /\ spans'[s].tells
<1>1. spans' = [s \in DOMAIN spans |-> IF s \in ToSet(stack) THEN Left(s, Exits) ELSE spans[s]]
  BY DEF CloseStream
<1>2. spans \in Seq(SpanRows) /\ Len(spans) \in Nat /\ DOMAIN spans = 1..Len(spans)
  BY DEF TypeInv
<1>3. ASSUME NEW s \in DOMAIN spans
      PROVE  Left(s, Exits) \in SpanRows /\ Left(s, Exits).exc = Exits /\ Left(s, Exits).tells
             /\ Left(s, Exits).parent = spans[s].parent
  <2>1. PICK r \in SpanRows : r = spans[s]
    BY <1>2
  <2>2. (~PassedThroughChild(s, Exits)) = TRUE
    BY DEF PassedThroughChild, RunInv
  <2>3. Left(s, Exits) = [r EXCEPT !.status = "error", !.exc = Exits, !.tells = TRUE]
    BY <2>1, <2>2 DEF Left
  <2>4. PICK y : y = [r EXCEPT !.status = "error", !.exc = Exits, !.tells = TRUE]
    OBVIOUS
  <2>5. y \in SpanRows /\ y.exc = Exits /\ y.tells = TRUE /\ y.parent = r.parent
    BY <2>1, <2>4 DEF SpanRows, Exits
  <2>6. QED
    BY <2>1, <2>3, <2>4, <2>5
<1>4. ASSUME NEW s \in DOMAIN spans
      PROVE  /\ spans'[s] \in SpanRows /\ spans'[s].parent = spans[s].parent
             /\ s \notin ToSet(stack) => spans'[s] = spans[s]
             /\ s \in ToSet(stack) => spans'[s].exc = Exits /\ spans'[s].tells
  <2>1. spans'[s] = IF s \in ToSet(stack) THEN Left(s, Exits) ELSE spans[s]
    BY <1>1
  <2>2. spans[s] \in SpanRows
    BY <1>2
  <2>3. QED
    BY <1>3, <2>1, <2>2
<1>5. spans' = [s \in 1..Len(spans) |-> spans'[s]]
  BY <1>1, <1>2
<1>6. spans' \in Seq(SpanRows) /\ DOMAIN spans' = DOMAIN spans
  BY <1>2, <1>4, <1>5
<1>7. QED
  BY <1>4, <1>6

LEMMA CloseStreamKeeps ==
    ASSUME TraceInv, CloseStream
    PROVE  TraceInv'
<1>1. /\ TypeInv /\ StackInv /\ WaysInv /\ RunInv /\ BlameInv /\ ~trace.finished /\ flying = Nothing
      /\ stack' = <<>> /\ caught' = <<>> /\ UNCHANGED <<flying, cause, origin, handled>>
  BY DEF TraceInv, CloseStream, Steps
<1>2. PICK w : w = IF trace.status = "failed" THEN trace ELSE Failed(trace, Disconnected)
  OBVIOUS
<1>3. trace' = Finished(w) /\ stored' \in {stored, Finished(w).status}
  BY <1>2 DEF CloseStream, Finish
<1>4. /\ spans' \in Seq(SpanRows) /\ DOMAIN spans' = DOMAIN spans
      /\ \A s \in DOMAIN spans :
           /\ spans'[s].parent = spans[s].parent
           /\ s \notin ToSet(stack) => spans'[s] = spans[s]
           /\ s \in ToSet(stack) => spans'[s].exc = Exits /\ spans'[s].tells
  BY <1>1, ClosedSpans
<1>5. \A s \in ToSet(stack) : s \in DOMAIN spans /\ spans[s].exc = Nothing
  <2>1. \A i \in DOMAIN stack : stack[i] \in DOMAIN spans /\ spans[stack[i]].exc = Nothing
    BY <1>1 DEF TypeInv, StackInv
  <2>2. QED
    BY <2>1 DEF ToSet
<1>6. ASSUME NEW c \in Exceptions
      PROVE  Through(c)' = Through(c) /\ \A s \in Through(c) : spans'[s] = spans[s]
  <2>1. c # Nothing /\ c # Exits
    BY <1>1, ExceptionIsNat DEF Exceptions, Exits
  <2>2. \A s \in DOMAIN spans : spans'[s].exc = c <=> spans[s].exc = c
    BY <1>4, <1>5, <2>1
  <2>3. Through(c)' = Through(c)
    BY <1>4, <2>2 DEF Through
  <2>4. QED
    BY <1>4, <1>5, <2>1, <2>3 DEF Through
<1>7. Nothing # Disconnected
  BY TraceAssumption DEF Disconnected
<1>8. /\ w = [streaming |-> w.streaming, status |-> w.status, error |-> w.error,
              blamed |-> w.blamed, stage |-> w.stage, finished |-> w.finished]
      /\ w.status = "failed" /\ w.error # Nothing
      /\ trace.error # Nothing => w.error = trace.error /\ w.error # Disconnected /\ w.blamed = trace.blamed
      /\ trace.error = Nothing => w.error = Disconnected /\ w.blamed = FailureSpan(Disconnected)
  <2>1. CASE trace.status = "failed"
    BY <1>1, <1>2, <2>1 DEF RunInv
  <2>2. CASE trace.status # "failed"
    <3>1. trace.error = Nothing
      BY <1>1, <2>2 DEF RunInv
    <3>2. w = Failed(trace, Disconnected)
      BY <1>2, <2>2
    <3>3. QED
      BY <1>1, <1>7, <3>1, <3>2, FailedIs
  <2>3. QED
    BY <2>1, <2>2
<1>9. FailureSpan(Disconnected) = Top
  <2>1. Chain(Disconnected) = {}
    BY DEF Chain, Disconnected
  <2>2. QED
    BY <2>1 DEF FailureSpan
<1>10. PICK x : x = Finished(w)
  OBVIOUS
<1>11. /\ x = [streaming |-> x.streaming, status |-> x.status, error |-> x.error,
               blamed |-> x.blamed, stage |-> x.stage, finished |-> x.finished]
       /\ x.finished = TRUE /\ x.error = w.error /\ x.blamed = w.blamed /\ x.status = "failed"
  BY <1>8, <1>10 DEF Finished
<1>12. trace' = x /\ stored' \in {"running", "failed"}
  BY <1>1, <1>3, <1>10, <1>11 DEF RunInv
<1>13. InterruptedAreTold'
  <2>1. SUFFICES ASSUME x.error = Disconnected, NEW s \in DOMAIN spans', spans'[s].exc = Exits
                 PROVE  x.blamed # Nothing /\ spans'[x.blamed].exc = Exits /\ spans'[x.blamed].tells
    BY <1>12 DEF InterruptedAreTold
  <2>2. x.blamed = Top
    BY <1>8, <1>9, <1>11, <2>1
  <2>3. s \in ToSet(stack)
    <3>1. spans[s].exc # Exits
      BY <1>1, <1>4 DEF RunInv
    <3>2. QED
      BY <1>4, <2>1, <3>1
  <2>4. stack # <<>>
    BY <2>3 DEF ToSet
  <2>5. Top \in DOMAIN spans /\ Top \in ToSet(stack) /\ Top # Nothing
    BY <1>1, <2>4, TopIs DEF ToSet
  <2>6. QED
    BY <1>4, <2>2, <2>5
<1>14. RunInv'
  <2>1. EndsOnce'
    BY <1>1, <1>8, <1>11, <1>12 DEF EndsOnce
  <2>2. QED
    BY <1>11, <1>12, <1>13, <2>1 DEF RunInv
<1>15. TypeInv'
  <2>1. ASSUME NEW s \in DOMAIN spans
        PROVE  spans'[s].parent \in DOMAIN spans \cup {Nothing} /\ spans'[s].exc \in 0..Len(cause) \cup {Nothing}
    <3>1. spans[s].parent \in DOMAIN spans \cup {Nothing} /\ spans[s].exc \in 0..Len(cause) \cup {Nothing}
      BY <1>1 DEF TypeInv
    <3>2. Exits \in 0..Len(cause)
      BY <1>1, ExceptionIsNat DEF Exits
    <3>3. QED
      BY <1>4, <3>1, <3>2
  <2>2. \A c \in Exceptions : origin[c] \in DOMAIN spans \cup {Nothing}
    BY <1>1 DEF TypeInv
  <2>3. stack' \in Seq(Nat) /\ caught' \in Seq(Handlers) /\ DOMAIN stack' = {} /\ DOMAIN caught' = {}
    BY <1>1
  <2>4. QED
    BY <1>1, <1>4, <2>1, <2>2, <2>3 DEF TypeInv, Exceptions
<1>16. StackInv'
  <2>1. DOMAIN stack' = {}
    BY <1>1
  <2>2. QED
    BY <2>1 DEF StackInv
<1>17. WaysInv'
  <2>1. ASSUME NEW c \in Exceptions PROVE OneWay(c)'
    <3>1. OneWay(c) /\ origin'[c] = origin[c] /\ handled' = handled
      BY <1>1 DEF WaysInv
    <3>2. QED
      BY <1>6, <3>1 DEF OneWay
  <2>2. QED
    BY <1>1, <2>1 DEF WaysInv, Exceptions
<1>18. LiveInv'
  <2>1. DOMAIN caught' = {} /\ flying' = Nothing
    BY <1>1
  <2>2. QED
    BY <2>1 DEF LiveInv
<1>19. BlameInv'
  <2>1. CASE trace.error = Nothing
    BY <1>8, <1>11, <1>12, <2>1 DEF BlameInv
  <2>2. CASE trace.error # Nothing
    <3>1. trace'.error = trace.error /\ trace'.blamed = trace.blamed
      BY <1>8, <1>11, <1>12, <2>2
    <3>2. ASSUME NEW c \in Exceptions, NEW s \in Through(c), spans[s].parent = Nothing
          PROVE  s \in Through(c)' /\ spans'[s].parent = Nothing
      BY <1>6, <3>2
    <3>3. Exceptions \subseteq Exceptions' /\ \A c \in Exceptions : cause'[c] = cause[c] /\ origin'[c] = origin[c]
      BY <1>1 DEF Exceptions
    <3>4. QED
      BY <1>1, <3>1, <3>2, <3>3, BlameGrows
  <2>3. QED
    BY <2>1, <2>2
<1>20. QED
  BY <1>14, <1>15, <1>16, <1>17, <1>18, <1>19 DEF TraceInv

-----------------------------------------------------------------------------
(* The theorem *)

LEMMA TraceStarts == ASSUME TraceInit PROVE TraceInv
<1>1. /\ spans = <<>> /\ stack = <<>> /\ flying = Nothing /\ caught = <<>>
      /\ cause = <<>> /\ origin = <<>> /\ handled = {} /\ stored = "running"
  BY DEF TraceInit
<1>2. PICK s \in BOOLEAN :
        trace = [streaming |-> s, status |-> "running", error |-> Nothing, blamed |-> Nothing,
                 stage |-> Nothing, finished |-> FALSE]
  BY DEF TraceInit
<1>3. Len(cause) = 0 /\ Len(stack) = 0 /\ DOMAIN spans = {} /\ DOMAIN stack = {} /\ DOMAIN caught = {}
  BY <1>1
<1>4. Exceptions = {}
  BY <1>3 DEF Exceptions
<1>5. TypeInv
  BY <1>1, <1>3, <1>4 DEF TypeInv
<1>6. StackInv /\ WaysInv /\ LiveInv
  BY <1>1, <1>3, <1>4 DEF StackInv, WaysInv, LiveInv
<1>7. RunInv
  BY <1>1, <1>2, <1>3, TraceAssumption DEF RunInv, EndsOnce, InterruptedAreTold, Disconnected
<1>8. BlameInv
  BY <1>2 DEF BlameInv
<1>9. QED
  BY <1>5, <1>6, <1>7, <1>8 DEF TraceInv

LEMMA TraceKeeps == ASSUME TraceInv, [TraceNext]_traceVars PROVE TraceInv'
<1>1. CASE UNCHANGED traceVars
  <2>1. UNCHANGED <<spans, stack, flying, caught, cause, trace, stored, origin, handled>>
    BY <1>1 DEF traceVars
  <2>2. TypeInv' /\ StackInv'
    BY <2>1 DEF TraceInv, TypeInv, StackInv, Below, Exceptions
  <2>3. WaysInv'
    BY <2>1 DEF TraceInv, WaysInv, OneWay, Through, Exceptions
  <2>4. LiveInv'
    BY <2>1 DEF TraceInv, LiveInv, Rides, Through, Below
  <2>5. RunInv'
    BY <2>1 DEF TraceInv, RunInv, EndsOnce, InterruptedAreTold
  <2>6. BlameInv'
    BY <2>1, StillBlamed
  <2>7. QED
    BY <2>2, <2>3, <2>4, <2>5, <2>6 DEF TraceInv
<1>2. CASE \E stage \in Stage : Open(stage)
  BY <1>2, OpenKeeps
<1>3. CASE Record \/ Regroup \/ CloseSpan \/ Unwind
  BY <1>3, RecordKeeps, RegroupKeeps, CloseSpanKeeps, UnwindKeeps
<1>4. CASE Raise \/ Catch \/ Handled \/ RaiseAgain
  BY <1>4, RaiseKeeps, CatchKeeps, HandledKeeps, RaiseAgainKeeps
<1>5. CASE Return \/ Abort \/ FailCurrent \/ CloseStream
  BY <1>5, ReturnKeeps, AbortKeeps, FailCurrentKeeps, CloseStreamKeeps
<1>6. QED
  BY <1>1, <1>2, <1>3, <1>4, <1>5 DEF TraceNext

LEMMA TraceTells == ASSUME TraceInv PROVE TracesBlameTheCulprit
<1>1. TypeInv /\ WaysInv /\ RunInv /\ BlameInv
  BY DEF TraceInv
<1>2. BlamesTheCulprit
  <2>1. SUFFICES ASSUME trace.error \notin {Nothing, Disconnected}, trace.blamed # Nothing
                 PROVE  \E c \in Chain(trace.error) \ handled : origin[c] = trace.blamed
    BY DEF BlamesTheCulprit
  <2>2. PICK c \in Chain(trace.error) : origin[c] = trace.blamed /\ \E s \in Through(c) : spans[s].parent = Nothing
    BY <1>1, <2>1 DEF BlameInv
  <2>3. c \in Exceptions
    <3>1. PICK e \in Exceptions : e = trace.error
      BY <1>1, <2>1 DEF BlameInv
    <3>2. c \in 1..e
      BY <2>2, <3>1 DEF Chain
    <3>3. QED
      BY <1>1, <3>2, ExceptionIsNat DEF Exceptions
  <2>4. c \notin handled
    BY <1>1, <2>2, <2>3 DEF WaysInv, OneWay
  <2>5. QED
    BY <2>2, <2>4
<1>3. BlamesSomeone
  BY <1>1 DEF BlamesSomeone, BlameInv
<1>4. ToldOnce
  <2>1. ASSUME NEW e \in 1..Len(cause), {s \in DOMAIN spans : spans[s].exc = e} # {}
        PROVE  Cardinality({s \in {s \in DOMAIN spans : spans[s].exc = e} : spans[s].tells}) = 1
    <3>1. PICK S : S = {s \in DOMAIN spans : spans[s].exc = e}
      OBVIOUS
    <3>2. S = Through(e) /\ OneWay(e) /\ S # {}
      BY <1>1, <2>1, <3>1 DEF Through, WaysInv, Exceptions
    <3>3. {s \in S : spans[s].tells} = {origin[e]}
      BY <3>2 DEF OneWay
    <3>4. Cardinality({origin[e]}) = 1
      BY FS_Singleton
    <3>5. QED
      BY <3>1, <3>3, <3>4
  <2>2. QED
    BY <2>1 DEF ToldOnce
<1>5. QED
  BY <1>1, <1>2, <1>3, <1>4 DEF TracesBlameTheCulprit, RunInv

\* Whatever a request opens, raises, catches, raises again and leaves behind, and however
\* often: its trace blames the span in which what ended it was first seen, and none whose
\* exception was dealt with, tells of each exception exactly once, and calls the run
\* completed only if nothing failed.
THEOREM TheCulpritIsBlamed == TraceSpec => []TracesBlameTheCulprit
<1>1. TraceInit => TraceInv
  BY TraceStarts
<1>2. TraceInv /\ [TraceNext]_traceVars => TraceInv'
  BY TraceKeeps
<1>3. TraceInv => TracesBlameTheCulprit
  BY TraceTells
<1>4. QED
  BY <1>1, <1>2, <1>3, PTL DEF TraceSpec

-----------------------------------------------------------------------------
(* The gate of the study *)

Codes   == {"missing", "stale", "relation", "not_observed"}
Reasons == {"no_read", "read_not_ok", "item_not_read", "item_of_another"}
Founds  == {None} \cup UNION {[items -> Order] : items \in SUBSET Item}
Seen    == [id : Nat, order : Order, kind : {"result", "failure"}, found : Founds]

Records == [run : Nat, action : Action, grounded : BOOLEAN, code : Codes \cup {None}, reason : Reasons \cup {None},
            agrees : BOOLEAN, attribution : {None, "fail_closed", "false", "true"}]

\* What is not there is no action, no code and no record.
NoneIsNone == None \notin Action \cup Codes \cup Reasons \cup Records \cup {"fail_closed", "false", "true"}

\* What each variable holds.
StudyTypeInv ==
    /\ mode \in {"shadow", "enforce"}
    /\ policy = [forwarded |-> policy.forwarded, obs |-> policy.obs, before |-> policy.before]
    /\ policy.forwarded \in Seq(Order) /\ policy.obs \in Seq(Seen)
    /\ decisions \in Seq(Records) /\ results \in Seq(Action \cup {None})
    /\ saw \in Seq(Seq(Seen)) /\ Len(saw) = Len(results)

\* A record says of its policy run what the gate made of its action.
Judges(d) ==
    /\ d.run \in DOMAIN results
    /\ d.grounded <=> d.code = None
    /\ d.grounded => d.agrees
    /\ mode = "enforce" /\ ~d.grounded => results[d.run] = None
    /\ results[d.run] # None =>
         /\ results[d.run] = d.action
         /\ d.grounded => Supported(d.action, saw[d.run])
         /\ ~d.grounded /\ diagnostics = {} => ~Supported(d.action, saw[d.run])
    /\ d.attribution = "fail_closed" => diagnostics # {}
    /\ d.attribution # "false"
    /\ d.attribution = "true" => d.code \in ReasonCodes[d.reason]

\* Each record is of another policy run, and no action went by without one.
RecordInv ==
    /\ \A k \in DOMAIN decisions : Judges(decisions[k])
    /\ \A j, k \in DOMAIN decisions : decisions[j].run = decisions[k].run => j = k
    /\ \A n \in DOMAIN results : results[n] # None => \E k \in DOMAIN decisions : decisions[k].run = n

StudyInv == StudyTypeInv /\ RecordInv

-----------------------------------------------------------------------------
(* The gate and the second reading of its rules *)

LEMMA LatestIs ==
    ASSUME NEW reads \in Seq(Seen), NEW order, NEW n, n = Latest(reads, order)
    PROVE  /\ n \in 0 .. Len(reads) /\ Len(reads) \in Nat
           /\ n = 0 => \A j \in DOMAIN reads : reads[j].order # order
           /\ n # 0 => n \in DOMAIN reads /\ reads[n].order = order
           /\ \A j \in DOMAIN reads : reads[j].order = order => j <= n
<1>1. Len(reads) \in Nat /\ DOMAIN reads = 1 .. Len(reads)
  OBVIOUS
<1>2. PICK S : S = {0} \cup {k \in DOMAIN reads : reads[k].order = order}
  OBVIOUS
<1>3. S \in SUBSET (0 .. Len(reads)) /\ S # {}
  BY <1>1, <1>2
<1>4. Max(S) \in S /\ \A x \in S : x <= Max(S)
  BY <1>1, <1>3, MaxOf
<1>5. n = Max(S)
  BY <1>2 DEF Latest
<1>6. QED
  BY <1>1, <1>2, <1>3, <1>4, <1>5

LEMMA LinksAre ==
    ASSUME NEW read \in Seen, NEW a \in Action
    PROVE  /\ Links(read, a.item) = {a.order} =>
                read.found # None /\ a.item \in DOMAIN read.found /\ read.found[a.item] = a.order
           /\ read.found # None /\ a.item \in DOMAIN read.found /\ read.found[a.item] = a.order =>
                Links(read, a.item) = {a.order}
BY DEF Links

\* Both read the same rules, and of reads that are whole the gate admits what they support.
LEMMA GateReads ==
    ASSUME NoneIsNone, NEW reads \in Seq(Seen), NEW a \in Action
    PROVE  /\ GroundAction(a, reads) \in Codes \cup {None} /\ Audit(a, reads) \in Reasons \cup {None}
           /\ GroundAction(a, reads) = None <=> Audit(a, reads) = None
           /\ GroundAction(a, reads) # None => GroundAction(a, reads) \in ReasonCodes[Audit(a, reads)]
           /\ reads = <<>> => GroundAction(a, reads) # None
           /\ (\A k \in DOMAIN reads : reads[k].id # 0 /\ reads[k].kind = "result") =>
                (GroundAction(a, reads) = None <=> Supported(a, reads))
<1>1. PICK n : n = Latest(reads, a.order)
  OBVIOUS
<1>2. /\ n \in 0 .. Len(reads) /\ Len(reads) \in Nat
      /\ n = 0 => \A j \in DOMAIN reads : reads[j].order # a.order
      /\ n # 0 => n \in DOMAIN reads /\ reads[n].order = a.order
      /\ \A j \in DOMAIN reads : reads[j].order = a.order => j <= n
  BY <1>1, LatestIs
<1>3. DOMAIN reads = 1 .. Len(reads) /\ \A k \in DOMAIN reads : reads[k] \in Seen
  OBVIOUS
<1>4. PICK elsewhere : elsewhere = UNION {Links(reads[k], a.item) : k \in (DOMAIN reads) \ {n}}
  OBVIOUS
<1>5. PICK links : links = Links(reads[n], a.item)
  OBVIOUS
<1>6. None \notin Codes \cup Reasons
  BY DEF NoneIsNone
<1>7. GroundAction(a, reads) =
        IF n = 0 THEN "missing"
        ELSE IF reads[n].found = None THEN "stale"
        ELSE IF links # {} THEN IF links = {a.order} THEN None ELSE "relation"
        ELSE IF elsewhere = {} THEN "not_observed"
        ELSE IF elsewhere = {a.order} THEN "stale" ELSE "relation"
  BY <1>1, <1>4, <1>5 DEF GroundAction
<1>8. Audit(a, reads) =
        IF n = 0 THEN "no_read"
        ELSE IF reads[n].found = None THEN "read_not_ok"
        ELSE IF links = {} THEN "item_not_read"
        ELSE IF links = {a.order} THEN None ELSE "item_of_another"
  BY <1>1, <1>5 DEF Audit
<1>9. links = {a.order} => links # {}
  OBVIOUS
<1>10. /\ GroundAction(a, reads) \in Codes \cup {None} /\ Audit(a, reads) \in Reasons \cup {None}
       /\ GroundAction(a, reads) = None <=> Audit(a, reads) = None
       /\ GroundAction(a, reads) = None <=> n # 0 /\ reads[n].found # None /\ links = {a.order}
  BY <1>6, <1>7, <1>8, <1>9 DEF Codes, Reasons
<1>11. ASSUME GroundAction(a, reads) # None PROVE GroundAction(a, reads) \in ReasonCodes[Audit(a, reads)]
  <2>1. /\ ReasonCodes["no_read"] = {"missing"} /\ ReasonCodes["read_not_ok"] = {"stale"}
        /\ ReasonCodes["item_not_read"] = {"not_observed", "stale", "relation"}
        /\ ReasonCodes["item_of_another"] = {"relation"}
    BY DEF ReasonCodes
  <2>2. QED
    BY <1>7, <1>8, <1>9, <1>11, <2>1
<1>12. reads = <<>> => n = 0
  BY <1>2
<1>13. ASSUME \A k \in DOMAIN reads : reads[k].id # 0 /\ reads[k].kind = "result"
       PROVE  GroundAction(a, reads) = None <=> Supported(a, reads)
  <2>1. ASSUME n # 0, reads[n].found # None, links = {a.order} PROVE Supported(a, reads)
    <3>1. n \in DOMAIN reads /\ reads[n].order = a.order /\ reads[n] \in Seen
      BY <2>1, <1>2, <1>3
    <3>2. a.item \in DOMAIN reads[n].found /\ reads[n].found[a.item] = a.order
      BY <2>1, <3>1, <1>5, LinksAre
    <3>3. \A j \in n + 1 .. Len(reads) : reads[j].order # a.order
      BY <1>2, <1>3
    <3>4. QED
      BY <2>1, <3>1, <3>2, <3>3, <1>13 DEF Supported
  <2>2. ASSUME Supported(a, reads) PROVE n # 0 /\ reads[n].found # None /\ links = {a.order}
    <3>1. PICK k \in DOMAIN reads :
            /\ reads[k].order = a.order /\ reads[k].found # None
            /\ a.item \in DOMAIN reads[k].found /\ reads[k].found[a.item] = a.order
            /\ \A j \in k + 1 .. Len(reads) : reads[j].order # a.order
      BY <2>2 DEF Supported
    <3>2. k <= n /\ k \in 1 .. Len(reads) /\ n \in DOMAIN reads /\ reads[n].order = a.order
      BY <3>1, <1>2, <1>3
    <3>3. ~(n \in k + 1 .. Len(reads))
      BY <3>1, <3>2
    <3>4. k = n
      BY <3>2, <3>3, <1>2
    <3>5. reads[n] \in Seen
      BY <3>2, <1>3
    <3>6. QED
      BY <3>1, <3>2, <3>4, <3>5, <1>5, LinksAre
  <2>3. QED
    BY <2>1, <2>2, <1>10
<1>14. QED
  BY <1>10, <1>11, <1>12, <1>13

\* The reads of a policy run are looked at all together or not at all, and then something
\* was diagnosed.
LEMMA FixedIs ==
    ASSUME NEW p, p.obs \in Seq(Seen), p.forwarded \in Seq(Order), NEW seen, seen = FixVisible(p)
    PROVE  /\ seen.complete \in BOOLEAN
           /\ seen.complete => /\ seen.visible = p.obs /\ seen.views = p.obs
                              /\ \A k \in DOMAIN p.obs : p.obs[k].id # 0 /\ p.obs[k].kind = "result"
           /\ ~seen.complete => seen.visible = <<>> /\ Diagnoses(p) # {}
<1>1. PICK C \in BOOLEAN :
         C <=> (\A n \in DOMAIN p.obs : Paired(p, p.obs[n])) /\ IsInjective([n \in DOMAIN p.obs |-> p.obs[n].id])
  OBVIOUS
<1>2. PICK own : own = SelectSeq(p.obs, LAMBDA x : Forwarded(p, x) /\ x.order = p.forwarded[x.id])
  OBVIOUS
<1>3. seen = [visible |-> IF C THEN (IF C THEN p.obs ELSE own) ELSE <<>>, views |-> IF C THEN p.obs ELSE own, complete |-> C]
  BY <1>1, <1>2 DEF FixVisible
<1>4. \A k \in DOMAIN p.obs : Paired(p, p.obs[k]) => p.obs[k].id # 0 /\ p.obs[k].kind = "result"
  <2>1. DOMAIN p.forwarded = 1 .. Len(p.forwarded)
    OBVIOUS
  <2>2. QED
    BY <2>1 DEF Paired, Forwarded
<1>5. ASSUME ~C PROVE Diagnoses(p) # {}
  <2>1. PICK left : left = UNION {IF ~Forwarded(p, x) THEN {"no_forwarded_call"}
                                  ELSE IF x.order # p.forwarded[x.id] THEN {"call_mismatch"}
                                  ELSE IF x.kind # "result" THEN {"no_tool_result"} ELSE {} : x \in Range(p.obs)}
    OBVIOUS
  <2>2. Diagnoses(p) = left \cup (IF IsInjective([n \in DOMAIN p.obs |-> p.obs[n].id]) THEN {} ELSE {"duplicate_id"})
    BY <2>1 DEF Diagnoses
  <2>3. CASE ~IsInjective([n \in DOMAIN p.obs |-> p.obs[n].id])
    BY <2>2, <2>3
  <2>4. CASE \E n \in DOMAIN p.obs : ~Paired(p, p.obs[n])
    <3>1. PICK n \in DOMAIN p.obs : ~Paired(p, p.obs[n])
      BY <2>4
    <3>2. PICK x : x = p.obs[n]
      OBVIOUS
    <3>3. x \in Range(p.obs)
      BY <3>2 DEF Range
    <3>4. PICK codes : codes = IF ~Forwarded(p, x) THEN {"no_forwarded_call"}
                               ELSE IF x.order # p.forwarded[x.id] THEN {"call_mismatch"}
                               ELSE IF x.kind # "result" THEN {"no_tool_result"} ELSE {}
      OBVIOUS
    <3>5. codes # {}
      BY <3>1, <3>2, <3>4 DEF Paired
    <3>6. codes \subseteq left
      BY <2>1, <3>3, <3>4
    <3>7. QED
      BY <2>2, <3>5, <3>6
  <2>5. QED
    BY <1>1, <1>5, <2>3, <2>4
<1>6. QED
  BY <1>1, <1>3, <1>4, <1>5

LEMMA AuditCode == ASSUME NEW a, NEW reads PROVE Audit(a, reads) \in Reasons \cup {None}
BY DEF Audit, Reasons

-----------------------------------------------------------------------------
(* The study: each step keeps the invariant *)

LEMMA StudyStarts == ASSUME CaseInit PROVE StudyInv
<1>1. /\ mode \in {"shadow", "enforce"} /\ policy = Fresh /\ decisions = <<>> /\ results = <<>> /\ saw = <<>>
  <2>1. Range(Modes) = {"shadow", "enforce"}
    BY DEF Range, Modes
  <2>2. QED
    BY <2>1 DEF CaseInit
<1>2. StudyTypeInv
  BY <1>1 DEF StudyTypeInv, Fresh
<1>3. RecordInv
  BY <1>1 DEF RecordInv
<1>4. QED
  BY <1>2, <1>3 DEF StudyInv

\* Diagnostics are only added.
LEMMA JudgesStill ==
    ASSUME NEW d, Judges(d), mode' = mode, diagnostics \subseteq diagnostics', d.run \in DOMAIN results',
           results'[d.run] = results[d.run], saw'[d.run] = saw[d.run]
    PROVE  Judges(d)'
BY DEF Judges, Supported

\* A record that stays is judged as before.
LEMMA RecordsStill ==
    ASSUME StudyTypeInv, RecordInv, mode' = mode, diagnostics \subseteq diagnostics',
           NEW k \in DOMAIN decisions, decisions'[k] = decisions[k],
           \A n \in DOMAIN results : n \in DOMAIN results' /\ results'[n] = results[n] /\ saw'[n] = saw[n]
    PROVE  Judges(decisions[k])' /\ decisions[k].run \in DOMAIN results
<1>1. PICK d : d = decisions[k]
  OBVIOUS
<1>2. Judges(d) /\ d.run \in DOMAIN results
  BY <1>1 DEF RecordInv, Judges
<1>3. Judges(d)'
  BY <1>2, JudgesStill
<1>4. decisions'[k] = d
  BY <1>1
<1>5. Judges(decisions[k])'
  BY <1>3, <1>4 DEF Judges
<1>6. QED
  BY <1>1, <1>2, <1>5

LEMMA CallKeepsRecords ==
    ASSUME StudyInv, NEW order \in Order, NEW found \in Founds, ToolCall(order, found)
    PROVE  StudyInv'
<1>1. PICK shown \in Shown(Len(policy.forwarded) + 1, order, found) :
        policy' = [policy EXCEPT !.forwarded = Append(@, order), !.obs = @ \o shown]
  BY DEF ToolCall
<1>2. UNCHANGED <<mode, decisions, results, saw>> /\ diagnostics \subseteq diagnostics'
  BY DEF ToolCall
<1>3. shown \in Seq(Seen)
  <2>1. PICK id \in Nat : id = Len(policy.forwarded) + 1
    BY DEF StudyInv, StudyTypeInv
  <2>2. PICK r : r = [id |-> id, order |-> order, kind |-> "result", found |-> found]
    OBVIOUS
  <2>3. \/ shown = <<r>> \/ shown = <<[id |-> id, order |-> order, kind |-> "failure", found |-> None]>>
        \/ shown = <<[r EXCEPT !.id = 0]>> \/ shown = <<r, r>> \/ \E o \in Order : shown = <<[r EXCEPT !.order = o]>>
    BY <2>1, <2>2 DEF Shown, Observed
  <2>4. r \in Seen /\ [r EXCEPT !.id = 0] \in Seen /\ \A o \in Order : [r EXCEPT !.order = o] \in Seen
    BY <2>2 DEF Seen
  <2>5. [id |-> id, order |-> order, kind |-> "failure", found |-> None] \in Seen
    BY DEF Seen, Founds
  <2>6. \E x, y \in Seen : shown = <<x>> \/ shown = <<x, y>>
    BY <2>3, <2>4, <2>5
  <2>7. PICK x, y \in Seen : shown = <<x>> \/ shown = <<x, y>>
    BY <2>6
  <2>8. <<x>> \in Seq(Seen) /\ <<x, y>> \in Seq(Seen)
    BY <2>7
  <2>9. QED
    BY <2>7, <2>8
<1>4. StudyTypeInv'
  <2>1. policy.forwarded \in Seq(Order) /\ policy.obs \in Seq(Seen)
    BY DEF StudyInv, StudyTypeInv
  <2>2. Append(policy.forwarded, order) \in Seq(Order) /\ policy.obs \o shown \in Seq(Seen)
    BY <2>1, <1>3
  <2>3. policy' = [forwarded |-> Append(policy.forwarded, order), obs |-> policy.obs \o shown, before |-> policy.before]
    BY <1>1 DEF StudyInv, StudyTypeInv
  <2>4. /\ policy'.forwarded = Append(policy.forwarded, order) /\ policy'.obs = policy.obs \o shown
        /\ policy' = [forwarded |-> policy'.forwarded, obs |-> policy'.obs, before |-> policy'.before]
    BY <2>3
  <2>5. QED
    BY <1>2, <2>2, <2>4 DEF StudyInv, StudyTypeInv
<1>5. RecordInv'
  <2>1. \A k \in DOMAIN decisions : Judges(decisions[k])'
    BY <1>2, RecordsStill DEF StudyInv
  <2>2. QED
    BY <2>1, <1>2 DEF StudyInv, RecordInv
<1>6. QED
  BY <1>4, <1>5 DEF StudyInv

\* A policy run that ends without an action.
LEMMA NothingKeeps ==
    ASSUME StudyInv, UNCHANGED <<mode, decisions>>, diagnostics \subseteq diagnostics', NextPolicy,
           results' = Append(results, None), saw' = Append(saw, <<>>)
    PROVE  StudyInv'
<1>1. StudyTypeInv /\ RecordInv
  BY DEF StudyInv
<1>2. PICK n : n = Len(results) + 1
  OBVIOUS
<1>3. /\ Len(results) \in Nat /\ Len(saw) = Len(results) /\ DOMAIN results = 1 .. Len(results)
      /\ DOMAIN results' = DOMAIN results \cup {n} /\ results'[n] = None
      /\ \A k \in DOMAIN results : results'[k] = results[k] /\ saw'[k] = saw[k]
  BY <1>1, <1>2 DEF StudyTypeInv
<1>4. StudyTypeInv'
  BY <1>1 DEF StudyTypeInv, NextPolicy, Fresh
<1>5. RecordInv'
  <2>1. \A k \in DOMAIN decisions : Judges(decisions[k])'
    BY <1>1, <1>3, RecordsStill
  <2>2. QED
    BY <2>1, <1>1, <1>3 DEF RecordInv
<1>6. QED
  BY <1>4, <1>5 DEF StudyInv

\* An action is judged, by the gate and again, and reaches the gateway or not.
LEMMA IntentKeeps ==
    ASSUME NoneIsNone, StudyInv, NEW a \in Action, ActionIntent(a)
    PROVE  StudyInv'
<1>1. StudyTypeInv /\ RecordInv
  BY DEF StudyInv
<1>2. PICK seen : seen = FixVisible(policy)
  OBVIOUS
<1>3. PICK code : code = GroundAction(a, seen.visible)
  OBVIOUS
<1>4. PICK reason : reason = Audit(a, seen.views)
  OBVIOUS
<1>5. PICK n : n = Len(results) + 1
  OBVIOUS
<1>6. PICK e : e = [run |-> n, action |-> a, grounded |-> code = None, code |-> code, reason |-> reason,
                    agrees |-> seen.complete => (code = None) = (reason = None), attribution |-> Attribution(code, seen, reason)]
  OBVIOUS
<1>7. /\ diagnostics' = diagnostics \cup Diagnoses(policy) /\ decisions' = Append(decisions, e)
      /\ results' = Append(results, IF Admits(code) THEN a ELSE None)
      /\ saw' = Append(saw, IF Admits(code) THEN policy.obs ELSE <<>>)
      /\ NextPolicy /\ UNCHANGED mode
  BY <1>2, <1>3, <1>4, <1>5, <1>6 DEF ActionIntent
<1>8. policy.obs \in Seq(Seen) /\ policy.forwarded \in Seq(Order)
  BY <1>1 DEF StudyTypeInv
<1>9. /\ seen.complete \in BOOLEAN
      /\ seen.complete => /\ seen.visible = policy.obs /\ seen.views = policy.obs
                          /\ \A k \in DOMAIN policy.obs : policy.obs[k].id # 0 /\ policy.obs[k].kind = "result"
      /\ ~seen.complete => seen.visible = <<>> /\ Diagnoses(policy) # {}
  BY <1>2, <1>8, FixedIs
<1>10. seen.visible \in Seq(Seen)
  <2>1. seen.visible = policy.obs \/ seen.visible = <<>>
    BY <1>9
  <2>2. PICK v, w : v = seen.visible /\ w = policy.obs
    OBVIOUS
  <2>3. w \in Seq(Seen) /\ (v = w \/ v = <<>>)
    BY <1>8, <2>1, <2>2
  <2>4. v \in Seq(Seen)
    <3>1. <<>> \in Seq(Seen)
      OBVIOUS
    <3>2. QED
      BY <2>3, <3>1, Zenon
  <2>5. QED
    BY <2>2, <2>4
<1>11. /\ code \in Codes \cup {None} /\ reason \in Reasons \cup {None}
       /\ seen.complete => (code = None <=> reason = None) /\ (code # None => code \in ReasonCodes[reason])
                           /\ (code = None <=> Supported(a, policy.obs))
       /\ ~seen.complete => code # None
  <2>1. code \in Codes \cup {None} /\ reason \in Reasons \cup {None} /\ (seen.visible = <<>> => code # None)
    BY <1>3, <1>4, <1>10, GateReads, AuditCode
  <2>2. CASE seen.complete
    <3>1. code = GroundAction(a, policy.obs) /\ reason = Audit(a, policy.obs)
      BY <2>2, <1>3, <1>4, <1>9
    <3>2. QED
      BY <2>1, <2>2, <3>1, <1>8, <1>9, GateReads
  <2>3. QED
    BY <2>1, <2>2, <1>9
<1>12. /\ Len(results) \in Nat /\ n \in Nat /\ Len(saw) = Len(results) /\ DOMAIN results = 1 .. Len(results)
       /\ DOMAIN results' = DOMAIN results \cup {n} /\ n \notin DOMAIN results
       /\ results'[n] = IF Admits(code) THEN a ELSE None
       /\ saw'[n] = IF Admits(code) THEN policy.obs ELSE <<>>
       /\ \A k \in DOMAIN results : results'[k] = results[k] /\ saw'[k] = saw[k]
  BY <1>1, <1>5, <1>7 DEF StudyTypeInv
<1>13. Attribution(code, seen, reason) \in {None, "fail_closed", "false", "true"}
  BY DEF Attribution
<1>14. e \in Records
  BY <1>6, <1>11, <1>12, <1>13 DEF Records
<1>15. e.run = n /\ e.action = a /\ e.code = code /\ (e.grounded <=> code = None)
       /\ (e.agrees <=> (seen.complete => (code = None) = (reason = None)))
       /\ e.reason = reason /\ e.attribution = Attribution(code, seen, reason)
  BY <1>6
<1>16. PICK m : m = Len(decisions) + 1
  OBVIOUS
<1>17. /\ DOMAIN decisions' = DOMAIN decisions \cup {m} /\ m \notin DOMAIN decisions /\ decisions'[m] = e
       /\ \A k \in DOMAIN decisions : decisions'[k] = decisions[k]
       /\ decisions' \in Seq(Records)
  BY <1>1, <1>7, <1>14, <1>16 DEF StudyTypeInv
<1>18. StudyTypeInv'
  <2>1. results' \in Seq(Action \cup {None}) /\ saw' \in Seq(Seq(Seen)) /\ Len(saw') = Len(results')
    BY <1>1, <1>7, <1>8 DEF StudyTypeInv
  <2>2. policy' = [forwarded |-> <<>>, obs |-> <<>>, before |-> policy'.before]
    BY <1>7 DEF NextPolicy, Fresh
  <2>3. policy'.forwarded = <<>> /\ policy'.obs = <<>>
    BY <2>2
  <2>4. QED
    BY <1>1, <1>7, <1>17, <2>1, <2>2, <2>3 DEF StudyTypeInv
<1>19. Judges(e)'
  <2>1. None \notin Codes \cup Reasons /\ a # None
    BY DEF NoneIsNone
  <2>2. e.grounded => e.agrees
    BY <1>11, <1>15
  <2>3. mode = "enforce" /\ ~e.grounded => results'[n] = None
    BY <1>12, <1>15 DEF Admits
  <2>4. results'[n] # None => results'[n] = a /\ saw'[n] = policy.obs
    BY <1>12
  <2>5. e.grounded => Supported(a, policy.obs)
    BY <1>11, <1>15
  <2>6. ~e.grounded /\ diagnostics' = {} => ~Supported(a, policy.obs)
    BY <1>7, <1>9, <1>11, <1>15
  <2>7. /\ e.attribution = "fail_closed" => diagnostics' # {}
        /\ e.attribution # "false"
        /\ e.attribution = "true" => e.code \in ReasonCodes[e.reason]
    <3>1. e.attribution = IF code = None THEN None ELSE IF ~seen.complete THEN "fail_closed"
                          ELSE IF reason = None THEN "false" ELSE "true"
      BY <1>15 DEF Attribution
    <3>2. None \notin {"fail_closed", "false", "true"}
      BY DEF NoneIsNone
    <3>3. ~seen.complete => diagnostics' # {}
      BY <1>7, <1>9
    <3>4. seen.complete /\ code # None => reason # None /\ e.code \in ReasonCodes[e.reason]
      BY <1>11, <1>15
    <3>5. QED
      BY <3>1, <3>2, <3>3, <3>4
  <2>8. e.run \in DOMAIN results'
    BY <1>12, <1>15
  <2>9. results'[n] # None => (e.grounded => Supported(a, saw'[n])) /\ (~e.grounded /\ diagnostics' = {} => ~Supported(a, saw'[n]))
    BY <2>4, <2>5, <2>6
  <2>10. QED
    BY <1>7, <1>15, <2>2, <2>3, <2>4, <2>7, <2>8, <2>9 DEF Judges
<1>20. ASSUME NEW k \in DOMAIN decisions PROVE Judges(decisions[k])' /\ decisions[k].run \in DOMAIN results
  BY <1>1, <1>7, <1>12, <1>17, RecordsStill
<1>21. RecordInv'
  <2>1. \A k \in DOMAIN decisions' : Judges(decisions[k])'
    <3>1. Judges(decisions[m])'
      BY <1>17, <1>19 DEF Judges
    <3>2. QED
      BY <1>17, <1>20, <3>1
  <2>2. \A j, k \in DOMAIN decisions' : decisions'[j].run = decisions'[k].run => j = k
    BY <1>1, <1>12, <1>15, <1>17, <1>20 DEF RecordInv
  <2>3. \A x \in DOMAIN results' : results'[x] # None => \E k \in DOMAIN decisions' : decisions'[k].run = x
    <3>1. ASSUME NEW x \in DOMAIN results, results[x] # None PROVE \E k \in DOMAIN decisions' : decisions'[k].run = x
      <4>1. PICK k \in DOMAIN decisions : decisions[k].run = x
        BY <3>1, <1>1 DEF RecordInv
      <4>2. QED
        BY <4>1, <1>17
    <3>2. \E k \in DOMAIN decisions' : decisions'[k].run = n
      BY <1>15, <1>17
    <3>3. QED
      BY <3>1, <3>2, <1>12
  <2>4. QED
    BY <2>1, <2>2, <2>3 DEF RecordInv
<1>22. QED
  BY <1>18, <1>21 DEF StudyInv

LEMMA StudyStep == ASSUME NoneIsNone, StudyInv, [CaseNext]_caseVars PROVE StudyInv'
<1>1. CASE \E o \in Order, found \in Founds : ToolCall(o, found)
  BY <1>1, CallKeepsRecords
<1>2. CASE \E a \in Action : ActionIntent(a)
  BY <1>2, IntentKeeps
<1>3. CASE (\E invalid \in BOOLEAN : OtherDecision(invalid)) \/ OutOfSteps
  <2>1. /\ UNCHANGED <<mode, decisions>> /\ diagnostics \subseteq diagnostics' /\ NextPolicy
        /\ results' = Append(results, None) /\ saw' = Append(saw, <<>>)
    BY <1>3 DEF OtherDecision, OutOfSteps
  <2>2. QED
    BY <2>1, NothingKeeps
<1>4. CASE CaseEnds \/ UNCHANGED caseVars
  <2>1. UNCHANGED <<mode, policy, decisions, diagnostics, results, saw>>
    BY <1>4 DEF CaseEnds, caseVars
  <2>2. StudyTypeInv'
    BY <2>1 DEF StudyInv, StudyTypeInv
  <2>3. RecordInv'
    BY <2>1 DEF StudyInv, RecordInv, Judges, Supported
  <2>4. QED
    BY <2>2, <2>3 DEF StudyInv
<1>5. QED
  BY <1>1, <1>2, <1>3, <1>4 DEF CaseNext, Founds

-----------------------------------------------------------------------------
(* What the summary of the study says of a row *)

\* The record of what reached the gateway is found, and is the only one.
LEMMA DecisionIs ==
    ASSUME NoneIsNone, StudyInv, NEW row, row.decisions = decisions, row.run = results,
           NEW n \in DOMAIN results, results[n] # None
    PROVE  \E k \in DOMAIN decisions : /\ decisions[k].run = n /\ Judges(decisions[k])
                                       /\ Decision(row, n) = decisions[k] /\ Decision(row, n) # None
<1>1. StudyTypeInv /\ RecordInv
  BY DEF StudyInv
<1>2. PICK k \in DOMAIN decisions : decisions[k].run = n
  BY <1>1 DEF RecordInv
<1>3. Judges(decisions[k]) /\ decisions[k].action = results[n]
  BY <1>1, <1>2 DEF RecordInv, Judges
<1>4. PICK found : found = {j \in DOMAIN row.decisions : row.decisions[j].run = n /\ row.decisions[j].action = row.run[n]}
  OBVIOUS
<1>5. found = {k}
  BY <1>1, <1>2, <1>3, <1>4 DEF RecordInv
<1>6. Cardinality(found) = 1 /\ (CHOOSE j \in found : TRUE) = k
  BY <1>5, FS_Singleton
<1>7. Decision(row, n) = row.decisions[CHOOSE j \in found : TRUE]
  BY <1>4, <1>6 DEF Decision
<1>8. Decision(row, n) = decisions[k]
  BY <1>6, <1>7
<1>9. decisions[k] \in Records
  BY <1>1 DEF StudyTypeInv
<1>10. decisions[k] # None
  BY <1>9 DEF NoneIsNone
<1>11. QED
  BY <1>2, <1>3, <1>8, <1>10

\* Just what the reads of its run do not support counts as ungrounded, where nothing was
\* diagnosed, and under enforcement nothing does.
LEMMA CountedIs ==
    ASSUME NoneIsNone, StudyInv, NEW row, row.decisions = decisions, row.run = results,
           NEW n \in DOMAIN results, results[n] # None
    PROVE  /\ Decision(row, n) # None
           /\ mode = "enforce" => Supported(results[n], saw[n]) /\ Decision(row, n).grounded
           /\ diagnostics = {} => (Decision(row, n).grounded <=> Supported(results[n], saw[n]))
<1>1. PICK k \in DOMAIN decisions : /\ decisions[k].run = n /\ Judges(decisions[k])
                                    /\ Decision(row, n) = decisions[k] /\ Decision(row, n) # None
  BY DecisionIs
<1>2. PICK d : d = decisions[k]
  OBVIOUS
<1>3. Judges(d) /\ d.run = n /\ Decision(row, n) = d
  BY <1>1, <1>2
<1>4. QED
  BY <1>1, <1>3 DEF Judges

LEMMA GateFollows == ASSUME NoneIsNone, StudyInv PROVE GateIsJudged
<1>1. StudyTypeInv /\ RecordInv
  BY DEF StudyInv
<1>2. ASSUME NEW n \in Admissions([run |-> results])
      PROVE  /\ mode = "enforce" => Supported(results[n], saw[n])
             /\ diagnostics = {} /\ ~Supported(results[n], saw[n]) => n \in UngroundedAdmitted([Row EXCEPT !.run = results])
  <2>1. results # None /\ n \in DOMAIN results /\ results[n] # None
    BY DEF Admissions
  <2>2. PICK row : row = [Row EXCEPT !.run = results]
    OBVIOUS
  <2>3. row.decisions = decisions /\ row.run = results
    BY <2>2 DEF Row
  <2>4. n \in Admissions(row)
    BY <2>1, <2>3 DEF Admissions
  <2>5. /\ Decision(row, n) # None
        /\ mode = "enforce" => Supported(results[n], saw[n])
        /\ diagnostics = {} => (Decision(row, n).grounded <=> Supported(results[n], saw[n]))
    BY <2>1, <2>3, CountedIs
  <2>6. QED
    BY <2>2, <2>4, <2>5 DEF UngroundedAdmitted
<1>3. PICK row : row = Row
  OBVIOUS
<1>4. /\ row.decisions = decisions /\ row.mode = mode /\ row.diagnostics = diagnostics
      /\ row.run = IF ended = "lost" THEN None ELSE results
  BY <1>3 DEF Row
<1>5. ASSUME NEW n \in Admissions(row)
      PROVE  /\ Decision(row, n) # None
             /\ mode = "enforce" => Decision(row, n).grounded
             /\ diagnostics = {} => (Decision(row, n).grounded <=> Supported(results[n], saw[n]))
  <2>1. row.run # None /\ n \in DOMAIN row.run /\ row.run[n] # None
    BY DEF Admissions
  <2>2. row.run = results
    BY <2>1, <1>4
  <2>3. n \in DOMAIN results /\ results[n] # None
    BY <2>1, <2>2
  <2>4. QED
    BY <2>2, <2>3, <1>4, CountedIs
<1>6. \A d \in Range(decisions) : Judges(d)
  BY <1>1 DEF RecordInv, Range
<1>7. PICK some : some = UngroundedAdmitted(row)
  OBVIOUS
<1>8. some = {n \in Admissions(row) : Decision(row, n) # None /\ ~Decision(row, n).grounded}
  BY <1>7 DEF UngroundedAdmitted
<1>9. "no_record" \notin Problems(row)
  <2>1. "no_record" \in Problems(row) => \E n \in Admissions(row) : Decision(row, n) = None
    BY DEF Problems
  <2>2. QED
    BY <2>1, <1>5
<1>10. "enforce_admitted" \notin Problems(row)
  <2>1. "enforce_admitted" \in Problems(row) => row.mode = "enforce" /\ UngroundedAdmitted(row) # {}
    BY DEF Problems
  <2>2. mode = "enforce" => some = {}
    BY <1>5, <1>8
  <2>3. QED
    BY <2>1, <2>2, <1>4, <1>7
<1>11. "code_inconsistent" \notin Problems(row)
  <2>1. "code_inconsistent" \in Problems(row) =>
          \E d \in Range(row.decisions) : d.attribution = "true" /\ d.code \notin ReasonCodes[d.reason]
    BY DEF Problems
  <2>2. QED
    BY <2>1, <1>4, <1>6 DEF Judges
<1>12. "admission_rejected" \notin Problems(row)
  <2>1. "admission_rejected" \in Problems(row) => \E d \in Range(row.decisions) : d.grounded /\ ~d.agrees
    BY DEF Problems
  <2>2. QED
    BY <2>1, <1>4, <1>6 DEF Judges
<1>13. "fail_closed" \in Problems(row) => "diagnostics" \in Problems(row)
  <2>1. "fail_closed" \in Problems(row) => \E d \in Range(row.decisions) : d.attribution = "fail_closed"
    BY DEF Problems
  <2>2. row.diagnostics # {} => "diagnostics" \in Problems(row)
    BY DEF Problems
  <2>3. QED
    BY <2>1, <2>2, <1>4, <1>6 DEF Judges
<1>14. Problems(row) \subseteq {"fail_closed", "diagnostics"}
  <2>1. Problems(row) \subseteq {"no_record", "enforce_admitted", "fail_closed", "code_inconsistent", "admission_rejected", "diagnostics"}
    BY DEF Problems
  <2>2. QED
    BY <2>1, <1>9, <1>10, <1>11, <1>12
<1>15. \A d \in Range(decisions) : d.attribution # "false"
  BY <1>6 DEF Judges
<1>16. diagnostics = {} => \A n \in some : ~Supported(results[n], saw[n])
  BY <1>5, <1>8
<1>17. QED
  BY <1>2, <1>3, <1>7, <1>13, <1>14, <1>15, <1>16 DEF GateIsJudged

\* Under enforcement nothing reaches the gateway that the reads of its own policy run do not
\* support; gate and second reading never disagree, and each admission has its one record.
THEOREM GateJudged == ASSUME NoneIsNone PROVE CaseSpec => []GateIsJudged
<1>1. CaseInit => StudyInv
  BY StudyStarts
<1>2. StudyInv /\ [CaseNext]_caseVars => StudyInv'
  BY StudyStep
<1>3. StudyInv => GateIsJudged
  BY GateFollows
<1>4. QED
  BY <1>1, <1>2, <1>3, PTL DEF CaseSpec

-----------------------------------------------------------------------------
(* The places of an experiment *)

StudySize == Rounds \in Nat /\ Cases \in Nat \ {0}

Total == Rounds * Len(Modes) * Cases

StudyRows ==
    [round : Nat, mode : {"shadow", "enforce"}, case : Nat, how : {"scored", "broken", "provider", "error"}, ok : BOOLEAN]

\* What is not there is no directory with rows.
NoneIsNoRows == None \notin Seq(StudyRows)

\* The k-th row is of the k-th place: round by round, and in a round mode by mode.
Placed(k, row) ==
    /\ row.round = ((k - 1) \div (2 * Cases)) + 1
    /\ row.mode = Modes[(((k - 1) \div Cases) % 2) + 1]
    /\ row.case = ((k - 1) % Cases) + 1

\* A directory is written from its beginning; a summary is of all that was written.
SummaryInv ==
    /\ out = None \/ out \in Seq(StudyRows)
    /\ out # None => Len(out) <= Total /\ \A k \in DOMAIN out : Placed(k, out[k])
    /\ running => out # None
    /\ report # None => /\ out # None /\ ~running
                        /\ report.of = SummarizeRows(out) /\ (report.interrupted \/ Len(out) = Total)

LEMMA TwoModes == Len(Modes) = 2 /\ Modes[1] = "shadow" /\ Modes[2] = "enforce" /\ Range(Modes) = {"shadow", "enforce"}
<1>1. Len(Modes) = 2 /\ Modes[1] = "shadow" /\ Modes[2] = "enforce" /\ DOMAIN Modes = {1, 2}
  BY DEF Modes
<1>2. QED
  BY <1>1 DEF Range

LEMMA ModeAt == ASSUME NEW q \in {0, 1} PROVE Modes[q + 1] = IF q = 0 THEN "shadow" ELSE "enforce"
<1>1. q + 1 = IF q = 0 THEN 1 ELSE 2
  OBVIOUS
<1>2. QED
  BY <1>1, TwoModes

LEMMA Division ==
    ASSUME NEW d \in Nat \ {0}, NEW n \in Nat
    PROVE  n \div d \in Nat /\ n % d \in 0 .. d - 1 /\ n = d * (n \div d) + (n % d)
OBVIOUS

LEMMA Multiplied ==
    ASSUME NEW d \in Nat, NEW x \in Nat, NEW y \in Nat, x <= y
    PROVE  d * x <= d * y /\ d * x \in Nat
OBVIOUS

LEMMA DivisionIs ==
    ASSUME NEW d \in Nat \ {0}, NEW a \in Nat, NEW c \in 0 .. d - 1, NEW n \in Nat, n = d * a + c
    PROVE  n \div d = a /\ n % d = c
<1>1. PICK x \in Nat, y \in 0 .. d - 1 : n = d * x + y /\ x = n \div d /\ y = n % d
  BY Division
<1>2. d * x \in Nat /\ d * a \in Nat
  BY Multiplied
<1>3. CASE x + 1 <= a
  <2>1. d * (x + 1) <= d * a /\ d * (x + 1) = d * x + d
    BY <1>3, Multiplied
  <2>2. QED
    BY <1>1, <1>2, <2>1
<1>4. CASE a + 1 <= x
  <2>1. d * (a + 1) <= d * x /\ d * (a + 1) = d * a + d
    BY <1>4, Multiplied
  <2>2. QED
    BY <1>1, <1>2, <2>1
<1>5. CASE a = x
  BY <1>1, <1>2, <1>5
<1>6. QED
  BY <1>3, <1>4, <1>5

\* The place of the c-th case of a mode of a round, and the way back.
LEMMA PlaceIs ==
    ASSUME StudySize, NEW a \in Nat, NEW q \in {0, 1}, NEW c \in 0 .. Cases - 1,
           NEW n \in Nat, n = (2 * Cases) * a + Cases * q + c
    PROVE  n \div (2 * Cases) = a /\ (n \div Cases) % 2 = q /\ n % Cases = c
<1>1. Cases \in Nat \ {0} /\ 2 * Cases \in Nat \ {0}
  BY DEF StudySize
<1>2. PICK e : e = Cases * q + c
  OBVIOUS
<1>3. e \in 0 .. (2 * Cases) - 1
  <2>1. CASE q = 0
    BY <1>1, <1>2, <2>1
  <2>2. CASE q = 1
    BY <1>1, <1>2, <2>2
  <2>3. QED
    BY <2>1, <2>2
<1>4. n = (2 * Cases) * a + e
  BY <1>1, <1>2
<1>5. n \div (2 * Cases) = a
  BY <1>1, <1>3, <1>4, DivisionIs
<1>6. PICK p \in Nat : p = 2 * a + q
  OBVIOUS
<1>7. n = Cases * p + c
  BY <1>1, <1>6
<1>8. n \div Cases = p /\ n % Cases = c
  BY <1>1, <1>7, DivisionIs
<1>9. p % 2 = q
  BY <1>6
<1>10. QED
  BY <1>5, <1>8, <1>9

LEMMA PlaceOf ==
    ASSUME StudySize, NEW n \in Nat
    PROVE  \E a \in Nat, q \in {0, 1}, c \in 0 .. Cases - 1 :
             /\ n = (2 * Cases) * a + Cases * q + c
             /\ n \div (2 * Cases) = a /\ (n \div Cases) % 2 = q /\ n % Cases = c
<1>1. Cases \in Nat \ {0}
  BY DEF StudySize
<1>2. PICK p \in Nat, c \in 0 .. Cases - 1 : n = Cases * p + c
  BY <1>1, Division
<1>3. PICK a \in Nat, q \in {0, 1} : p = 2 * a + q
  <2>1. p \div 2 \in Nat /\ p % 2 \in 0 .. 1 /\ p = 2 * (p \div 2) + (p % 2)
    BY Division
  <2>2. p % 2 \in {0, 1}
    BY <2>1
  <2>3. QED
    BY <2>1, <2>2
<1>4. n = (2 * Cases) * a + Cases * q + c
  BY <1>1, <1>2, <1>3
<1>5. QED
  BY <1>4, PlaceIs

\* The place of a case in a round and mode.
Place(r, q, c) == (2 * Cases) * (r - 1) + Cases * q + c

LEMMA RowPlace ==
    ASSUME StudySize, NEW k \in Nat \ {0}, NEW row, Placed(k, row)
    PROVE  \E q \in {0, 1} : /\ row.round \in Nat \ {0} /\ row.mode = Modes[q + 1] /\ row.case \in 1 .. Cases
                             /\ k = Place(row.round, q, row.case)
<1>1. PICK n \in Nat : n = k - 1
  OBVIOUS
<1>2. PICK a \in Nat, q \in {0, 1}, c \in 0 .. Cases - 1 :
             /\ n = (2 * Cases) * a + Cases * q + c
             /\ n \div (2 * Cases) = a /\ (n \div Cases) % 2 = q /\ n % Cases = c
  BY <1>1, PlaceOf
<1>3. row.round = a + 1 /\ row.mode = Modes[q + 1] /\ row.case = c + 1
  BY <1>1, <1>2 DEF Placed
<1>4. Cases \in Nat \ {0} /\ row.round - 1 = a
  BY <1>3 DEF StudySize
<1>5. k = (2 * Cases) * a + Cases * q + (c + 1)
  BY <1>1, <1>2, <1>4
<1>6. k = Place(row.round, q, row.case)
  BY <1>3, <1>4, <1>5 DEF Place
<1>7. QED
  BY <1>3, <1>4, <1>6

LEMMA PlaceRow ==
    ASSUME StudySize, NEW r \in Nat \ {0}, NEW q \in {0, 1}, NEW c \in 1 .. Cases, NEW row,
           Placed(Place(r, q, c), row)
    PROVE  row.round = r /\ row.mode = Modes[q + 1] /\ row.case = c /\ Place(r, q, c) \in Nat \ {0}
<1>1. PICK n : n = (2 * Cases) * (r - 1) + Cases * q + (c - 1)
  OBVIOUS
<1>2. Cases \in Nat \ {0} /\ r - 1 \in Nat /\ c - 1 \in 0 .. Cases - 1
  BY DEF StudySize
<1>3. n \in Nat /\ n = Place(r, q, c) - 1 /\ Place(r, q, c) \in Int
  <2>1. (2 * Cases) * (r - 1) \in Nat /\ Cases * q \in Nat
    BY <1>2, Multiplied
  <2>2. QED
    BY <1>1, <1>2, <2>1 DEF Place
<1>4. n \div (2 * Cases) = r - 1 /\ (n \div Cases) % 2 = q /\ n % Cases = c - 1
  <2>1. PICK a \in Nat, e \in 0 .. Cases - 1 : a = r - 1 /\ e = c - 1
    BY <1>2
  <2>2. n = (2 * Cases) * a + Cases * q + e
    BY <1>1, <2>1
  <2>3. n \div (2 * Cases) = a /\ (n \div Cases) % 2 = q /\ n % Cases = e
    BY <1>3, <2>2, PlaceIs
  <2>4. QED
    BY <2>1, <2>3
<1>5. QED
  BY <1>2, <1>3, <1>4 DEF Placed

\* Later places are of no earlier round, and in a round of no earlier mode.
LEMMA PlacesAscend ==
    ASSUME StudySize, NEW r \in Nat \ {0}, NEW s \in Nat \ {0}, NEW p \in {0, 1}, NEW q \in {0, 1},
           NEW c \in 1 .. Cases, NEW d \in 1 .. Cases, Place(r, p, c) < Place(s, q, d)
    PROVE  r <= s /\ (r = s => p <= q)
<1>1. Cases \in Nat \ {0} /\ 2 * Cases \in Nat /\ r - 1 \in Nat /\ s - 1 \in Nat
  BY DEF StudySize
<1>2. PICK x \in Nat, y \in Nat : x = (2 * Cases) * (r - 1) /\ y = (2 * Cases) * (s - 1)
  BY <1>1, Multiplied
<1>3. x + Cases * p + c < y + Cases * q + d
  BY <1>2 DEF Place
<1>4. Cases * p \in {0, Cases} /\ Cases * q \in {0, Cases}
  BY <1>1
<1>5. ASSUME s < r PROVE FALSE
  <2>1. (2 * Cases) * ((s - 1) + 1) <= (2 * Cases) * (r - 1)
    BY <1>1, <1>5, Multiplied
  <2>2. (2 * Cases) * ((s - 1) + 1) = y + 2 * Cases
    BY <1>1, <1>2
  <2>3. y + 2 * Cases <= x
    BY <1>2, <2>1, <2>2
  <2>4. QED
    BY <1>1, <1>2, <1>3, <1>4, <2>3
<1>6. ASSUME r = s, p = 1, q = 0 PROVE FALSE
  BY <1>1, <1>2, <1>3, <1>6
<1>7. QED
  BY <1>5, <1>6

LEMMA TotalIs ==
    ASSUME StudySize
    PROVE  /\ Total \in Nat /\ Total = (2 * Cases) * Rounds
           /\ \A r \in 1 .. Rounds, q \in {0, 1}, c \in 1 .. Cases : Place(r, q, c) \in 1 .. Total
           /\ Rounds # 0 => Place(Rounds, 1, Cases) = Total
           /\ \A r \in Nat \ {0}, q \in {0, 1}, c \in 1 .. Cases : Place(r, q, c) <= Total => r <= Rounds
<1>1. Cases \in Nat \ {0} /\ Rounds \in Nat /\ 2 * Cases \in Nat
  BY DEF StudySize
<1>2. Total = (2 * Cases) * Rounds /\ Total \in Nat
  <2>1. Total = Rounds * 2 * Cases
    BY TwoModes DEF Total
  <2>2. QED
    BY <1>1, <2>1, Multiplied
<1>3. ASSUME NEW r \in Nat \ {0}, NEW q \in {0, 1}, NEW c \in 1 .. Cases
      PROVE  /\ r <= Rounds => Place(r, q, c) \in 1 .. Total
             /\ Place(r, q, c) <= Total => r <= Rounds
  <2>1. PICK x \in Nat : x = (2 * Cases) * (r - 1)
    <3>1. r - 1 \in Nat
      OBVIOUS
    <3>2. QED
      BY <1>1, <3>1, Multiplied
  <2>2. Cases * q \in {0, Cases}
    BY <1>1
  <2>3. Place(r, q, c) = x + Cases * q + c
    BY <2>1 DEF Place
  <2>4. x + 2 * Cases = (2 * Cases) * r
    BY <1>1, <2>1
  <2>5. Place(r, q, c) \in Nat \ {0} /\ Place(r, q, c) <= (2 * Cases) * r /\ Place(r, q, c) > x
    BY <1>1, <2>2, <2>3, <2>4
  <2>6. r <= Rounds => (2 * Cases) * r <= Total
    BY <1>1, <1>2, Multiplied
  <2>7. Rounds <= r - 1 => Total <= x
    <3>1. r - 1 \in Nat
      OBVIOUS
    <3>2. QED
      BY <1>1, <1>2, <2>1, <3>1, Multiplied
  <2>8. (2 * Cases) * r \in Nat
    BY <1>1, Multiplied
  <2>9. QED
    BY <1>1, <1>2, <2>1, <2>5, <2>6, <2>7, <2>8
<1>4. ASSUME Rounds # 0 PROVE Place(Rounds, 1, Cases) = Total
  BY <1>1, <1>2 DEF Place
<1>5. QED
  BY <1>1, <1>2, <1>3, <1>4

-----------------------------------------------------------------------------
(* The steps of an experiment *)

LEMMA DirectoryStarts == ASSUME StudyInit PROVE SummaryInv
BY DEF StudyInit, SummaryInv

LEMMA BeginKeeps ==
    ASSUME StudySize, NoneIsNoRows, SummaryInv, NEW checkout, Begin(checkout)
    PROVE  SummaryInv'
<1>1. out = None /\ out' = <<>> /\ running' = TRUE /\ report' = report /\ report = None
  BY DEF Begin, SummaryInv
<1>2. <<>> \in Seq(StudyRows)
  OBVIOUS
<1>3. <<>> # None
  BY <1>2 DEF NoneIsNoRows
<1>4. Total \in Nat
  BY TotalIs
<1>5. QED
  BY <1>1, <1>2, <1>3, <1>4 DEF SummaryInv

LEMMA RunOneKeeps ==
    ASSUME StudySize, NoneIsNoRows, SummaryInv,
           NEW how \in {"scored", "broken", "provider", "error"}, NEW ok \in BOOLEAN, RunOne(how, ok)
    PROVE  SummaryInv'
<1>1. PICK n : n = Len(out)
  OBVIOUS
<1>2. PICK row : row = [round |-> (n \div (Len(Modes) * Cases)) + 1, mode |-> Modes[((n \div Cases) % Len(Modes)) + 1],
                        case |-> (n % Cases) + 1, how |-> how, ok |-> ok]
  OBVIOUS
<1>3. running /\ Remaining > 0 /\ out' = Append(out, row) /\ running' = running /\ report' = report
  BY <1>1, <1>2 DEF RunOne
<1>4. out # None /\ out \in Seq(StudyRows) /\ report = None /\ n <= Total /\ \A k \in DOMAIN out : Placed(k, out[k])
  BY <1>1, <1>3 DEF SummaryInv
<1>5. n \in Nat /\ Total \in Nat /\ n + 1 <= Total
  <2>1. n \in Nat /\ Total \in Nat
    BY <1>1, <1>4, TotalIs
  <2>2. Total - n > 0
    BY <1>1, <1>3 DEF Remaining, Total
  <2>3. QED
    BY <2>1, <2>2
<1>6. Placed(n + 1, row)
  <2>1. (n + 1) - 1 = n
    BY <1>5
  <2>2. QED
    BY <1>2, <2>1, TwoModes DEF Placed
<1>7. row \in StudyRows
  <2>1. PICK a \in Nat, q \in {0, 1}, c \in 0 .. Cases - 1 :
          n \div (2 * Cases) = a /\ (n \div Cases) % 2 = q /\ n % Cases = c
    BY <1>5, PlaceOf
  <2>2. row = [round |-> a + 1, mode |-> Modes[q + 1], case |-> c + 1, how |-> how, ok |-> ok]
    BY <1>2, <2>1, TwoModes
  <2>3. Modes[q + 1] \in {"shadow", "enforce"} /\ c + 1 \in Nat
    BY TwoModes DEF StudySize
  <2>4. QED
    BY <2>2, <2>3 DEF StudyRows
<1>8. /\ out' \in Seq(StudyRows) /\ Len(out') = n + 1 /\ DOMAIN out' = DOMAIN out \cup {n + 1}
      /\ out'[n + 1] = row /\ \A k \in DOMAIN out : out'[k] = out[k]
  BY <1>1, <1>3, <1>4, <1>7
<1>9. out' # None
  BY <1>8 DEF NoneIsNoRows
<1>10. \A k \in DOMAIN out' : Placed(k, out'[k])
  BY <1>4, <1>6, <1>8
<1>11. QED
  <2>1. Total' = Total
    BY DEF Total
  <2>2. \A k \in DOMAIN out' : Placed(k, out[k])'
    BY <1>10 DEF Placed
  <2>3. QED
    BY <1>3, <1>4, <1>5, <1>8, <1>9, <2>1, <2>2 DEF SummaryInv

LEMMA EndKeeps ==
    ASSUME StudySize, SummaryInv, NEW interrupted \in BOOLEAN, End(interrupted)
    PROVE  SummaryInv'
<1>1. /\ running /\ (interrupted \/ Remaining = 0) /\ running' = FALSE /\ out' = out
      /\ report' = [interrupted |-> interrupted, of |-> SummarizeRows(out)]
  BY DEF End
<1>2. out # None /\ out \in Seq(StudyRows) /\ Len(out) <= Total /\ \A k \in DOMAIN out : Placed(k, out[k])
  BY <1>1 DEF SummaryInv
<1>3. Remaining = 0 => Len(out) = Total
  <2>1. Total \in Nat /\ Len(out) \in Nat
    BY <1>2, TotalIs
  <2>2. Remaining = Total - Len(out)
    BY DEF Remaining, Total
  <2>3. QED
    BY <2>1, <2>2
<1>4. report'.of = SummarizeRows(out) /\ report'.interrupted = interrupted
  BY <1>1
<1>5. SummarizeRows(out)' = SummarizeRows(out) /\ Total' = Total /\ \A k \in DOMAIN out' : Placed(k, out[k])'
  BY <1>1, <1>2 DEF Total, Placed, SummarizeRows, GroupRound, Comparison, RowsOf, Scored
<1>6. QED
  BY <1>1, <1>2, <1>3, <1>4, <1>5 DEF SummaryInv

LEMMA DirectoryStep ==
    ASSUME StudySize, NoneIsNoRows, SummaryInv, [StudyNext]_studyVars
    PROVE  SummaryInv'
<1>1. CASE \E checkout : Begin(checkout)
  BY <1>1, BeginKeeps
<1>2. CASE \E how \in {"scored", "broken", "provider", "error"}, ok \in BOOLEAN : RunOne(how, ok)
  BY <1>2, RunOneKeeps
<1>3. CASE \E interrupted \in BOOLEAN : End(interrupted)
  BY <1>3, EndKeeps
<1>4. CASE Die \/ UNCHANGED studyVars
  <2>1. out' = out /\ report' = report /\ (running' => running)
    BY <1>4 DEF Die, studyVars
  <2>2. \A k : Placed(k, out[k])' <=> Placed(k, out[k])
    BY <2>1 DEF Placed
  <2>3. SummarizeRows(out)' = SummarizeRows(out) /\ Total' = Total
    BY <2>1 DEF Total, SummarizeRows, GroupRound, Comparison, RowsOf, Scored
  <2>4. QED
    BY <2>1, <2>2, <2>3 DEF SummaryInv
<1>5. QED
  BY <1>1, <1>2, <1>3, <1>4 DEF StudyNext

-----------------------------------------------------------------------------
(* What a summary says *)

\* Cases of rows are counted as often as the rows, if no two rows have the same.
LEMMA CasesCount ==
    ASSUME NEW T, IsFiniteSet(T), \A x, y \in T : x.case = y.case => x = y
    PROVE  Cardinality({x.case : x \in T}) = Cardinality(T)
<1>1. PICK U : U = {x.case : x \in T}
  OBVIOUS
<1>2. PICK f : f = [x \in T |-> x.case]
  OBVIOUS
<1>3. f \in Surjection(T, U)
  BY <1>1, <1>2 DEF Surjection
<1>4. f \in Injection(T, U)
  BY <1>1, <1>2 DEF Injection, IsInjective
<1>5. Cardinality(U) = Cardinality(T)
  BY <1>3, <1>4, FS_Surjection
<1>6. QED
  BY <1>1, <1>5

LEMMA CasesAre == ASSUME StudySize PROVE IsFiniteSet(1 .. Cases) /\ Cardinality(1 .. Cases) = Cases
<1>1. 1 \in Int /\ Cases \in Int /\ ~(1 > Cases) /\ Cases - 1 + 1 = Cases
  BY DEF StudySize
<1>2. IsFiniteSet(1 .. Cases) /\ Cardinality(1 .. Cases) = IF 1 > Cases THEN 0 ELSE Cases - 1 + 1
  BY <1>1, FS_Interval
<1>3. QED
  BY <1>1, <1>2

LEMMA RowAt ==
    ASSUME StudySize, SummaryInv, out # None, NEW k \in DOMAIN out
    PROVE  \E q \in {0, 1} : /\ out[k] \in StudyRows /\ out[k].round \in 1 .. Rounds /\ out[k].mode = Modes[q + 1]
                             /\ out[k].case \in 1 .. Cases /\ k = Place(out[k].round, q, out[k].case)
<1>1. out \in Seq(StudyRows) /\ Len(out) <= Total /\ Placed(k, out[k])
  BY DEF SummaryInv
<1>2. k \in Nat \ {0} /\ k <= Len(out) /\ Len(out) \in Nat /\ out[k] \in StudyRows
  BY <1>1
<1>3. PICK row : row = out[k]
  OBVIOUS
<1>4. PICK q \in {0, 1} : /\ row.round \in Nat \ {0} /\ row.mode = Modes[q + 1] /\ row.case \in 1 .. Cases
                          /\ k = Place(row.round, q, row.case)
  BY <1>1, <1>2, <1>3, RowPlace
<1>5. k <= Total
  BY <1>1, <1>2, TotalIs
<1>6. row.round <= Rounds
  BY <1>4, <1>5, TotalIs
<1>7. row.round \in 1 .. Rounds
  BY <1>4, <1>6 DEF StudySize
<1>8. QED
  BY <1>2, <1>3, <1>4, <1>7

\* And at each place is the row of that place.
LEMMA AtPlace ==
    ASSUME StudySize, SummaryInv, out # None, NEW r \in Nat \ {0}, NEW q \in {0, 1}, NEW c \in 1 .. Cases,
           Place(r, q, c) \in DOMAIN out
    PROVE  LET row == out[Place(r, q, c)]
           IN  row \in RowsOf(out, Modes[q + 1], r) /\ row.case = c
<1>1. PICK k \in DOMAIN out : k = Place(r, q, c)
  OBVIOUS
<1>2. PICK row : row = out[k]
  OBVIOUS
<1>3. Placed(Place(r, q, c), row)
  BY <1>1, <1>2 DEF SummaryInv
<1>4. row.round = r /\ row.mode = Modes[q + 1] /\ row.case = c
  BY <1>3, PlaceRow
<1>5. row \in Range(out)
  BY <1>1, <1>2 DEF Range
<1>6. QED
  BY <1>1, <1>2, <1>4, <1>5 DEF RowsOf

\* No case comes twice in a round and mode.
LEMMA RowsDiffer ==
    ASSUME StudySize, SummaryInv, out # None, NEW j \in DOMAIN out, NEW k \in DOMAIN out,
           out[j].round = out[k].round, out[j].mode = out[k].mode, out[j].case = out[k].case
    PROVE  j = k
<1>1. PICK p \in {0, 1} : out[j].mode = Modes[p + 1] /\ j = Place(out[j].round, p, out[j].case)
  BY RowAt
<1>2. PICK q \in {0, 1} : out[k].mode = Modes[q + 1] /\ k = Place(out[k].round, q, out[k].case)
  BY RowAt
<1>3. p = q
  <2>1. out[j].mode = (IF p = 0 THEN "shadow" ELSE "enforce") /\ out[k].mode = (IF q = 0 THEN "shadow" ELSE "enforce")
    BY <1>1, <1>2, ModeAt
  <2>2. QED
    BY <2>1
<1>4. QED
  BY <1>1, <1>2, <1>3

LEMMA GroupIs ==
    ASSUME StudySize, SummaryInv, out # None, NEW m, NEW r, NEW T \in SUBSET RowsOf(out, m, r)
    PROVE  /\ IsFiniteSet(T) /\ Cardinality({x.case : x \in T}) = Cardinality(T)
           /\ {x.case : x \in T} \in SUBSET (1 .. Cases)
           /\ Cardinality(T) = Cases <=> {x.case : x \in T} = 1 .. Cases
<1>1. \A x \in T : \E k \in DOMAIN out : x = out[k] /\ x.round = r /\ x.mode = m
  BY DEF RowsOf, Range
<1>2. IsFiniteSet(T)
  <2>1. out \in Seq(StudyRows)
    BY DEF SummaryInv
  <2>2. IsFiniteSet(DOMAIN out)
    <3>1. Len(out) \in Int /\ 1 \in Int /\ DOMAIN out = 1 .. Len(out)
      BY <2>1
    <3>2. QED
      BY <3>1, FS_Interval
  <2>3. PICK R : R = {out[k] : k \in DOMAIN out}
    OBVIOUS
  <2>4. PICK f : f = [k \in DOMAIN out |-> out[k]]
    OBVIOUS
  <2>5. f \in Surjection(DOMAIN out, R)
    BY <2>3, <2>4 DEF Surjection
  <2>6. IsFiniteSet(R)
    BY <2>2, <2>5, FS_Surjection
  <2>7. T \in SUBSET R
    BY <1>1, <2>3
  <2>8. QED
    BY <2>6, <2>7, FS_Subset
<1>3. ASSUME NEW x \in T, NEW y \in T, x.case = y.case PROVE x = y
  <2>1. PICK j \in DOMAIN out : x = out[j] /\ x.round = r /\ x.mode = m
    BY <1>1
  <2>2. PICK k \in DOMAIN out : y = out[k] /\ y.round = r /\ y.mode = m
    BY <1>1
  <2>3. j = k
    BY <1>3, <2>1, <2>2, RowsDiffer
  <2>4. QED
    BY <2>1, <2>2, <2>3
<1>4. PICK U : U = {x.case : x \in T}
  OBVIOUS
<1>5. Cardinality(U) = Cardinality(T)
  BY <1>2, <1>3, <1>4, CasesCount
<1>6. U \in SUBSET (1 .. Cases)
  <2>1. ASSUME NEW x \in T PROVE x.case \in 1 .. Cases
    <3>1. PICK k \in DOMAIN out : x = out[k]
      BY <1>1
    <3>2. QED
      BY <3>1, RowAt
  <2>2. QED
    BY <1>4, <2>1
<1>7. Cardinality(U) = Cases => U = 1 .. Cases
  BY <1>6, CasesAre, FS_Subset
<1>8. QED
  BY <1>2, <1>4, <1>5, <1>6, <1>7, CasesAre

\* The directory has one row after the other: by round, in a round the shadow first.
LEMMA RowsAscend ==
    ASSUME StudySize, SummaryInv, out # None, NEW j \in DOMAIN out, NEW k \in DOMAIN out, j < k
    PROVE  /\ <<out[j].round, out[j].mode, out[j].case>> # <<out[k].round, out[k].mode, out[k].case>>
           /\ out[j].round <= out[k].round
           /\ out[j].round = out[k].round /\ out[j].mode = "enforce" => out[k].mode = "enforce"
<1>1. PICK p \in {0, 1} : /\ out[j].round \in 1 .. Rounds /\ out[j].mode = Modes[p + 1]
                          /\ out[j].case \in 1 .. Cases /\ j = Place(out[j].round, p, out[j].case)
  BY RowAt
<1>2. PICK q \in {0, 1} : /\ out[k].round \in 1 .. Rounds /\ out[k].mode = Modes[q + 1]
                          /\ out[k].case \in 1 .. Cases /\ k = Place(out[k].round, q, out[k].case)
  BY RowAt
<1>3. PICK r \in Nat \ {0}, s \in Nat \ {0} : r = out[j].round /\ s = out[k].round
  BY <1>1, <1>2 DEF StudySize
<1>4. PICK c \in 1 .. Cases, d \in 1 .. Cases : c = out[j].case /\ d = out[k].case
  BY <1>1, <1>2
<1>5. Place(r, p, c) < Place(s, q, d)
  BY <1>1, <1>2, <1>3, <1>4
<1>6. r <= s /\ (r = s => p <= q)
  BY <1>5, PlacesAscend
<1>7. r = s /\ out[j].mode = "enforce" => out[k].mode = "enforce"
  <2>1. out[j].mode = (IF p = 0 THEN "shadow" ELSE "enforce") /\ out[k].mode = (IF q = 0 THEN "shadow" ELSE "enforce")
    BY <1>1, <1>2, ModeAt
  <2>2. out[j].mode = "enforce" => p = 1
    BY <2>1
  <2>3. r = s /\ p = 1 => q = 1
    BY <1>6
  <2>4. QED
    BY <2>1, <2>2, <2>3
<1>8. ~(out[j].round = out[k].round /\ out[j].mode = out[k].mode /\ out[j].case = out[k].case)
  <2>1. j # k
    <3>1. j \in Nat /\ k \in Nat
      BY DEF SummaryInv
    <3>2. QED
      BY <3>1
  <2>2. QED
    BY <2>1, RowsDiffer
<1>9. QED
  BY <1>3, <1>6, <1>7, <1>8

ScoredRows(m, r) == {row \in RowsOf(out, m, r) : Scored(row)}

CasesOf(rows) == {row.case : row \in rows}

WellOf(rows) == {row \in rows : row.ok}

\* A round of a mode is complete if each case has a row with a score.
LEMMA GroupsAre ==
    ASSUME StudySize, SummaryInv, out # None, NEW s, s = SummarizeRows(out)
    PROVE  /\ s.complete <=> \A q \in {0, 1}, r \in 1 .. Rounds : CasesOf(ScoredRows(Modes[q + 1], r)) = 1 .. Cases
           /\ \A r \in 1 .. Rounds : /\ s.groups[1][r].ok = Cardinality(WellOf(ScoredRows("shadow", r)))
                                     /\ s.groups[2][r].ok = Cardinality(WellOf(ScoredRows("enforce", r)))
                                     /\ s.compared[r] = Comparison(out, r)
           /\ s.stop <=> \E row \in Range(out) : row.how \in {"broken", "error"}
<1>1. PICK groups : groups = [k \in DOMAIN Modes |-> [r \in 1 .. Rounds |-> GroupRound(out, Modes[k], r)]]
  OBVIOUS
<1>2. PICK compared : compared = [r \in 1 .. Rounds |-> Comparison(out, r)]
  OBVIOUS
<1>3. PICK stop : stop = \E row \in Range(out) : row.how \in {"broken", "error"}
  OBVIOUS
<1>4. s = [complete |-> \A k \in DOMAIN Modes, r \in 1 .. Rounds : groups[k][r].complete,
           stop |-> stop, groups |-> groups, compared |-> compared]
  BY <1>1, <1>2, <1>3 DEF SummarizeRows
<1>5. DOMAIN Modes = {1, 2}
  BY DEF Modes
<1>6. ASSUME NEW k \in {1, 2}, NEW r \in 1 .. Rounds
      PROVE  /\ groups[k][r].ok = Cardinality(WellOf(ScoredRows(Modes[k], r)))
             /\ groups[k][r].complete <=> Cardinality(ScoredRows(Modes[k], r)) = Cases
  <2>1. groups[k][r] = GroupRound(out, Modes[k], r)
    BY <1>1, <1>5
  <2>2. PICK T : T = ScoredRows(Modes[k], r)
    OBVIOUS
  <2>3. PICK done, missing, unscored, n, ok :
          /\ done = (Cardinality(T) = Cases) /\ n = Cardinality(T) /\ ok = Cardinality(WellOf(T))
          /\ missing = (1 .. Cases) \ CasesOf(RowsOf(out, Modes[k], r)) /\ unscored = CasesOf(RowsOf(out, Modes[k], r) \ T)
    OBVIOUS
  <2>4. GroupRound(out, Modes[k], r) = [scored |-> n, complete |-> done, missing |-> missing, unscored |-> unscored, ok |-> ok]
    BY <2>2, <2>3 DEF GroupRound, WellOf, CasesOf, ScoredRows
  <2>5. groups[k][r].ok = ok /\ groups[k][r].complete = done
    BY <2>1, <2>4
  <2>6. QED
    BY <2>2, <2>3, <2>5, Zenon
<1>7. ASSUME NEW q \in {0, 1}, NEW r \in 1 .. Rounds
      PROVE  groups[q + 1][r].complete <=> CasesOf(ScoredRows(Modes[q + 1], r)) = 1 .. Cases
  <2>1. PICK k \in {1, 2} : k = q + 1
    OBVIOUS
  <2>2. PICK T : T = ScoredRows(Modes[k], r)
    OBVIOUS
  <2>3. T \in SUBSET RowsOf(out, Modes[k], r)
    BY <2>2 DEF ScoredRows
  <2>4. Cardinality(T) = Cases <=> CasesOf(T) = 1 .. Cases
    BY <2>3, GroupIs DEF CasesOf
  <2>5. QED
    BY <2>1, <2>2, <2>4, <1>6
<1>8. s.complete <=> \A q \in {0, 1}, r \in 1 .. Rounds : groups[q + 1][r].complete
  <2>1. s.complete <=> \A k \in {1, 2}, r \in 1 .. Rounds : groups[k][r].complete
    BY <1>4, <1>5
  <2>2. 0 + 1 = 1 /\ 1 + 1 = 2
    OBVIOUS
  <2>3. QED
    BY <2>1, <2>2
<1>9. \A r \in 1 .. Rounds : s.compared[r] = Comparison(out, r)
  BY <1>2, <1>4
<1>10. s.groups = groups /\ s.stop = stop
  BY <1>4
<1>11. s.stop <=> \E row \in Range(out) : row.how \in {"broken", "error"}
  BY <1>3, <1>10
<1>12. \A r \in 1 .. Rounds : /\ s.groups[1][r].ok = Cardinality(WellOf(ScoredRows("shadow", r)))
                              /\ s.groups[2][r].ok = Cardinality(WellOf(ScoredRows("enforce", r)))
  BY <1>6, <1>10, TwoModes
<1>13. s.complete <=> \A q \in {0, 1}, r \in 1 .. Rounds : CasesOf(ScoredRows(Modes[q + 1], r)) = 1 .. Cases
  BY <1>7, <1>8
<1>14. QED
  BY <1>9, <1>11, <1>12, <1>13

LEMMA CompleteIsWhole ==
    ASSUME StudySize, SummaryInv, out # None, SummarizeRows(out).complete
    PROVE  Len(out) = Total /\ \A k \in DOMAIN out : Scored(out[k])
<1>1. \A q \in {0, 1}, r \in 1 .. Rounds : CasesOf(ScoredRows(Modes[q + 1], r)) = 1 .. Cases
  BY GroupsAre
<1>2. out \in Seq(StudyRows) /\ Len(out) <= Total /\ Total \in Nat /\ Len(out) \in Nat /\ DOMAIN out = 1 .. Len(out)
  BY TotalIs DEF SummaryInv
<1>3. ASSUME NEW q \in {0, 1}, NEW r \in 1 .. Rounds, NEW c \in 1 .. Cases
      PROVE  \E k \in DOMAIN out : /\ Scored(out[k]) /\ k = Place(r, q, c)
                                   /\ out[k].round = r /\ out[k].mode = Modes[q + 1] /\ out[k].case = c
  <2>1. c \in CasesOf(ScoredRows(Modes[q + 1], r))
    BY <1>1
  <2>2. PICK x \in RowsOf(out, Modes[q + 1], r) : Scored(x) /\ x.case = c
    BY <2>1 DEF CasesOf, ScoredRows
  <2>3. PICK k \in DOMAIN out : x = out[k] /\ x.round = r /\ x.mode = Modes[q + 1]
    BY <2>2 DEF RowsOf, Range
  <2>4. PICK p \in {0, 1} : out[k].mode = Modes[p + 1] /\ k = Place(out[k].round, p, out[k].case)
    BY RowAt
  <2>5. p = q
    <3>1. (IF p = 0 THEN "shadow" ELSE "enforce") = (IF q = 0 THEN "shadow" ELSE "enforce")
      BY <2>3, <2>4, ModeAt
    <3>2. QED
      BY <3>1
  <2>6. QED
    BY <2>2, <2>3, <2>4, <2>5
<1>4. Len(out) = Total
  <2>1. CASE Rounds = 0
    <3>1. (2 * Cases) * 0 = 0
      BY DEF StudySize
    <3>2. Total = 0
      BY <2>1, <3>1, TotalIs
    <3>3. QED
      BY <1>2, <3>2
  <2>2. CASE Rounds # 0
    <3>1. Rounds \in 1 .. Rounds /\ Cases \in 1 .. Cases
      BY <2>2 DEF StudySize
    <3>2. Place(Rounds, 1, Cases) = Total
      BY <2>2, TotalIs
    <3>3. Total \in 1 .. Len(out)
      BY <1>2, <1>3, <3>1, <3>2
    <3>4. Total <= Len(out)
      BY <3>3
    <3>5. Len(out) <= Total /\ Total \in Nat /\ Len(out) \in Nat
      BY <1>2
    <3>6. PICK t, n : t = Total /\ n = Len(out)
      OBVIOUS
    <3>7. t <= n /\ n <= t /\ t \in Nat /\ n \in Nat
      BY <3>4, <3>5, <3>6
    <3>8. n = t
      BY <3>7
    <3>9. QED
      BY <3>6, <3>8
  <2>3. QED
    BY <2>1, <2>2
<1>5. ASSUME NEW k \in DOMAIN out PROVE Scored(out[k])
  <2>1. PICK q \in {0, 1} : /\ out[k].round \in 1 .. Rounds /\ out[k].case \in 1 .. Cases
                            /\ k = Place(out[k].round, q, out[k].case)
    BY RowAt
  <2>2. PICK j \in DOMAIN out : Scored(out[j]) /\ j = Place(out[k].round, q, out[k].case)
    BY <2>1, <1>3
  <2>3. QED
    BY <2>1, <2>2
<1>6. QED
  BY <1>4, <1>5

LEMMA WholeIsComplete ==
    ASSUME StudySize, SummaryInv, out # None, Len(out) = Total, \A k \in DOMAIN out : Scored(out[k])
    PROVE  SummarizeRows(out).complete
<1>1. out \in Seq(StudyRows) /\ DOMAIN out = 1 .. Total
  BY DEF SummaryInv
<1>2. ASSUME NEW q \in {0, 1}, NEW r \in 1 .. Rounds PROVE CasesOf(ScoredRows(Modes[q + 1], r)) = 1 .. Cases
  <2>1. ASSUME NEW c \in 1 .. Cases PROVE c \in CasesOf(ScoredRows(Modes[q + 1], r))
    <3>1. Place(r, q, c) \in DOMAIN out
      BY <1>1, TotalIs
    <3>2. PICK k \in DOMAIN out : k = Place(r, q, c)
      BY <3>1
    <3>3. r \in Nat \ {0}
      BY DEF StudySize
    <3>4. out[k] \in RowsOf(out, Modes[q + 1], r) /\ out[k].case = c
      BY <3>1, <3>2, <3>3, AtPlace
    <3>5. out[k] \in ScoredRows(Modes[q + 1], r)
      BY <3>4 DEF ScoredRows
    <3>6. QED
      BY <3>4, <3>5 DEF CasesOf
  <2>2. PICK T : T = ScoredRows(Modes[q + 1], r)
    OBVIOUS
  <2>3. T \in SUBSET RowsOf(out, Modes[q + 1], r)
    BY <2>2 DEF ScoredRows
  <2>4. CasesOf(T) \in SUBSET (1 .. Cases)
    BY <2>3, GroupIs DEF CasesOf
  <2>5. QED
    BY <2>1, <2>2, <2>4
<1>3. QED
  BY <1>2, GroupsAre

\* The comparison is of cases with two scores; of all of them, it is the difference of the
\* metric.
LEMMA ComparisonIs ==
    ASSUME StudySize, SummaryInv, out # None, NEW r \in 1 .. Rounds, NEW c, c = Comparison(out, r)
    PROVE  /\ \A x \in c.cost \cup c.gain : \A m \in Range(Modes) : \E row \in RowsOf(out, m, r) : row.case = x /\ Scored(row)
           /\ (\A q \in {0, 1} : CasesOf(ScoredRows(Modes[q + 1], r)) = 1 .. Cases) =>
                /\ c.complete
                /\ Cardinality(WellOf(ScoredRows("enforce", r))) + Cardinality(c.cost) =
                     Cardinality(WellOf(ScoredRows("shadow", r))) + Cardinality(c.gain)
<1>1. PICK S, E : S = ScoredRows("shadow", r) /\ E = ScoredRows("enforce", r)
  OBVIOUS
<1>2. PICK paired : paired = CasesOf(S) \cap CasesOf(E)
  OBVIOUS
<1>3. PICK A, B : A = CasesOf(WellOf(S)) \cap paired /\ B = CasesOf(WellOf(E)) \cap paired
  OBVIOUS
<1>4. c = [complete |-> Cardinality(paired) = Cases, cost |-> A \ B, gain |-> B \ A]
  BY <1>1, <1>2, <1>3 DEF Comparison, CasesOf, WellOf, ScoredRows
<1>5. c.cost = A \ B /\ c.gain = B \ A /\ (c.complete <=> Cardinality(paired) = Cases)
  <2>1. PICK x, y, done : x = A \ B /\ y = B \ A /\ done = (Cardinality(paired) = Cases)
    OBVIOUS
  <2>2. c = [complete |-> done, cost |-> x, gain |-> y]
    BY <1>4, <2>1
  <2>3. c.complete = done /\ c.cost = x /\ c.gain = y
    BY <2>2
  <2>4. QED
    BY <2>1, <2>3, Zenon
<1>6. ASSUME NEW x \in paired, NEW m \in Range(Modes) PROVE \E row \in RowsOf(out, m, r) : row.case = x /\ Scored(row)
  <2>1. m = "shadow" \/ m = "enforce"
    BY TwoModes
  <2>2. x \in CasesOf(ScoredRows(m, r))
    BY <2>1, <1>1, <1>2
  <2>3. QED
    BY <2>2 DEF CasesOf, ScoredRows
<1>7. c.cost \cup c.gain \subseteq paired
  BY <1>3, <1>5
<1>8. ASSUME \A q \in {0, 1} : CasesOf(ScoredRows(Modes[q + 1], r)) = 1 .. Cases
      PROVE  /\ c.complete
             /\ Cardinality(WellOf(E)) + Cardinality(c.cost) = Cardinality(WellOf(S)) + Cardinality(c.gain)
  <2>1. CasesOf(S) = 1 .. Cases /\ CasesOf(E) = 1 .. Cases
    <3>1. Modes[0 + 1] = "shadow" /\ Modes[1 + 1] = "enforce"
      BY ModeAt
    <3>2. QED
      BY <3>1, <1>1, <1>8
  <2>2. paired = 1 .. Cases
    BY <1>2, <2>1
  <2>3. c.complete
    BY <1>5, <2>2, CasesAre
  <2>4. WellOf(S) \in SUBSET RowsOf(out, "shadow", r) /\ WellOf(E) \in SUBSET RowsOf(out, "enforce", r)
    BY <1>1 DEF WellOf, ScoredRows
  <2>5. /\ Cardinality(CasesOf(WellOf(S))) = Cardinality(WellOf(S)) /\ CasesOf(WellOf(S)) \in SUBSET (1 .. Cases)
        /\ Cardinality(CasesOf(WellOf(E))) = Cardinality(WellOf(E)) /\ CasesOf(WellOf(E)) \in SUBSET (1 .. Cases)
    BY <2>4, GroupIs DEF CasesOf
  <2>6. A = CasesOf(WellOf(S)) /\ B = CasesOf(WellOf(E))
    BY <1>3, <2>2, <2>5
  <2>7. IsFiniteSet(A) /\ IsFiniteSet(B)
    BY <2>5, <2>6, CasesAre, FS_Subset
  <2>8. IsFiniteSet(A \cap B)
    BY <2>7, FS_Subset
  <2>9. Cardinality(A) \in Nat /\ Cardinality(B) \in Nat /\ Cardinality(A \cap B) \in Nat
    BY <2>7, <2>8, FS_CardinalityType
  <2>10. Cardinality(A \ B) = Cardinality(A) - Cardinality(A \cap B)
    BY <2>7, FS_Difference
  <2>11. Cardinality(B \ A) = Cardinality(B) - Cardinality(B \cap A)
    BY <2>7, FS_Difference
  <2>12. PICK a, b, i \in Nat : a = Cardinality(A) /\ b = Cardinality(B) /\ i = Cardinality(A \cap B)
    BY <2>9
  <2>13. Cardinality(B) + Cardinality(A \ B) = Cardinality(A) + Cardinality(B \ A)
    <3>1. B \cap A = A \cap B
      OBVIOUS
    <3>2. Cardinality(A \ B) = a - i /\ Cardinality(B \ A) = b - i
      BY <2>10, <2>11, <2>12, <3>1
    <3>3. b + (a - i) = a + (b - i)
      BY <2>12
    <3>4. QED
      BY <2>12, <3>2, <3>3, Zenon
  <2>14. QED
    BY <1>5, <2>3, <2>5, <2>6, <2>13
<1>9. QED
  BY <1>1, <1>6, <1>7, <1>8

LEMMA SummaryFollows == ASSUME StudySize, SummaryInv PROVE SummaryIsWhole
<1>1. ASSUME out # None, NEW j \in DOMAIN out, NEW k \in DOMAIN out, j < k
      PROVE  /\ <<out[j].round, out[j].mode, out[j].case>> # <<out[k].round, out[k].mode, out[k].case>>
             /\ out[j].round <= out[k].round
             /\ out[j].round = out[k].round /\ out[j].mode = "enforce" => out[k].mode = "enforce"
  BY <1>1, RowsAscend
<1>2. ASSUME report # None
      PROVE  /\ report.of.complete => Len(out) = Rounds * Len(Modes) * Cases /\ \A k \in DOMAIN out : Scored(out[k])
             /\ ~report.of.complete /\ ~report.of.stop => report.interrupted \/ \E k \in DOMAIN out : out[k].how = "provider"
             /\ \A r \in 1 .. Rounds :
                  /\ report.of.complete =>
                       /\ report.of.compared[r].complete
                       /\ report.of.groups[2][r].ok + Cardinality(report.of.compared[r].cost) =
                            report.of.groups[1][r].ok + Cardinality(report.of.compared[r].gain)
                  /\ \A x \in report.of.compared[r].cost \cup report.of.compared[r].gain :
                       \A m \in Range(Modes) : \E row \in RowsOf(out, m, r) : row.case = x /\ Scored(row)
  <2>1. PICK s : s = report.of
    OBVIOUS
  <2>2. out # None /\ s = SummarizeRows(out) /\ (report.interrupted \/ Len(out) = Total) /\ out \in Seq(StudyRows)
    BY <1>2, <2>1 DEF SummaryInv
  <2>3. s.complete => Len(out) = Rounds * Len(Modes) * Cases /\ \A k \in DOMAIN out : Scored(out[k])
    BY <2>2, CompleteIsWhole DEF Total
  <2>4. /\ s.complete <=> \A q \in {0, 1}, r \in 1 .. Rounds : CasesOf(ScoredRows(Modes[q + 1], r)) = 1 .. Cases
        /\ \A r \in 1 .. Rounds : /\ s.groups[1][r].ok = Cardinality(WellOf(ScoredRows("shadow", r)))
                                  /\ s.groups[2][r].ok = Cardinality(WellOf(ScoredRows("enforce", r)))
                                  /\ s.compared[r] = Comparison(out, r)
        /\ s.stop <=> \E row \in Range(out) : row.how \in {"broken", "error"}
    BY <2>2, GroupsAre
  <2>5. ASSUME ~s.complete, ~s.stop, ~report.interrupted PROVE \E k \in DOMAIN out : out[k].how = "provider"
    <3>1. Len(out) = Total
      BY <2>2, <2>5
    <3>2. PICK k \in DOMAIN out : ~Scored(out[k])
      BY <2>2, <2>5, <3>1, WholeIsComplete
    <3>3. out[k] \in Range(out)
      BY DEF Range
    <3>4. out[k].how \notin {"broken", "error"}
      BY <2>4, <2>5, <3>3
    <3>5. out[k].how \in {"scored", "broken", "provider", "error"}
      <4>1. out[k] \in StudyRows
        BY <2>2
      <4>2. QED
        BY <4>1 DEF StudyRows
    <3>6. QED
      BY <3>2, <3>4, <3>5 DEF Scored
  <2>6. ASSUME NEW r \in 1 .. Rounds
        PROVE  /\ s.complete => /\ s.compared[r].complete
                                /\ s.groups[2][r].ok + Cardinality(s.compared[r].cost) =
                                     s.groups[1][r].ok + Cardinality(s.compared[r].gain)
               /\ \A x \in s.compared[r].cost \cup s.compared[r].gain :
                    \A m \in Range(Modes) : \E row \in RowsOf(out, m, r) : row.case = x /\ Scored(row)
    <3>1. PICK c : c = Comparison(out, r)
      OBVIOUS
    <3>2. /\ \A x \in c.cost \cup c.gain : \A m \in Range(Modes) : \E row \in RowsOf(out, m, r) : row.case = x /\ Scored(row)
          /\ (\A q \in {0, 1} : CasesOf(ScoredRows(Modes[q + 1], r)) = 1 .. Cases) =>
               /\ c.complete
               /\ Cardinality(WellOf(ScoredRows("enforce", r))) + Cardinality(c.cost) =
                    Cardinality(WellOf(ScoredRows("shadow", r))) + Cardinality(c.gain)
      BY <2>2, <3>1, ComparisonIs
    <3>3. s.compared[r] = c
      BY <2>4, <3>1
    <3>4. s.complete => \A q \in {0, 1} : CasesOf(ScoredRows(Modes[q + 1], r)) = 1 .. Cases
      BY <2>4
    <3>5. QED
      BY <2>4, <3>2, <3>3, <3>4
  <2>7. QED
    BY <2>1, <2>3, <2>5, <2>6
<1>3. QED
  BY <1>1, <1>2 DEF SummaryIsWhole

\* A summary that calls the experiment complete is of every case, once in every round and
\* mode, each with a score, and what it says enforcement costs and gains is the difference of
\* the metric; one that is neither complete nor to be stopped was interrupted, or a provider
\* failed.
THEOREM SummaryWhole == ASSUME StudySize, NoneIsNoRows PROVE StudySpec => []SummaryIsWhole
<1>1. StudyInit => SummaryInv
  BY DirectoryStarts
<1>2. SummaryInv /\ [StudyNext]_studyVars => SummaryInv'
  BY DirectoryStep
<1>3. SummaryInv => SummaryIsWhole
  BY SummaryFollows
<1>4. QED
  BY <1>1, <1>2, <1>3, PTL DEF StudySpec
=============================================================================
