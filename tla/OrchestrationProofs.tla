------------------------- MODULE OrchestrationProofs -------------------------
(***************************************************************************)
(* Theorems about the two loops that run tools for an answer: ControlRun,  *)
(* for any orders and items, any bounds and any model, and Orchestration,  *)
(* for any questions, any fallback and any outcomes of the tools.          *)
(*                                                                         *)
(* The invariant of a control run says of a conversation what its books    *)
(* say of each other (Sound), of a turn how it continues the conversation  *)
(* that is restored when it fails (TurnInv), and of the policy of a        *)
(* request that what it remembers is what was observed and what it still   *)
(* owes (NativeInv).  The invariant of a question says which plan it has   *)
(* got (PlanInv), what its tools brought and that nothing planned was      *)
(* missing when they ran (RanInv), and how it ended (EndInv).              *)
(***************************************************************************)
EXTENDS ControlRun, Orchestration, FiniteSetTheorems, TLAPS

-----------------------------------------------------------------------------
(* The invariant *)

\* Reads are numbered, none is of a run or a message to come, a reply is no later than
\* the message it answers, and what is tracked can be decided.
Books(c) ==
    /\ c.tools = Len(c.obs) /\ c.runs <= c.messages
    /\ \A k \in DOMAIN c.obs : /\ c.obs[k].run <= c.runs /\ c.obs[k].turn <= c.messages
                               /\ c.obs[k].id = <<c.obs[k].turn, k>>
    /\ \A k \in DOMAIN c.replies : c.replies[k] <= c.messages
    /\ \A a \in c.tracked : c.first[a] # None /\ c.first[a].anchored

\* The open run is the last one, its reads are the last ones, and it has a step left.
OpenRun(c) ==
    c.run # None =>
        /\ c.run.index = c.runs /\ c.run.start <= Len(c.obs) /\ c.run.used < MaxSteps
        /\ \A k \in DOMAIN c.obs : k > c.run.start <=> c.obs[k].run = c.run.index

\* How often a run made a call.
Calling(c, n, call) == {k \in DOMAIN c.obs : c.obs[k].run = n /\ c.obs[k].call = call}
Tried(c, n, call)   == Cardinality(Calling(c, n, call))
Capped(c) == \A n \in 1 .. c.runs : \A call \in Call : Tried(c, n, call) <= RetryCap

Sound(c) == c \in Conv /\ Books(c) /\ OpenRun(c) /\ Capped(c)

\* What was anchored is held by the gateway.
Held(c, rows) == \A a \in Action : c.first[a] # None /\ c.first[a].anchored => rows[a] # "none"

\* A turn appends to the conversation that it began with.
TurnInv ==
    /\ at = "idle" => conv = saved /\ queue = <<>> /\ DOMAIN native = {}
    /\ at = "decide" =>
        /\ conv.run # None /\ conv.messages = saved.messages + 1
        /\ conv.run.start <= Len(saved.obs) /\ Len(saved.obs) <= Len(conv.obs)
        /\ \A k \in DOMAIN saved.obs : conv.obs[k] = saved.obs[k]
        /\ \A k \in DOMAIN conv.obs : k > Len(saved.obs) => conv.obs[k].turn = conv.messages

\* The n-th read was issued by this request, at its place in its batch.
Issued(n) ==
    LET step == conv.obs[n].step IN
    /\ step \in DOMAIN native /\ native[step].call = conv.obs[n].call
    /\ n - native[step].index > Len(saved.obs)
    /\ native[step].batch = conv.obs[n - native[step].index].step

\* The calls that are still to be issued continue the batch of the last read, and
\* leave a step for the decision after them.
Owed ==
    LET used == conv.run.used IN
    /\ Len(conv.obs) > Len(saved.obs) /\ conv.obs[Len(conv.obs)].step = used
    /\ used + Len(queue) < MaxSteps
    /\ \A i \in 1 .. Len(queue) :
        /\ used + i \in DOMAIN native /\ native[used + i].call = queue[i]
        /\ native[used + i].index = native[used].index + i
        /\ native[used + i].batch = native[used].batch

NativeInv ==
    at = "decide" =>
        /\ \A s \in DOMAIN native : s <= conv.run.used + Len(queue)
        /\ \A n \in DOMAIN conv.obs : n > Len(saved.obs) => Issued(n)
        /\ queue # <<>> => Owed

\* The calls before the i-th that are identical to it.
Ahead(q, i) == {j \in 1 .. i - 1 : q[j] = q[i]}

\* All the calls of a queue may be made.
Allowed(c, q) ==
    \A i \in 1 .. Len(q) : Tried(c, c.run.index, q[i]) + Cardinality(Ahead(q, i)) < RetryCap

\* What this turn read of the pending requests is what waits now; one such read is the last.
PendingInv ==
    LET asked == {k \in DOMAIN conv.obs : k > Len(saved.obs) /\ conv.obs[k].call = ReadPending} IN
    at = "decide" =>
        /\ \A k \in asked : conv.obs[k].result.waits = Waiting
        /\ asked # {} => \E k \in asked : \A j \in asked : j <= k

\* The reads that bear out what was submitted are in the conversation to stay.
Borne(s, obs) ==
    \E k \in 1 .. s.upto :
        /\ obs[k].run = s.run /\ obs[k].call = Reading(s.action.order)
        /\ obs[k].result.items # None /\ s.action.item \in obs[k].result.items
        /\ \A j \in k + 1 .. s.upto : ~(obs[j].run = s.run /\ obs[j].call = obs[k].call)

SentInv == \A s \in sent : s.upto <= Len(saved.obs) /\ (s.held \/ Borne(s, saved.obs))

ControlInv ==
    /\ TypeOK /\ Sound(conv) /\ Sound(saved)
    /\ Held(conv, core) /\ Held(saved, core)
    /\ TurnInv /\ NativeInv /\ PendingInv /\ SentInv
    /\ at = "decide" => Allowed(conv, queue)
    /\ answer # None => answer.said = answer.waited
    /\ ~broke

-----------------------------------------------------------------------------
(* Counting calls *)

LEMMA Shifted ==
    ASSUME NEW S \in SUBSET Nat, IsFiniteSet(S), NEW d \in Nat
    PROVE  /\ IsFiniteSet({x + d : x \in S})
           /\ Cardinality({x + d : x \in S}) = Cardinality(S)
<1> DEFINE T == {x + d : x \in S}
           f == [x \in S |-> x + d]
<1>1. f \in Bijection(S, T)
  <2>1. f \in [S -> T]
    OBVIOUS
  <2>2. \A a, b \in S : f[a] = f[b] => a = b
    OBVIOUS
  <2>3. \A t \in T : \E s \in S : f[s] = t
    OBVIOUS
  <2>4. QED
    BY <2>1, <2>2, <2>3 DEF Bijection, Injection, Surjection, IsInjective
<1>2. ExistsBijection(S, T)
  BY <1>1 DEF ExistsBijection
<1>3. QED
  BY <1>2, FS_Bijection

LEMMA CallingIsFinite ==
    ASSUME NEW c \in Conv, NEW n, NEW call
    PROVE  IsFiniteSet(Calling(c, n, call)) /\ Tried(c, n, call) \in Nat
<1>1. DOMAIN c.obs = 1 .. Len(c.obs) /\ Len(c.obs) \in Nat
  BY DEF Conv
<1>2. IsFiniteSet(1 .. Len(c.obs))
  BY <1>1, FS_Interval
<1>3. Calling(c, n, call) \in SUBSET (1 .. Len(c.obs))
  BY <1>1 DEF Calling
<1>4. QED
  BY <1>2, <1>3, FS_Subset, FS_CardinalityType DEF Tried

LEMMA AheadIsFinite ==
    ASSUME NEW q, NEW i \in Nat
    PROVE  IsFiniteSet(Ahead(q, i)) /\ Cardinality(Ahead(q, i)) \in Nat
<1>1. IsFiniteSet(1 .. i - 1)
  BY FS_Interval
<1>2. Ahead(q, i) \in SUBSET (1 .. i - 1)
  BY DEF Ahead
<1>3. QED
  BY <1>1, <1>2, FS_Subset, FS_CardinalityType

LEMMA SuffixProperties ==
    ASSUME NEW S, NEW s \in Seq(S), NEW m \in Nat, m <= Len(s)
    PROVE  LET t == SubSeq(s, m + 1, Len(s))
           IN  /\ t \in Seq(S) /\ Len(t) = Len(s) - m
               /\ \A k \in 1 .. Len(s) - m : t[k] = s[k + m]
OBVIOUS

\* What a decision sees is the open run's part of the observations.
LEMMA SeenIs ==
    ASSUME Sound(conv), conv.run # None
    PROVE  /\ Seen \in Seq(Observations) /\ Len(Seen) = Len(conv.obs) - conv.run.start
           /\ DOMAIN Seen = 1 .. Len(conv.obs) - conv.run.start
           /\ \A k \in DOMAIN Seen : Seen[k] = conv.obs[k + conv.run.start]
<1>1. conv.run.start \in Nat /\ conv.run.start <= Len(conv.obs) /\ conv.obs \in Seq(Observations)
  BY DEF Sound, OpenRun, Conv, Runs
<1>2. /\ Seen \in Seq(Observations) /\ Len(Seen) = Len(conv.obs) - conv.run.start
      /\ \A k \in 1 .. Len(conv.obs) - conv.run.start : Seen[k] = conv.obs[k + conv.run.start]
  BY <1>1, SuffixProperties DEF Seen
<1>3. QED
  BY <1>1, <1>2

\* What the model's calls are counted against is what the run has made.
LEMMA AttemptsAreTried ==
    ASSUME Sound(conv), conv.run # None, NEW call
    PROVE  Attempts(call) = Tried(conv, conv.run.index, call)
<1> DEFINE start == conv.run.start
           S == {k \in DOMAIN Seen : Seen[k].call = call}
<1>1. /\ start \in Nat /\ start <= Len(conv.obs) /\ Len(conv.obs) \in Nat
      /\ conv.obs \in Seq(Observations) /\ DOMAIN conv.obs = 1 .. Len(conv.obs)
  BY DEF Sound, OpenRun, Conv, Runs
<1>2. /\ DOMAIN Seen = 1 .. Len(conv.obs) - start
      /\ \A k \in DOMAIN Seen : Seen[k] = conv.obs[k + start]
  BY SeenIs
<1>3. S \in SUBSET Nat
  BY <1>1, <1>2
<1>4. IsFiniteSet(S)
  <2>1. IsFiniteSet(1 .. Len(conv.obs) - start)
    <3>1. PICK l \in Nat : l = Len(conv.obs) - start
      BY <1>1
    <3>2. IsFiniteSet(1 .. l)
      BY FS_Interval
    <3>3. QED
      BY <3>1, <3>2
  <2>2. S \in SUBSET (1 .. Len(conv.obs) - start)
    BY <1>2
  <2>3. QED
    BY <2>1, <2>2, FS_Subset
<1>5. Calling(conv, conv.run.index, call) = {x + start : x \in S}
  <2>1. ASSUME NEW k \in Calling(conv, conv.run.index, call)
        PROVE  k - start \in S /\ k = (k - start) + start
    <3>1. k \in 1 .. Len(conv.obs) /\ k > start /\ conv.obs[k].call = call
      BY <1>1 DEF Calling, Sound, OpenRun
    <3>2. k - start \in 1 .. Len(conv.obs) - start /\ (k - start) + start = k
      BY <1>1, <3>1
    <3>3. QED
      BY <1>2, <3>1, <3>2
  <2>2. ASSUME NEW x \in S
        PROVE  x + start \in Calling(conv, conv.run.index, call)
    <3>1. x \in 1 .. Len(conv.obs) - start /\ conv.obs[x + start].call = call
      BY <1>2
    <3>2. x + start \in DOMAIN conv.obs /\ x + start > start
      BY <1>1, <3>1
    <3>3. QED
      BY <3>1, <3>2 DEF Calling, Sound, OpenRun
  <2>3. QED
    BY <2>1, <2>2
<1>6. QED
  BY <1>3, <1>4, <1>5, <1>1, Shifted DEF Attempts, Tried

\* After the first of its calls was issued, each of the others has one less before it.
LEMMA TailCount ==
    ASSUME NEW q \in Seq(Call), q # <<>>, NEW i \in 1 .. Len(q) - 1
    PROVE  /\ Tail(q)[i] = q[i + 1]
           /\ Cardinality(Ahead(q, i + 1)) =
                Cardinality(Ahead(Tail(q), i)) + (IF q[1] = q[i + 1] THEN 1 ELSE 0)
<1> DEFINE A == Ahead(Tail(q), i)
           B == {x + 1 : x \in A}
<1>1. /\ Len(q) \in Nat \ {0} /\ Tail(q) \in Seq(Call) /\ Len(Tail(q)) = Len(q) - 1
      /\ \A j \in 1 .. Len(q) - 1 : Tail(q)[j] = q[j + 1]
  OBVIOUS
<1>2. IsFiniteSet(A) /\ Cardinality(A) \in Nat /\ A \in SUBSET Nat
  <2>1. A \in SUBSET Nat
    BY DEF Ahead
  <2>2. i \in Nat
    OBVIOUS
  <2>3. QED
    BY <2>1, <2>2, AheadIsFinite
<1>3. IsFiniteSet(B) /\ Cardinality(B) = Cardinality(A)
  BY <1>2, Shifted
<1>4. A = {j \in 1 .. i - 1 : q[j + 1] = q[i + 1]}
  <2>1. \A j \in 1 .. i - 1 : j \in 1 .. Len(q) - 1
    BY <1>1
  <2>2. QED
    BY <1>1, <2>1 DEF Ahead
<1>5. B = {j \in 2 .. i : q[j] = q[i + 1]}
  <2>1. ASSUME NEW j \in 2 .. i, q[j] = q[i + 1] PROVE j - 1 \in A /\ j = (j - 1) + 1
    BY <2>1, <1>4
  <2>2. ASSUME NEW x \in A PROVE x + 1 \in 2 .. i /\ q[x + 1] = q[i + 1]
    BY <2>2, <1>4
  <2>3. QED
    BY <2>1, <2>2
<1>6. CASE q[1] = q[i + 1]
  <2>1. Ahead(q, i + 1) = B \cup {1}
    <3>1. Ahead(q, i + 1) = {j \in 1 .. i : q[j] = q[i + 1]}
      BY DEF Ahead
    <3>2. ASSUME NEW j \in 1 .. i, q[j] = q[i + 1] PROVE j = 1 \/ j \in 2 .. i
      OBVIOUS
    <3>3. 1 \in 1 .. i /\ \A j \in 2 .. i : j \in 1 .. i
      OBVIOUS
    <3>4. B \cup {1} \subseteq Ahead(q, i + 1)
      BY <1>5, <1>6, <3>1, <3>3
    <3>5. Ahead(q, i + 1) \subseteq B \cup {1}
      BY <1>5, <3>1, <3>2
    <3>6. QED
      BY <3>4, <3>5
  <2>2. 1 \notin B
    BY <1>5
  <2>3. QED
    BY <2>1, <2>2, <1>1, <1>3, <1>6, FS_AddElement
<1>7. CASE q[1] # q[i + 1]
  <2>1. Ahead(q, i + 1) = B
    <3>1. Ahead(q, i + 1) = {j \in 1 .. i : q[j] = q[i + 1]}
      BY DEF Ahead
    <3>2. ASSUME NEW j \in 1 .. i, q[j] = q[i + 1] PROVE j = 1 \/ j \in 2 .. i
      OBVIOUS
    <3>3. QED
      BY <1>5, <1>7, <3>1, <3>2
  <2>2. Cardinality(A) + 0 = Cardinality(A)
    BY <1>2
  <2>3. Tail(q)[i] = q[i + 1]
    BY <1>1
  <2>4. QED
    BY <2>1, <2>2, <2>3, <1>3, <1>7
<1>8. QED
  BY <1>6, <1>7

-----------------------------------------------------------------------------
(* What the books of a conversation survive *)

LEMMA ConvTyped ==
    ASSUME NEW c \in Conv
    PROVE  /\ c.messages \in 0 .. MaxMessages /\ c.messages \in Nat /\ c.runs \in Nat /\ c.tools \in Nat
           /\ c.run \in Runs \cup {None} /\ c.obs \in Seq(Observations) /\ c.replies \in Seq(Nat)
           /\ c.tracked \in SUBSET Action /\ c.first \in [Action -> Submissions \cup {None}]
           /\ Len(c.obs) \in Nat /\ DOMAIN c.obs = 1 .. Len(c.obs)
           /\ \A k \in DOMAIN c.obs : c.obs[k] \in Observations
<1>1. /\ c.messages \in 0 .. MaxMessages /\ c.runs \in Nat /\ c.tools \in Nat
      /\ c.run \in Runs \cup {None} /\ c.obs \in Seq(Observations) /\ c.replies \in Seq(Nat)
      /\ c.tracked \in SUBSET Action /\ c.first \in [Action -> Submissions \cup {None}]
  BY DEF Conv
<1>2. c.messages \in Nat
  BY <1>1, ControlAssumption
<1>3. /\ Len(c.obs) \in Nat /\ DOMAIN c.obs = 1 .. Len(c.obs)
      /\ \A k \in DOMAIN c.obs : c.obs[k] \in Observations
  BY <1>1
<1>4. QED
  BY <1>1, <1>2, <1>3

LEMMA ObservationTyped ==
    ASSUME NEW o \in Observations
    PROVE  /\ o.run \in 1 .. MaxMessages /\ o.step \in 1 .. MaxSteps /\ o.turn \in 1 .. MaxMessages
           /\ o.run \in Nat /\ o.step \in Nat /\ o.turn \in Nat
           /\ o.call \in Call /\ o.result \in Found
BY ControlAssumption DEF Observations

LEMMA SameCalls ==
    ASSUME NEW c, NEW d, d.obs = c.obs
    PROVE  \A n, call : Tried(d, n, call) = Tried(c, n, call)
BY DEF Tried, Calling

\* Nothing was read, and the open run has ended or goes on.
LEMMA SoundWithoutReads ==
    ASSUME NEW c, Sound(c), NEW d \in Conv,
           d.obs = c.obs, d.tools = c.tools, d.runs = c.runs, c.messages <= d.messages,
           \A k \in DOMAIN d.replies : d.replies[k] <= d.messages,
           \A a \in d.tracked : d.first[a] # None /\ d.first[a].anchored,
           d.run = None \/ (/\ c.run # None /\ d.run.index = c.run.index
                            /\ d.run.start = c.run.start /\ d.run.used < MaxSteps)
    PROVE  Sound(d)
<1>1. Books(d)
  <2>1. /\ c.messages \in Nat /\ d.messages \in Nat
        /\ \A k \in DOMAIN c.obs : c.obs[k].turn \in Nat
    BY ConvTyped, ObservationTyped DEF Sound
  <2>2. \A k \in DOMAIN d.obs : d.obs[k].turn <= d.messages
    BY <2>1 DEF Sound, Books
  <2>3. c.runs \in Nat
    BY DEF Sound, Conv
  <2>4. d.runs <= d.messages
    BY <2>1, <2>3 DEF Sound, Books
  <2>5. QED
    BY <2>2, <2>4 DEF Sound, Books
<1>2. OpenRun(d)
  BY DEF Sound, OpenRun
<1>3. Capped(d)
  BY SameCalls DEF Sound, Capped
<1>4. QED
  BY <1>1, <1>2, <1>3 DEF Sound

LEMMA RunIsTyped ==
    ASSUME NEW c \in Conv, c.run # None
    PROVE  /\ c.run \in Runs /\ c.run.index \in 1 .. MaxMessages /\ c.run.start \in Nat
           /\ c.run.used \in 0 .. MaxSteps
           /\ c.run = [index |-> c.run.index, start |-> c.run.start, used |-> c.run.used]
BY DEF Conv, Runs

LEMMA ReplySound ==
    ASSUME NEW c, Sound(c)
    PROVE  Sound(Reply(c)) /\ Reply(c).obs = c.obs /\ Reply(c).first = c.first
<1> DEFINE d == Reply(c)
<1>2. c.replies \in Seq(Nat) /\ c.messages \in Nat /\ c \in Conv
  BY ConvTyped DEF Sound
<1>1. /\ d \in Conv /\ d.obs = c.obs /\ d.tools = c.tools /\ d.runs = c.runs /\ d.run = c.run
      /\ d.messages = c.messages /\ d.tracked = c.tracked /\ d.first = c.first
      /\ d.replies = Append(c.replies, c.messages)
  <2>1. Append(c.replies, c.messages) \in Seq(Nat)
    BY <1>2
  <2>2. QED
    BY <1>2, <2>1 DEF Conv, Reply
<1>3. \A k \in DOMAIN d.replies : d.replies[k] <= d.messages
  BY <1>1, <1>2 DEF Sound, Books
<1>4. \A a \in d.tracked : d.first[a] # None /\ d.first[a].anchored
  BY <1>1 DEF Sound, Books
<1>5. d.run = None \/ (c.run # None /\ d.run.used < MaxSteps)
  BY <1>1 DEF Sound, OpenRun
<1> HIDE DEF d
<1>6. c.messages <= d.messages
  BY <1>1, <1>2
<1>7. Sound(d)
  BY <1>1, <1>3, <1>4, <1>5, <1>6, SoundWithoutReads
<1>8. QED
  BY <1>1, <1>7 DEF d

\* A message begins: at the place of the open run, or at a new one behind all reads.
LEMMA BegunSound ==
    ASSUME NEW c, Sound(c), c.messages < MaxMessages
    PROVE  LET d == Begun([c EXCEPT !.messages = @ + 1])
           IN  /\ Sound(d) /\ d.obs = c.obs /\ d.first = c.first /\ d.tracked = c.tracked
               /\ d.messages = c.messages + 1
               /\ d.run # None /\ d.run.start <= Len(c.obs)
<1> DEFINE e == [c EXCEPT !.messages = @ + 1]
           d == Begun(e)
<1>1. /\ c.messages \in 0 .. MaxMessages /\ c.messages + 1 \in 0 .. MaxMessages
      /\ c.runs \in Nat /\ Len(c.obs) \in Nat /\ c.replies \in Seq(Nat)
      /\ c.obs \in Seq(Observations)
  BY ControlAssumption DEF Sound, Conv
<1>2. /\ e \in Conv /\ e.obs = c.obs /\ e.tools = c.tools /\ e.runs = c.runs /\ e.run = c.run
      /\ e.messages = c.messages + 1 /\ e.tracked = c.tracked /\ e.first = c.first
      /\ e.replies = c.replies
  BY <1>1 DEF Sound, Conv
<1>3. \A k \in DOMAIN c.replies : c.replies[k] \in Nat /\ c.replies[k] <= c.messages
  BY <1>1 DEF Sound, Books
<1>4. Sound(e)
  <2>1. \A k \in DOMAIN e.replies : e.replies[k] <= e.messages
    BY <1>1, <1>2, <1>3, ControlAssumption
  <2>2. \A a \in e.tracked : e.first[a] # None /\ e.first[a].anchored
    BY <1>2 DEF Sound, Books
  <2>3. e.run = None \/ (c.run # None /\ e.run.used < MaxSteps)
    BY <1>2 DEF Sound, OpenRun
  <2>4. c.messages <= e.messages
    BY <1>1, <1>2, ControlAssumption
  <2> HIDE DEF e
  <2>5. QED
    BY <1>2, <2>1, <2>2, <2>3, <2>4, SoundWithoutReads
<1>5. CASE e.run # None
  <2>1. d = e
    BY <1>5 DEF Begun
  <2>2. e.run.start <= Len(c.obs)
    BY <1>2, <1>5 DEF Sound, OpenRun
  <2> HIDE DEF e, d
  <2>3. QED
    BY <1>2, <1>4, <1>5, <2>1, <2>2 DEF d, e
<1>6. CASE e.run = None
  <2> DEFINE run == [index |-> e.runs + 1, start |-> Len(e.obs), used |-> 0]
  <2>1. d = [e EXCEPT !.runs = @ + 1, !.run = run]
    BY <1>6 DEF Begun
  <2>2. run \in Runs /\ run # None
    <3>1. e.runs + 1 \in 1 .. MaxMessages
      <4>1. c.runs <= c.messages /\ e.runs = c.runs
        BY <1>2 DEF Sound, Books
      <4>2. QED
        BY <4>1, <1>1, ControlAssumption
    <3>2. QED
      BY <3>1, <1>1, <1>2, ControlAssumption DEF Runs
  <2> HIDE DEF e
  <2>3. /\ d \in Conv /\ d.obs = e.obs /\ d.tools = e.tools /\ d.runs = e.runs + 1
        /\ d.run = run /\ d.messages = e.messages /\ d.tracked = e.tracked
        /\ d.first = e.first /\ d.replies = e.replies
    <3> HIDE DEF run, d
    <3>1. e.runs + 1 \in Nat /\ e \in Conv
      BY <1>1, <1>2
    <3>2. QED
      BY <2>1, <2>2, <3>1 DEF Conv
  <2> HIDE DEF d
  <2>4. \A k \in DOMAIN d.obs : d.obs[k].run \in Nat /\ d.obs[k].run <= c.runs
    BY <1>1, <1>2, <2>3, ConvTyped, ObservationTyped DEF Sound, Books
  <2>5. Books(d)
    <3>1. d.runs <= d.messages
      BY <1>1, <1>2, <2>3, ControlAssumption DEF Sound, Books
    <3>2. \A k \in DOMAIN d.obs : d.obs[k].run <= d.runs
      BY <1>1, <1>2, <2>3, <2>4
    <3>3. QED
      BY <1>4, <2>3, <3>1, <3>2 DEF Sound, Books
  <2>6. OpenRun(d)
    <3>1. /\ d.run.index = d.runs /\ d.run.start = Len(d.obs) /\ d.run.used = 0
      BY <2>3
    <3>2. \A k \in DOMAIN d.obs : ~(k > d.run.start) /\ d.obs[k].run # d.run.index
      BY <1>1, <1>2, <2>3, <2>4, <3>1
    <3>3. QED
      BY <3>1, <3>2, <1>1, <1>2, <2>3, ControlAssumption DEF OpenRun
  <2>7. Capped(d)
    <3>1. ASSUME NEW n \in 1 .. d.runs, NEW call \in Call
          PROVE  Tried(d, n, call) <= RetryCap
      <4>1. CASE n \in 1 .. e.runs
        BY <4>1, <1>4, <2>3, SameCalls DEF Sound, Capped
      <4>2. CASE n = e.runs + 1
        <5>1. Calling(d, n, call) = {}
          BY <4>2, <1>1, <1>2, <2>4 DEF Calling
        <5>2. QED
          BY <5>1, FS_EmptySet, ControlAssumption DEF Tried
      <4>3. QED
        BY <4>1, <4>2, <1>1, <1>2, <2>3
    <3>2. QED
      BY <3>1 DEF Capped
  <2>8. QED
    BY <1>2, <2>2, <2>3, <2>5, <2>6, <2>7, <1>1 DEF Sound, d, e
<1>7. QED
  BY <1>5, <1>6

\* One more read counts once, for its own run and call.
LEMMA ReadCounts ==
    ASSUME NEW c \in Conv, NEW o \in Observations, NEW d, d.obs = Append(c.obs, o),
           NEW n, NEW call
    PROVE  Tried(d, n, call) =
             IF o.run = n /\ o.call = call THEN Tried(c, n, call) + 1 ELSE Tried(c, n, call)
<1>1. /\ c.obs \in Seq(Observations) /\ Len(c.obs) \in Nat /\ DOMAIN c.obs = 1 .. Len(c.obs)
  BY ConvTyped
<1>2. /\ DOMAIN d.obs = 1 .. Len(c.obs) + 1 /\ d.obs[Len(c.obs) + 1] = o
      /\ \A k \in DOMAIN c.obs : d.obs[k] = c.obs[k]
  BY <1>1
<1>4. CASE o.run = n /\ o.call = call
  <2>1. Calling(d, n, call) = Calling(c, n, call) \cup {Len(c.obs) + 1}
    BY <1>1, <1>2, <1>4 DEF Calling
  <2>2. Len(c.obs) + 1 \notin Calling(c, n, call)
    BY <1>1 DEF Calling
  <2>3. IsFiniteSet(Calling(c, n, call))
    BY CallingIsFinite
  <2>4. Cardinality(Calling(d, n, call)) = Cardinality(Calling(c, n, call)) + 1
    BY <2>1, <2>2, <2>3, FS_AddElement
  <2>5. QED
    BY <2>4, <1>4 DEF Tried
<1>5. CASE ~(o.run = n /\ o.call = call)
  <2>1. Calling(d, n, call) = Calling(c, n, call)
    BY <1>1, <1>2, <1>5 DEF Calling
  <2>2. QED
    BY <2>1, <1>5 DEF Tried
<1>6. QED
  BY <1>4, <1>5

WithRead(c, o) ==
    [[c EXCEPT !.run.used = c.run.used + 1] EXCEPT !.tools = c.tools + 1, !.obs = Append(c.obs, o)]

\* A read of the open run within the cap, after which a step is left.
LEMMA ReadSound ==
    ASSUME NEW c, Sound(c), c.run # None, c.run.used + 1 < MaxSteps,
           NEW o \in Observations, o.run = c.run.index, o.turn = c.messages,
           o.id = <<c.messages, c.tools + 1>>, Tried(c, c.run.index, o.call) < RetryCap,
           NEW d, d = WithRead(c, o)
    PROVE  /\ Sound(d) /\ d.obs = Append(c.obs, o) /\ d.first = c.first /\ d.tracked = c.tracked
           /\ d.messages = c.messages /\ d.run = [c.run EXCEPT !.used = c.run.used + 1]
<1>1. /\ c \in Conv /\ c.run \in Runs /\ c.run.start \in Nat /\ c.run.used \in 0 .. MaxSteps
      /\ c.run.index \in 1 .. MaxMessages /\ c.run.start <= Len(c.obs)
  BY RunIsTyped DEF Sound, OpenRun
<1>2. /\ c.tools \in Nat /\ c.obs \in Seq(Observations) /\ Len(c.obs) \in Nat
      /\ DOMAIN c.obs = 1 .. Len(c.obs) /\ c.runs \in Nat /\ c.messages \in Nat
  BY <1>1, ConvTyped
<1> DEFINE run == [c.run EXCEPT !.used = c.run.used + 1]
<1>3. /\ run \in Runs /\ run # None /\ run.index = c.run.index /\ run.start = c.run.start
      /\ run.used = c.run.used + 1
  BY <1>1, ControlAssumption DEF Runs
<1>4. Append(c.obs, o) \in Seq(Observations) /\ c.tools + 1 \in Nat
  BY <1>2
<1> HIDE DEF run
<1>5. d = [c EXCEPT !.run = run, !.tools = c.tools + 1, !.obs = Append(c.obs, o)]
  BY <1>1 DEF run, Conv, WithRead
<1>6. /\ d \in Conv /\ d.obs = Append(c.obs, o) /\ d.tools = c.tools + 1 /\ d.run = run
      /\ d.runs = c.runs /\ d.messages = c.messages /\ d.tracked = c.tracked
      /\ d.first = c.first /\ d.replies = c.replies
  BY <1>1, <1>3, <1>4, <1>5 DEF Conv
<1>7. /\ DOMAIN d.obs = 1 .. Len(c.obs) + 1 /\ Len(d.obs) = Len(c.obs) + 1
      /\ d.obs[Len(c.obs) + 1] = o
      /\ \A k \in DOMAIN c.obs : d.obs[k] = c.obs[k]
  BY <1>2, <1>6
<1>8. Books(d)
  <2>1. ASSUME NEW k \in DOMAIN d.obs
        PROVE  /\ d.obs[k].run <= d.runs /\ d.obs[k].turn <= d.messages
               /\ d.obs[k].id = <<d.obs[k].turn, k>>
    <3>1. CASE k \in DOMAIN c.obs
      BY <3>1, <1>6, <1>7 DEF Sound, Books
    <3>2. CASE k = Len(c.obs) + 1
      BY <3>2, <1>2, <1>6, <1>7 DEF Sound, Books, OpenRun
    <3>3. QED
      BY <3>1, <3>2, <1>2, <1>7
  <2>2. QED
    BY <2>1, <1>2, <1>6, <1>7 DEF Sound, Books
<1>9. OpenRun(d)
  <2>1. ASSUME NEW k \in DOMAIN d.obs
        PROVE  k > d.run.start <=> d.obs[k].run = d.run.index
    <3>1. CASE k \in DOMAIN c.obs
      BY <3>1, <1>3, <1>6, <1>7 DEF Sound, OpenRun
    <3>2. CASE k = Len(c.obs) + 1
      <4>1. k > c.run.start
        BY <3>2, <1>1, <1>2
      <4>2. QED
        BY <3>2, <4>1, <1>3, <1>6, <1>7
    <3>3. QED
      BY <3>1, <3>2, <1>2, <1>7
  <2>2. d.run.start <= Len(d.obs)
    <3>1. d.run.start = c.run.start /\ Len(d.obs) = Len(c.obs) + 1
      BY <1>3, <1>6, <1>7
    <3>2. QED
      BY <3>1, <1>1, <1>2
  <2>3. QED
    BY <2>1, <2>2, <1>3, <1>6 DEF Sound, OpenRun
<1>10. Capped(d)
  <2>1. ASSUME NEW n \in 1 .. d.runs, NEW call \in Call
        PROVE  Tried(d, n, call) <= RetryCap
    <3>1. Tried(c, n, call) <= RetryCap
      BY <1>6 DEF Sound, Capped
    <3>2. Tried(c, n, call) \in Nat
      BY <1>1, CallingIsFinite
    <3>3. Tried(d, n, call) =
            IF o.run = n /\ o.call = call THEN Tried(c, n, call) + 1 ELSE Tried(c, n, call)
      <4>1. c \in Conv /\ d.obs = Append(c.obs, o)
        BY <1>1, <1>6
      <4>2. QED
        BY <4>1, ReadCounts
    <3>4. CASE o.run = n /\ o.call = call
      <4>1. Tried(c, n, call) < RetryCap
        BY <3>4
      <4>2. QED
        BY <3>2, <3>3, <3>4, <4>1, ControlAssumption
    <3>5. CASE ~(o.run = n /\ o.call = call)
      BY <3>1, <3>3, <3>5
    <3>6. QED
      BY <3>4, <3>5
  <2>2. QED
    BY <2>1 DEF Capped
<1>11. QED
  BY <1>6, <1>8, <1>9, <1>10 DEF Sound, run

\* The open run spends a step without a read.
LEMMA SteppedIs ==
    ASSUME Sound(conv), conv.run # None
    PROVE  /\ conv.run.used + 1 \in 0 .. MaxSteps
           /\ Stepped \in Conv /\ Stepped.obs = conv.obs /\ Stepped.tools = conv.tools
           /\ Stepped.runs = conv.runs /\ Stepped.messages = conv.messages
           /\ Stepped.tracked = conv.tracked /\ Stepped.first = conv.first
           /\ Stepped.replies = conv.replies
           /\ Stepped.run # None /\ Stepped.run.index = conv.run.index
           /\ Stepped.run.start = conv.run.start /\ Stepped.run.used = conv.run.used + 1
<1>1. /\ conv \in Conv /\ conv.run \in Runs /\ conv.run.used \in 0 .. MaxSteps
      /\ conv.run.used < MaxSteps
  BY RunIsTyped DEF Sound, OpenRun
<1>2. conv.run.used + 1 \in 0 .. MaxSteps
  BY <1>1, ControlAssumption
<1> DEFINE run == [conv.run EXCEPT !.used = conv.run.used + 1]
<1>3. /\ run \in Runs /\ run # None /\ run.index = conv.run.index /\ run.start = conv.run.start
      /\ run.used = conv.run.used + 1
  BY <1>1, <1>2, ControlAssumption DEF Runs
<1> HIDE DEF run
<1>4. Stepped = [conv EXCEPT !.run = run]
  BY <1>1 DEF Stepped, NextStep, run, Conv
<1>5. QED
  BY <1>1, <1>2, <1>3, <1>4 DEF Conv

-----------------------------------------------------------------------------
(* The end of a turn *)

LEMMA NothingRemembered ==
    DOMAIN <<>> = {} /\ \A S : <<>> \in [DOMAIN <<>> -> S]
OBVIOUS

\* What was submitted stays borne out while the turn reads on.
LEMMA SentStays ==
    ASSUME ControlInv
    PROVE  \A s \in sent : s.upto <= Len(conv.obs) /\ (s.held \/ Borne(s, conv.obs))
<1>1. /\ conv \in Conv /\ saved \in Conv /\ Len(saved.obs) \in Nat /\ Len(conv.obs) \in Nat
      /\ DOMAIN saved.obs = 1 .. Len(saved.obs)
  BY ConvTyped DEF ControlInv, Sound
<1>2. /\ Len(saved.obs) <= Len(conv.obs)
      /\ \A k \in DOMAIN saved.obs : conv.obs[k] = saved.obs[k]
  <2>1. CASE at = "idle"
    BY <2>1, <1>1 DEF ControlInv, TurnInv
  <2>2. CASE at = "decide"
    BY <2>2 DEF ControlInv, TurnInv
  <2>3. QED
    BY <2>1, <2>2 DEF ControlInv, TypeOK
<1>3. ASSUME NEW s \in sent
      PROVE  s.upto <= Len(conv.obs) /\ (s.held \/ Borne(s, conv.obs))
  <2>1. s.upto \in Nat /\ s.upto <= Len(saved.obs) /\ (s.held \/ Borne(s, saved.obs))
    BY DEF ControlInv, TypeOK, SentInv
  <2>2. \A k \in 1 .. s.upto : conv.obs[k] = saved.obs[k]
    BY <1>1, <1>2, <2>1
  <2>3. \A k \in 1 .. s.upto : \A j \in k + 1 .. s.upto : j \in 1 .. s.upto
    BY <2>1
  <2>4. Borne(s, saved.obs) => Borne(s, conv.obs)
    BY <2>2, <2>3 DEF Borne
  <2>5. QED
    BY <1>1, <1>2, <2>1, <2>4
<1>4. QED
  BY <1>3

\* A sound conversation that becomes the head leaves nothing to the next request.
LEMMA TurnEnds ==
    ASSUME ControlInv, NEW d, Sound(d), EndTurn(d), Held(d, core'),
           core' \in [Action -> {"none", "waiting", "done", "closed"}],
           sent' \subseteq [action : Action, run : 1 .. MaxMessages, upto : Nat, held : BOOLEAN],
           \A s \in sent' : s.upto <= Len(d.obs) /\ (s.held \/ Borne(s, d.obs)),
           answer' \in [said : SUBSET Action, waited : SUBSET Action] \cup {None},
           answer' # None => answer'.said = answer'.waited,
           broke' = broke
    PROVE  ControlInv'
<1>1. /\ conv' = d /\ saved' = d /\ at' = "idle" /\ queue' = <<>> /\ native' = <<>>
  BY DEF EndTurn
<1>2. TypeOK'
  <2>1. d \in Conv
    BY DEF Sound
  <2>2. /\ DOMAIN native' \subseteq 1 .. MaxSteps
        /\ native' \in [DOMAIN native' -> [call : Call, batch : 1 .. MaxSteps, index : Nat]]
    BY <1>1, NothingRemembered
  <2>3. broke' \in BOOLEAN
    BY DEF ControlInv, TypeOK
  <2>4. QED
    BY <1>1, <2>1, <2>2, <2>3 DEF TypeOK
<1>3. TurnInv'
  BY <1>1, NothingRemembered DEF TurnInv
<1>4. NativeInv' /\ PendingInv' /\ (at' = "decide" => Allowed(conv', queue'))
  BY <1>1 DEF NativeInv, PendingInv
<1>5. SentInv'
  BY <1>1 DEF SentInv
<1>6. Sound(conv') /\ Sound(saved') /\ Held(conv', core') /\ Held(saved', core')
  BY <1>1
<1>7. ~broke'
  BY DEF ControlInv
<1>8. QED
  BY <1>2, <1>3, <1>4, <1>5, <1>6, <1>7 DEF ControlInv

\* The turn ends with a reply, the open run going on or not.
LEMMA ReplyEnds ==
    ASSUME ControlInv, NEW c, Sound(c), c.obs = conv.obs, c.first = conv.first,
           EndTurn(Reply(c)), UNCHANGED <<core, sent, broke>>,
           answer' \in [said : SUBSET Action, waited : SUBSET Action] \cup {None},
           answer' # None => answer'.said = answer'.waited
    PROVE  ControlInv'
<1>1. PICK d : d = Reply(c)
  OBVIOUS
<1>2. Sound(d) /\ d.obs = conv.obs /\ d.first = conv.first
  BY <1>1, ReplySound
<1>3. EndTurn(d)
  BY <1>1
<1>4. Held(d, core')
  BY <1>2 DEF ControlInv, Held
<1>5. /\ core' \in [Action -> {"none", "waiting", "done", "closed"}]
      /\ sent' \subseteq [action : Action, run : 1 .. MaxMessages, upto : Nat, held : BOOLEAN]
  BY DEF ControlInv, TypeOK
<1>6. \A s \in sent' : s.upto <= Len(d.obs) /\ (s.held \/ Borne(s, d.obs))
  BY <1>2, SentStays
<1>7. QED
  BY <1>2, <1>3, <1>4, <1>5, <1>6, TurnEnds

\* What a run without a next step leaves, with and without the step of its last decision.
LEMMA ClosedSound ==
    ASSUME Sound(conv), conv.run # None
    PROVE  /\ Sound([conv EXCEPT !.run = None]) /\ Sound([Stepped EXCEPT !.run = None])
           /\ [conv EXCEPT !.run = None].obs = conv.obs
           /\ [conv EXCEPT !.run = None].first = conv.first
           /\ [Stepped EXCEPT !.run = None].obs = conv.obs
           /\ [Stepped EXCEPT !.run = None].first = conv.first
<1>1. PICK c : c = conv
  OBVIOUS
<1>2. PICK p : p = Stepped
  OBVIOUS
<1>3. /\ Sound(c) /\ c \in Conv /\ p \in Conv /\ c.messages \in Nat
      /\ p.obs = c.obs /\ p.tools = c.tools /\ p.runs = c.runs /\ p.messages = c.messages
      /\ p.tracked = c.tracked /\ p.first = c.first /\ p.replies = c.replies
  BY <1>1, <1>2, SteppedIs, ConvTyped DEF Sound
<1>4. ASSUME NEW q \in {c, p}
      PROVE  /\ Sound([q EXCEPT !.run = None])
             /\ [q EXCEPT !.run = None].obs = c.obs /\ [q EXCEPT !.run = None].first = c.first
  <2>1. PICK d : d = [q EXCEPT !.run = None]
    OBVIOUS
  <2>2. /\ d \in Conv /\ d.obs = c.obs /\ d.tools = c.tools /\ d.runs = c.runs
        /\ d.messages = c.messages /\ d.tracked = c.tracked /\ d.first = c.first
        /\ d.replies = c.replies /\ d.run = None
    BY <2>1, <1>3 DEF Conv
  <2>3. /\ \A k \in DOMAIN d.replies : d.replies[k] <= d.messages
        /\ \A a \in d.tracked : d.first[a] # None /\ d.first[a].anchored
        /\ c.messages <= d.messages
    BY <2>2, <1>3 DEF Sound, Books
  <2>4. Sound(d)
    BY <1>3, <2>2, <2>3, SoundWithoutReads
  <2>5. QED
    BY <2>1, <2>2, <2>4
<1>5. QED
  BY <1>1, <1>2, <1>4

\* An answer after a read of the pending requests names those that wait.
LEMMA AnswerIsTrue ==
    ASSUME ControlInv, at = "decide", AskedNow
    PROVE  PendingSource = Waiting
<1> DEFINE start == conv.run.start
           reads == {j \in DOMAIN Seen : Seen[j].call = ReadPending}
           asked == {k \in DOMAIN conv.obs : k > Len(saved.obs) /\ conv.obs[k].call = ReadPending}
<1>1. /\ Sound(conv) /\ Sound(saved) /\ conv.run # None /\ conv.messages = saved.messages + 1
      /\ start <= Len(saved.obs) /\ Len(saved.obs) <= Len(conv.obs)
      /\ \A k \in DOMAIN saved.obs : conv.obs[k] = saved.obs[k]
  BY DEF ControlInv, TurnInv
<1>2. /\ start \in Nat /\ Len(conv.obs) \in Nat /\ DOMAIN conv.obs = 1 .. Len(conv.obs)
      /\ Len(saved.obs) \in Nat /\ DOMAIN saved.obs = 1 .. Len(saved.obs) /\ saved.messages \in Nat
      /\ \A k \in DOMAIN saved.obs : saved.obs[k].turn \in Nat
  BY <1>1, ConvTyped, RunIsTyped, ObservationTyped DEF Sound
<1>3. /\ DOMAIN Seen = 1 .. Len(conv.obs) - start
      /\ \A k \in DOMAIN Seen : Seen[k] = conv.obs[k + start]
  BY <1>1, SeenIs
<1>4. asked # {}
  <2>1. PICK k \in DOMAIN Seen : Seen[k].call = ReadPending /\ Seen[k].turn = conv.messages
    BY DEF AskedNow
  <2>2. k + start \in DOMAIN conv.obs /\ conv.obs[k + start].turn = conv.messages
        /\ conv.obs[k + start].call = ReadPending
    BY <1>2, <1>3, <2>1
  <2>3. k + start > Len(saved.obs)
    <3>1. SUFFICES ASSUME k + start <= Len(saved.obs) PROVE FALSE
      BY <1>2, <2>2
    <3>2. k + start \in DOMAIN saved.obs
      BY <1>2, <2>2, <3>1
    <3>3. saved.obs[k + start].turn <= saved.messages
      BY <1>1, <3>2 DEF Sound, Books
    <3>4. saved.obs[k + start].turn = saved.messages + 1
      BY <1>1, <2>2, <3>2
    <3>5. saved.obs[k + start].turn \in Nat /\ saved.messages \in Nat
      BY <1>2, <3>2
    <3>6. QED
      BY <3>3, <3>4, <3>5
  <2>4. QED
    BY <2>2, <2>3
<1>5. PICK m \in asked : (\A j \in asked : j <= m) /\ conv.obs[m].result.waits = Waiting
  BY <1>4 DEF ControlInv, PendingInv
<1>6. m - start \in reads /\ Seen[m - start] = conv.obs[m]
  <2>1. m - start \in 1 .. Len(conv.obs) - start /\ (m - start) + start = m
    BY <1>1, <1>2
  <2>2. QED
    BY <1>3, <2>1
<1>7. \A j \in reads : m - start >= j
  <2>1. ASSUME NEW j \in reads PROVE m - start >= j
    <3>1. j + start \in DOMAIN conv.obs /\ conv.obs[j + start].call = ReadPending /\ j \in Nat
      <4>1. j \in DOMAIN Seen /\ Seen[j].call = ReadPending /\ Seen[j] = conv.obs[j + start]
        BY <1>3
      <4>2. j \in 1 .. Len(conv.obs) - start
        BY <1>3, <4>1
      <4>3. j + start \in 1 .. Len(conv.obs) /\ j \in Nat
        BY <1>2, <4>2
      <4>4. QED
        BY <1>2, <4>1, <4>3
    <3>2. j + start <= m
      <4>1. CASE j + start > Len(saved.obs)
        BY <3>1, <4>1, <1>5
      <4>2. CASE j + start <= Len(saved.obs)
        BY <3>1, <4>2, <1>2, <1>5
      <4>3. QED
        BY <4>1, <4>2, <1>2, <3>1
    <3>3. QED
      BY <3>1, <3>2, <1>2
  <2>2. QED
    BY <2>1
<1>8. Max(reads) = m - start
  <2>1. reads \subseteq Nat
    BY <1>2, <1>3
  <2>2. \A x \in reads : (\A y \in reads : x >= y) => x = m - start
    BY <1>6, <1>7, <2>1
  <2> HIDE DEF reads
  <2>3. QED
    BY <1>6, <1>7, <2>2 DEF Max
<1>9. QED
  BY <1>5, <1>6, <1>8 DEF PendingSource

LEMMA WaitingIsTyped == ControlInv => Waiting \in SUBSET Action
BY ConvTyped DEF ControlInv, Sound, Waiting

-----------------------------------------------------------------------------
(* The steps that end a turn or pass between turns *)

LEMMA FinishKeeps ==
    ASSUME ControlInv, at = "decide", NEW disposition, Finish(disposition)
    PROVE  ControlInv'
<1>1. Sound(conv) /\ conv.run # None
  BY DEF ControlInv, TurnInv
<1>2. PICK c : c = [Stepped EXCEPT !.run = None]
  OBVIOUS
<1>3. Sound(c) /\ c.obs = conv.obs /\ c.first = conv.first
  BY <1>1, <1>2, ClosedSound
<1>4. EndTurn(Reply(c)) /\ UNCHANGED <<core, sent, broke>>
  BY <1>2 DEF Finish
<1>5. answer' = None \/ (answer' = [said |-> Waiting, waited |-> Waiting])
  BY AnswerIsTrue DEF Finish, GenerateAnswer
<1>6. /\ answer' \in [said : SUBSET Action, waited : SUBSET Action] \cup {None}
      /\ answer' # None => answer'.said = answer'.waited
  BY <1>5, WaitingIsTyped
<1>7. QED
  BY <1>3, <1>4, <1>6, ReplyEnds

LEMMA ClosedKeeps ==
    ASSUME ControlInv, at = "decide", UNCHANGED <<core, history>>,
           \/ EndTurn(Reply([Stepped EXCEPT !.run = None]))
           \/ EndTurn(Reply([conv EXCEPT !.run = None]))
    PROVE  ControlInv'
<1>1. Sound(conv) /\ conv.run # None
  BY DEF ControlInv, TurnInv
<1>2. PICK c : /\ c \in {[Stepped EXCEPT !.run = None], [conv EXCEPT !.run = None]}
               /\ EndTurn(Reply(c))
  OBVIOUS
<1>3. Sound(c) /\ c.obs = conv.obs /\ c.first = conv.first
  BY <1>1, <1>2, ClosedSound
<1>4. UNCHANGED <<core, sent, broke>> /\ answer' = answer
  BY DEF history
<1>5. /\ answer' \in [said : SUBSET Action, waited : SUBSET Action] \cup {None}
      /\ answer' # None => answer'.said = answer'.waited
  BY <1>4 DEF ControlInv, TypeOK
<1>6. QED
  BY <1>2, <1>3, <1>4, <1>5, ReplyEnds

\* A question leaves the run a step for the decision after the reply.
LEMMA ClarifyKeeps ==
    ASSUME ControlInv, at = "decide", Remaining > 1, Clarify
    PROVE  ControlInv'
<1>1. Sound(conv) /\ conv.run # None
  BY DEF ControlInv, TurnInv
<1>2. PICK c : c = conv
  OBVIOUS
<1>3. PICK p : p = Stepped
  OBVIOUS
<1>4. conv.run.used \in Nat /\ MaxSteps \in Nat
  <2>1. conv.run.used \in 0 .. MaxSteps
    BY <1>1, RunIsTyped DEF Sound
  <2>2. QED
    BY <2>1, ControlAssumption
<1>5. c.run.used + 1 < MaxSteps
  BY <1>2, <1>4 DEF Remaining, NextStep
<1>6. /\ p \in Conv /\ p.obs = c.obs /\ p.tools = c.tools /\ p.runs = c.runs
      /\ p.messages = c.messages /\ p.tracked = c.tracked /\ p.first = c.first
      /\ p.replies = c.replies /\ p.run # None /\ p.run.index = c.run.index
      /\ p.run.start = c.run.start /\ p.run.used = c.run.used + 1
      /\ c.run # None /\ Sound(c) /\ c.messages \in Nat
  BY <1>1, <1>2, <1>3, SteppedIs, ConvTyped DEF Sound
<1>7. Sound(p)
  <2>1. /\ c.messages <= p.messages
        /\ \A k \in DOMAIN p.replies : p.replies[k] <= p.messages
        /\ \A a \in p.tracked : p.first[a] # None /\ p.first[a].anchored
    BY <1>6 DEF Sound, Books
  <2>2. QED
    BY <1>5, <1>6, <2>1, SoundWithoutReads
<1>8. EndTurn(Reply(p)) /\ UNCHANGED <<core, sent, broke>> /\ answer' = answer
  BY <1>3 DEF Clarify, history
<1>9. /\ answer' \in [said : SUBSET Action, waited : SUBSET Action] \cup {None}
      /\ answer' # None => answer'.said = answer'.waited
  BY <1>8 DEF ControlInv, TypeOK
<1>10. QED
  BY <1>2, <1>6, <1>7, <1>8, <1>9, ReplyEnds

\* The steps after which nothing is left of the request but the head.
LEMMA EndersKeep ==
    ASSUME ControlInv,
           StepLimit \/ (at = "decide" /\ \E a \in Action : GroundingRejected(a))
    PROVE  ControlInv'
BY ClosedKeeps DEF StepLimit, GroundingRejected

LEMMA TurnFailsKeeps == ASSUME ControlInv, TurnFails PROVE ControlInv'
<1>1. /\ conv' = saved /\ at' = "idle" /\ queue' = <<>> /\ native' = <<>>
      /\ UNCHANGED <<core, saved, sent, answer, broke>>
  BY DEF TurnFails, history
<1>2. TypeOK'
  <2>1. /\ DOMAIN native' \subseteq 1 .. MaxSteps
        /\ native' \in [DOMAIN native' -> [call : Call, batch : 1 .. MaxSteps, index : Nat]]
    BY <1>1, NothingRemembered
  <2>2. QED
    BY <1>1, <2>1 DEF ControlInv, TypeOK
<1>3. TurnInv'
  BY <1>1, NothingRemembered DEF TurnInv
<1>4. NativeInv' /\ PendingInv' /\ SentInv'
  BY <1>1 DEF ControlInv, NativeInv, PendingInv, SentInv
<1>5. QED
  BY <1>1, <1>2, <1>3, <1>4 DEF ControlInv

LEMMA BeginKeeps == ASSUME ControlInv, BeginRun PROVE ControlInv'
<1>1. /\ at = "idle" /\ conv = saved /\ queue = <<>> /\ DOMAIN native = {}
      /\ conv.messages < MaxMessages /\ Sound(conv)
  BY DEF ControlInv, TurnInv, BeginRun
<1>2. PICK c : c = conv
  OBVIOUS
<1>3. PICK d : d = Begun([c EXCEPT !.messages = @ + 1])
  OBVIOUS
<1>4. /\ Sound(d) /\ d.obs = c.obs /\ d.first = c.first /\ d.messages = c.messages + 1
      /\ d.run # None /\ d.run.start <= Len(c.obs)
  BY <1>1, <1>2, <1>3, BegunSound
<1>5. /\ conv' = d /\ saved = c /\ at' = "decide"
      /\ UNCHANGED <<core, saved, queue, native, sent, answer, broke>>
  BY <1>1, <1>2, <1>3 DEF BeginRun, policy, history
<1>6. TypeOK'
  <2>1. d \in Conv
    BY <1>4 DEF Sound
  <2>2. QED
    BY <1>5, <2>1 DEF ControlInv, TypeOK
<1>7. Len(c.obs) \in Nat /\ DOMAIN c.obs = 1 .. Len(c.obs)
  BY <1>1, <1>2, ConvTyped DEF Sound
<1>8. TurnInv'
  BY <1>4, <1>5, <1>7 DEF TurnInv
<1>9. NativeInv'
  BY <1>1, <1>4, <1>5, <1>7 DEF NativeInv
<1>10. PendingInv'
  BY <1>4, <1>5, <1>7 DEF PendingInv
<1>11. Held(conv', core') /\ Held(saved', core') /\ Sound(conv') /\ Sound(saved')
  BY <1>1, <1>2, <1>4, <1>5 DEF ControlInv, Held
<1>12. Allowed(conv', queue')
  BY <1>1, <1>5 DEF Allowed
<1>13. SentInv'
  BY <1>5 DEF ControlInv, SentInv
<1>14. QED
  BY <1>5, <1>6, <1>8, <1>9, <1>10, <1>11, <1>12, <1>13 DEF ControlInv

LEMMA SmalltalkKeeps == ASSUME ControlInv, Smalltalk PROVE ControlInv'
<1>1. Sound(conv) /\ conv.run = None /\ conv.messages < MaxMessages
  BY DEF ControlInv, Smalltalk
<1>2. PICK c : c = conv
  OBVIOUS
<1>3. PICK d : d = [c EXCEPT !.messages = c.messages + 1]
  OBVIOUS
<1>4. c \in Conv /\ c.messages \in Nat /\ c.messages + 1 \in 0 .. MaxMessages
  <2>1. c \in Conv /\ c.messages \in Nat
    BY <1>1, <1>2, ConvTyped DEF Sound
  <2>2. QED
    BY <2>1, <1>1, <1>2, ControlAssumption
<1>5. /\ d \in Conv /\ d.obs = c.obs /\ d.tools = c.tools /\ d.runs = c.runs /\ d.run = None
      /\ d.messages = c.messages + 1 /\ d.tracked = c.tracked /\ d.first = c.first
      /\ d.replies = c.replies
  BY <1>1, <1>2, <1>3, <1>4 DEF Conv
<1>6. \A k \in DOMAIN c.replies : c.replies[k] \in Nat /\ c.replies[k] <= c.messages
  BY <1>1, <1>2, <1>4 DEF Sound, Books, Conv
<1>7. Sound(d)
  <2>1. \A k \in DOMAIN d.replies : d.replies[k] <= d.messages
    BY <1>4, <1>5, <1>6
  <2>2. \A a \in d.tracked : d.first[a] # None /\ d.first[a].anchored
    BY <1>1, <1>2, <1>5 DEF Sound, Books
  <2>3. c.messages <= d.messages /\ Sound(c)
    BY <1>1, <1>2, <1>4, <1>5
  <2>4. QED
    BY <1>5, <2>1, <2>2, <2>3, SoundWithoutReads
<1>8. EndTurn(Reply(d)) /\ UNCHANGED <<core, sent, answer, broke>>
  BY <1>2, <1>3 DEF Smalltalk, history
<1>9. /\ answer' \in [said : SUBSET Action, waited : SUBSET Action] \cup {None}
      /\ answer' # None => answer'.said = answer'.waited
  BY <1>8 DEF ControlInv, TypeOK
<1>10. QED
  BY <1>2, <1>5, <1>7, <1>8, <1>9, ReplyEnds

LEMMA OperatorKeeps ==
    ASSUME ControlInv, NEW a \in Action, OperatorDecides(a)
    PROVE  ControlInv'
<1>1. /\ at = "idle" /\ conv = saved /\ queue = <<>> /\ DOMAIN native = {} /\ Sound(conv)
  BY DEF ControlInv, TurnInv, OperatorDecides
<1>2. PICK d : d = Reply(conv)
  OBVIOUS
<1>3. Sound(d) /\ d.obs = conv.obs /\ d.first = conv.first
  BY <1>1, <1>2, ReplySound
<1>4. PICK how \in {"done", "closed"} : core' = [core EXCEPT ![a] = how]
  BY DEF OperatorDecides
<1>5. /\ conv' = d /\ saved' = d
      /\ UNCHANGED <<at, queue, native, sent, answer, broke>>
  BY <1>2 DEF OperatorDecides, policy, history
<1>6. TypeOK'
  <2>1. d \in Conv /\ core' \in [Action -> {"none", "waiting", "done", "closed"}]
    BY <1>3, <1>4 DEF Sound, ControlInv, TypeOK
  <2>2. QED
    BY <1>5, <2>1 DEF ControlInv, TypeOK
<1>7. Held(d, core')
  BY <1>3, <1>4 DEF ControlInv, TypeOK, Held
<1>8. TurnInv' /\ NativeInv' /\ PendingInv'
  BY <1>1, <1>5 DEF TurnInv, NativeInv, PendingInv
<1>9. SentInv'
  BY <1>1, <1>3, <1>5 DEF ControlInv, SentInv
<1>10. QED
  BY <1>1, <1>3, <1>5, <1>6, <1>7, <1>8, <1>9 DEF ControlInv

-----------------------------------------------------------------------------
(* The gate *)

\* What the gate lets pass is borne out by the latest read of its order in the run.
LEMMA GroundedIsBorne ==
    ASSUME Sound(conv), conv.run # None, NEW a, Grounded(a),
           NEW s, s.action = a, s.run = conv.run.index, s.upto = Len(conv.obs)
    PROVE  Borne(s, conv.obs)
<1> DEFINE start == conv.run.start
<1>1. /\ DOMAIN Seen = 1 .. Len(conv.obs) - start /\ Len(Seen) = Len(conv.obs) - start
      /\ \A k \in DOMAIN Seen : Seen[k] = conv.obs[k + start]
  BY SeenIs
<1>2. /\ start \in Nat /\ Len(conv.obs) \in Nat /\ DOMAIN conv.obs = 1 .. Len(conv.obs)
      /\ start <= Len(conv.obs)
      /\ \A k \in DOMAIN conv.obs : k > start <=> conv.obs[k].run = conv.run.index
  BY ConvTyped, RunIsTyped DEF Sound, OpenRun
<1>3. PICK k \in Latest(a.order) :
        Seen[k].result.items # None /\ a.item \in Seen[k].result.items
  BY DEF Grounded
<1>4. /\ k \in 1 .. Len(conv.obs) - start /\ Seen[k].call = Reading(a.order)
      /\ \A j \in k + 1 .. Len(conv.obs) - start : Seen[j].call # Reading(a.order)
  BY <1>1, <1>3 DEF Latest
<1>5. /\ k + start \in 1 .. Len(conv.obs) /\ k + start > start
      /\ conv.obs[k + start] = Seen[k]
  BY <1>1, <1>2, <1>4
<1>6. ASSUME NEW j \in (k + start) + 1 .. Len(conv.obs)
      PROVE  conv.obs[j].call # Reading(a.order)
  <2>1. /\ j - start \in k + 1 .. Len(conv.obs) - start
        /\ j - start \in 1 .. Len(conv.obs) - start /\ (j - start) + start = j
    BY <1>2, <1>4
  <2>2. QED
    BY <2>1, <1>1, <1>4
<1>7. PICK m \in 1 .. s.upto : m = k + start
  BY <1>5
<1>8. /\ conv.obs[m].run = s.run /\ conv.obs[m].call = Reading(s.action.order)
      /\ conv.obs[m].result.items # None /\ s.action.item \in conv.obs[m].result.items
  BY <1>2, <1>3, <1>4, <1>5, <1>7
<1>9. \A j \in m + 1 .. s.upto : conv.obs[j].call # conv.obs[m].call
  BY <1>6, <1>7, <1>8
<1>10. QED
  BY <1>8, <1>9 DEF Borne

Bound(c, a, held) ==
    IF Anchored(a) THEN c.first
    ELSE [c.first EXCEPT ![a] = [run |-> conv.run.index, anchored |-> held # "none"]]

ActionKept(c, a, held) ==
    [c EXCEPT !.run = None,
              !.tracked = IF held = "waiting" THEN c.tracked \cup {a} ELSE c.tracked,
              !.first = Bound(c, a, held)]

\* An action ends the run; what waits is bound to its submission.
LEMMA KeptSound ==
    ASSUME Sound(conv), conv.run # None, Held(conv, core),
           core \in [Action -> {"none", "waiting", "done", "closed"}], NEW a \in Action,
           NEW held \in {"none", "waiting", "done", "closed"}, Anchored(a) => held = core[a]
    PROVE  /\ Sound(ActionKept(Stepped, a, held)) /\ ActionKept(Stepped, a, held).obs = conv.obs
           /\ Held(ActionKept(Stepped, a, held), [core EXCEPT ![a] = held])
<1>1. PICK c : c = conv
  OBVIOUS
<1>2. PICK p : p = Stepped
  OBVIOUS
<1>3. /\ Sound(c) /\ c \in Conv /\ p \in Conv /\ c.messages \in Nat
      /\ p.obs = c.obs /\ p.tools = c.tools /\ p.runs = c.runs /\ p.messages = c.messages
      /\ p.tracked = c.tracked /\ p.first = c.first /\ p.replies = c.replies
  BY <1>1, <1>2, SteppedIs, ConvTyped DEF Sound
<1>4. PICK first : first = Bound(p, a, held)
  OBVIOUS
<1>5. PICK tracked : tracked = IF held = "waiting" THEN p.tracked \cup {a} ELSE p.tracked
  OBVIOUS
<1>6. c.first \in [Action -> Submissions \cup {None}] /\ c.tracked \in SUBSET Action
  BY <1>3, ConvTyped
<1>7. PICK sub : sub = [run |-> conv.run.index, anchored |-> held # "none"]
  OBVIOUS
<1>8. sub \in Submissions /\ sub # None /\ sub.anchored = (held # "none")
  <2>1. conv.run.index \in 1 .. MaxMessages
    BY RunIsTyped DEF Sound
  <2>2. sub \in Submissions
    BY <2>1, <1>7 DEF Submissions
  <2>3. QED
    BY <2>2, <1>7, ControlAssumption
<1>9. /\ first = IF Anchored(a) THEN c.first ELSE [c.first EXCEPT ![a] = sub]
      /\ Anchored(a) <=> c.first[a] # None /\ c.first[a].anchored
  BY <1>1, <1>3, <1>4, <1>7 DEF Bound, Anchored
<1>10. first \in [Action -> Submissions \cup {None}]
  BY <1>6, <1>8, <1>9
<1>11. PICK d : d = [p EXCEPT !.run = None, !.tracked = tracked, !.first = first]
  OBVIOUS
<1>12. tracked \in SUBSET Action
  BY <1>3, <1>5, <1>6
<1>13. /\ d \in Conv /\ d.obs = c.obs /\ d.tools = c.tools /\ d.runs = c.runs
       /\ d.messages = c.messages /\ d.tracked = tracked /\ d.first = first
       /\ d.replies = c.replies /\ d.run = None
  BY <1>3, <1>10, <1>11, <1>12 DEF Conv
<1>14. \A b \in c.tracked : c.first[b] # None /\ c.first[b].anchored
  BY <1>3 DEF Sound, Books
<1>15. ASSUME NEW b \in tracked PROVE first[b] # None /\ first[b].anchored
  <2>1. CASE b # a \/ Anchored(a)
    <3>1. first[b] = c.first[b]
      BY <2>1, <1>6, <1>9, <1>12
    <3>2. b \in c.tracked \/ Anchored(a)
      BY <2>1, <1>3, <1>5
    <3>3. CASE b = a
      BY <3>1, <3>3, <2>1, <1>9
    <3>4. QED
      BY <3>1, <3>3, <2>1, <1>3, <1>5, <1>14
  <2>2. CASE b = a /\ ~ Anchored(a)
    <3>1. a \notin c.tracked
      BY <2>2, <1>9, <1>14
    <3>2. held = "waiting"
      BY <3>1, <2>2, <1>3, <1>5
    <3>3. first[a] = sub
      BY <2>2, <1>6, <1>9
    <3>4. QED
      BY <2>2, <3>2, <3>3, <1>8
  <2>3. QED
    BY <2>1, <2>2
<1>16. Sound(d)
  <2>1. \A k \in DOMAIN d.replies : d.replies[k] <= d.messages
    BY <1>3, <1>13 DEF Sound, Books
  <2>2. c.messages <= d.messages
    BY <1>3, <1>13
  <2>3. QED
    BY <1>3, <1>13, <1>15, <2>1, <2>2, SoundWithoutReads
<1>17. Held(d, [core EXCEPT ![a] = held])
  <2>1. ASSUME NEW b \in Action, first[b] # None, first[b].anchored
        PROVE  [core EXCEPT ![a] = held][b] # "none"
    <3>1. CASE b # a
      <4>1. first[b] = c.first[b]
        BY <3>1, <1>6, <1>9
      <4>2. core[b] # "none"
        BY <4>1, <2>1, <1>1 DEF Held
      <4>3. QED
        BY <4>2, <3>1
    <3>2. CASE b = a
      <4>1. [core EXCEPT ![a] = held][b] = held
        BY <3>2
      <4>2. CASE Anchored(a)
        BY <4>1, <4>2, <1>1, <1>9 DEF Held
      <4>3. CASE ~ Anchored(a)
        <5>1. first[a] = sub
          BY <4>3, <1>6, <1>9
        <5>2. sub.anchored
          BY <5>1, <3>2, <2>1
        <5>3. QED
          BY <4>1, <5>2, <1>8
      <4>4. QED
        BY <4>2, <4>3
    <3>3. QED
      BY <3>1, <3>2
  <2>2. QED
    BY <2>1, <1>13 DEF Held
<1>18. d = ActionKept(Stepped, a, held)
  BY <1>2, <1>4, <1>5, <1>11 DEF ActionKept
<1>19. QED
  BY <1>1, <1>13, <1>16, <1>17, <1>18

LEMMA SubmitKeeps ==
    ASSUME ControlInv, at = "decide", NEW a \in Action, Submit(a)
    PROVE  ControlInv'
<1>1. /\ Sound(conv) /\ conv.run # None /\ Held(conv, core)
      /\ core \in [Action -> {"none", "waiting", "done", "closed"}]
  BY DEF ControlInv, TurnInv, TypeOK
<1>2. PICK held \in IF core[a] = "none" THEN {"waiting", "done", "none"} ELSE {core[a]} :
        core' = [core EXCEPT ![a] = held] /\ EndTurn(Reply(ActionKept(Stepped, a, held)))
  <2>1. Stepped.first = conv.first
    BY <1>1, SteppedIs
  <2>2. ASSUME NEW held
        PROVE  [Stepped EXCEPT
                  !.run = None,
                  !.tracked = IF held = "waiting" THEN @ \cup {a} ELSE @,
                  !.first = IF Anchored(a) THEN @
                            ELSE [@ EXCEPT ![a] = [run |-> conv.run.index,
                                                   anchored |-> held # "none"]]]
               = ActionKept(Stepped, a, held)
    BY Zenon DEF ActionKept, Bound
  <2>3. QED
    BY <2>2 DEF Submit, StartAction
<1>3. Anchored(a) => core[a] # "none"
  BY <1>1 DEF Anchored, Held
<1>4. /\ held \in {"none", "waiting", "done", "closed"} /\ (Anchored(a) => held = core[a])
  BY <1>1, <1>2, <1>3
<1>5. PICK e : e = ActionKept(Stepped, a, held)
  OBVIOUS
<1>6. Sound(e) /\ e.obs = conv.obs /\ Held(e, core')
  BY <1>1, <1>2, <1>4, <1>5, KeptSound
<1>7. PICK d : d = Reply(e)
  OBVIOUS
<1>8. Sound(d) /\ d.obs = conv.obs /\ d.first = e.first /\ EndTurn(d)
  BY <1>2, <1>5, <1>6, <1>7, ReplySound
<1>9. Held(d, core')
  BY <1>6, <1>8 DEF Held
<1>10. PICK s : s = [action |-> a, run |-> conv.run.index, upto |-> Len(conv.obs),
                     held |-> core[a] # "none"]
  OBVIOUS
<1>11. sent' = sent \cup {s} /\ UNCHANGED <<answer, broke>>
  BY <1>10 DEF Submit
<1>12. conv.run.index \in 1 .. MaxMessages /\ Len(conv.obs) \in Nat
  BY <1>1, RunIsTyped, ConvTyped DEF Sound
<1>13. sent' \subseteq [action : Action, run : 1 .. MaxMessages, upto : Nat, held : BOOLEAN]
  <2>1. s \in [action : Action, run : 1 .. MaxMessages, upto : Nat, held : BOOLEAN]
    BY <1>10, <1>12
  <2>2. sent \subseteq [action : Action, run : 1 .. MaxMessages, upto : Nat, held : BOOLEAN]
    BY DEF ControlInv, TypeOK
  <2>3. QED
    BY <2>1, <2>2, <1>11
<1>14. s.held \/ Borne(s, conv.obs)
  <2>1. CASE Anchored(a)
    BY <2>1, <1>3, <1>10
  <2>2. CASE Grounded(a)
    BY <2>2, <1>1, <1>10, GroundedIsBorne
  <2>3. QED
    BY <2>1, <2>2 DEF Submit
<1>15. \A x \in sent' : x.upto <= Len(d.obs) /\ (x.held \/ Borne(x, d.obs))
  <2>1. s.upto <= Len(d.obs) /\ (s.held \/ Borne(s, d.obs))
    BY <1>8, <1>10, <1>12, <1>14
  <2>2. QED
    BY <2>1, <1>8, <1>11, SentStays
<1>16. core' \in [Action -> {"none", "waiting", "done", "closed"}]
  BY <1>1, <1>2, <1>4
<1>17. /\ answer' \in [said : SUBSET Action, waited : SUBSET Action] \cup {None}
       /\ answer' # None => answer'.said = answer'.waited
       /\ broke' = broke
  BY <1>11 DEF ControlInv, TypeOK
<1>18. QED
  BY <1>8, <1>9, <1>13, <1>15, <1>16, <1>17, TurnEnds

-----------------------------------------------------------------------------
(* Reads *)

\* What is left of an accepted batch may still be made.
LEMMA AllowedNext ==
    ASSUME NEW c \in Conv, NEW o \in Observations, NEW d, d.obs = Append(c.obs, o),
           c.run.index = o.run, d.run.index = o.run,
           NEW q \in Seq(Call), q # <<>>, q[1] = o.call, Allowed(c, q)
    PROVE  Allowed(d, Tail(q))
<1>1. Len(q) \in Nat \ {0} /\ Len(Tail(q)) = Len(q) - 1
  OBVIOUS
<1>2. ASSUME NEW i \in 1 .. Len(q) - 1
      PROVE  Tried(d, o.run, Tail(q)[i]) + Cardinality(Ahead(Tail(q), i)) < RetryCap
  <2>1. /\ Tail(q)[i] = q[i + 1]
        /\ Cardinality(Ahead(q, i + 1)) =
             Cardinality(Ahead(Tail(q), i)) + (IF q[1] = q[i + 1] THEN 1 ELSE 0)
    BY TailCount
  <2>2. Tried(d, o.run, q[i + 1]) =
          IF o.call = q[i + 1] THEN Tried(c, o.run, q[i + 1]) + 1 ELSE Tried(c, o.run, q[i + 1])
    BY ReadCounts
  <2>3. Tried(c, o.run, q[i + 1]) + Cardinality(Ahead(q, i + 1)) < RetryCap
    <3>1. i + 1 \in 1 .. Len(q)
      BY <1>1
    <3>2. QED
      BY <3>1 DEF Allowed
  <2>4. Tried(c, o.run, q[i + 1]) \in Nat
    BY CallingIsFinite
  <2>5. Cardinality(Ahead(Tail(q), i)) \in Nat
    BY <1>1, AheadIsFinite
  <2>6. CASE q[1] = q[i + 1]
    BY <2>1, <2>2, <2>3, <2>4, <2>5, <2>6
  <2>7. CASE q[1] # q[i + 1]
    BY <2>1, <2>2, <2>3, <2>4, <2>5, <2>7
  <2>8. QED
    BY <2>6, <2>7
<1>3. QED
  BY <1>1, <1>2 DEF Allowed

LEMMA ResultsAreFound ==
    ASSUME ControlInv, NEW c \in Call, NEW result \in Results(c)
    PROVE  result \in Found /\ (c = ReadPending => result.waits = Waiting)
<1>1. Waiting \in SUBSET Action
  BY WaitingIsTyped
<1>2. CASE \E o \in Order : c = Reading(o)
  BY <1>2 DEF Results, Reading, ReadPending, Found
<1>3. CASE c = ReadKnowledge
  BY <1>3 DEF Results, ReadKnowledge, ReadPending, Found
<1>4. CASE c = ReadPending
  BY <1>1, <1>4 DEF Results, ReadPending, Found
<1>5. QED
  BY <1>2, <1>3, <1>4 DEF Call

\* A read appends one observation of the open run to the conversation.
LEMMA ReadIs ==
    ASSUME ControlInv, at = "decide", NEW call \in Call, Read(call),
           conv.run.used + 1 < MaxSteps, Tried(conv, conv.run.index, call) < RetryCap
    PROVE  \E o \in Observations :
             /\ o.run = conv.run.index /\ o.step = conv.run.used + 1 /\ o.turn = conv.messages
             /\ o.call = call /\ (call = ReadPending => o.result.waits = Waiting)
             /\ Sound(conv') /\ conv'.obs = Append(conv.obs, o) /\ conv'.first = conv.first
             /\ conv'.tracked = conv.tracked /\ conv'.messages = conv.messages
             /\ conv'.run # None /\ conv'.run.index = conv.run.index
             /\ conv'.run.start = conv.run.start /\ conv'.run.used = conv.run.used + 1
<1>1. /\ Sound(conv) /\ conv.run # None /\ Sound(saved) /\ conv.messages = saved.messages + 1
  BY DEF ControlInv, TurnInv
<1>2. PICK result \in Results(call) :
        conv' = [Stepped EXCEPT !.tools = ToolStep, !.obs = Append(@, Observation(call, result))]
  BY DEF Read
<1>3. PICK o : o = Observation(call, result)
  OBVIOUS
<1>4. /\ conv.run \in Runs /\ conv.run.index \in 1 .. MaxMessages
      /\ conv.run.used \in 0 .. MaxSteps /\ conv.run.start \in Nat
  BY <1>1, RunIsTyped DEF Sound
<1>5. /\ conv \in Conv /\ conv.tools \in Nat /\ conv.messages \in 0 .. MaxMessages
      /\ conv.messages \in Nat /\ saved.messages \in Nat
  BY <1>1, ConvTyped DEF Sound
<1>6. /\ conv.run.used + 1 \in 1 .. MaxSteps /\ conv.messages \in 1 .. MaxMessages
      /\ conv.tools + 1 \in Nat
  BY <1>1, <1>4, <1>5, ControlAssumption
<1>7. /\ o.run = conv.run.index /\ o.step = conv.run.used + 1 /\ o.turn = conv.messages
      /\ o.call = call /\ o.id = <<conv.messages, conv.tools + 1>> /\ o.result = result
  BY <1>3 DEF Observation, NextStep, ToolStep
<1>8. result \in Found /\ (call = ReadPending => result.waits = Waiting)
  BY ResultsAreFound
<1>9. o \in Observations
  BY <1>3, <1>4, <1>5, <1>6, <1>8 DEF Observations, Observation, NextStep, ToolStep
<1>10. PICK c : c = conv
  OBVIOUS
<1>11. PICK d : d = WithRead(c, o)
  OBVIOUS
<1>12. conv' = d
  <2>1. Stepped.obs = conv.obs
    BY <1>1, SteppedIs
  <2>2. conv' = [Stepped EXCEPT !.tools = conv.tools + 1, !.obs = Append(conv.obs, o)]
    BY <1>2, <1>3, <2>1 DEF ToolStep
  <2>3. Stepped = [c EXCEPT !.run.used = c.run.used + 1]
    BY <1>10 DEF Stepped, NextStep
  <2>4. QED
    BY <1>10, <1>11, <2>2, <2>3 DEF WithRead
<1>13. /\ Sound(c) /\ c.run # None /\ c.run.used + 1 < MaxSteps /\ o.run = c.run.index
       /\ o.turn = c.messages /\ o.id = <<c.messages, c.tools + 1>>
       /\ Tried(c, c.run.index, o.call) < RetryCap
  BY <1>1, <1>7, <1>10
<1>14. /\ Sound(d) /\ d.obs = Append(c.obs, o) /\ d.first = c.first /\ d.tracked = c.tracked
       /\ d.messages = c.messages /\ d.run = [c.run EXCEPT !.used = c.run.used + 1]
  BY <1>9, <1>11, <1>13, ReadSound
<1>15. d.run # None /\ d.run.index = c.run.index /\ d.run.start = c.run.start
       /\ d.run.used = c.run.used + 1
  <2>1. PICK run : run = [c.run EXCEPT !.used = c.run.used + 1]
    OBVIOUS
  <2>2. run \in Runs /\ run.index = c.run.index /\ run.start = c.run.start
        /\ run.used = c.run.used + 1
    BY <2>1, <1>4, <1>6, <1>10, ControlAssumption DEF Runs
  <2>3. QED
    BY <2>1, <2>2, <1>14, ControlAssumption
<1>16. QED
  BY <1>7, <1>8, <1>9, <1>10, <1>12, <1>14, <1>15

\* The envelopes e hold the calls of q from the next step of c on, as one batch or as the
\* rest of one, which began behind the first m reads.
Carries(e, q, c, m) ==
    LET u == c.run.used
        n == Len(c.obs) + 1
    IN  /\ u + Len(q) < MaxSteps
        /\ DOMAIN e \subseteq 1 .. MaxSteps
        /\ e \in [DOMAIN e -> [call : Call, batch : 1 .. MaxSteps, index : Nat]]
        /\ \A s \in DOMAIN e : s <= u + Len(q)
        /\ \A i \in 1 .. Len(q) :
             /\ u + i \in DOMAIN e /\ e[u + i].call = q[i]
             /\ e[u + i].index = e[u + 1].index + (i - 1)
             /\ e[u + i].batch = e[u + 1].batch
        /\ n - e[u + 1].index > m
        /\ e[u + 1].batch =
             IF e[u + 1].index = 0 THEN u + 1 ELSE c.obs[n - e[u + 1].index].step

\* Nothing that was remembered is lost.
Keeps(e, f) == \A s \in DOMAIN e : s \in DOMAIN f /\ f[s] = e[s]

\* Issued and Owed, of any conversation, envelopes and queue.
IssuedIn(obs, e, m, n) ==
    LET step == obs[n].step IN
    /\ step \in DOMAIN e /\ e[step].call = obs[n].call
    /\ n - e[step].index > m
    /\ e[step].batch = obs[n - e[step].index].step

OwedIn(c, e, q, m) ==
    LET used == c.run.used IN
    /\ Len(c.obs) > m /\ c.obs[Len(c.obs)].step = used
    /\ used + Len(q) < MaxSteps
    /\ \A i \in 1 .. Len(q) :
        /\ used + i \in DOMAIN e /\ e[used + i].call = q[i]
        /\ e[used + i].index = e[used].index + i
        /\ e[used + i].batch = e[used].batch

\* The old reads stay issued, the new one is issued, and the rest is still owed.
LEMMA ReadIssues ==
    ASSUME NEW c \in Conv, NEW d, NEW m \in Nat, m <= Len(c.obs), c.run.used \in Nat,
           NEW o \in Observations, d.obs = Append(c.obs, o),
           o.step = c.run.used + 1, d.run.used = c.run.used + 1,
           NEW q \in Seq(Call), q # <<>>, o.call = q[1],
           NEW e, NEW f, Carries(f, q, c, m), Keeps(e, f),
           e \in [DOMAIN e -> [call : Call, batch : 1 .. MaxSteps, index : Nat]],
           \A n \in DOMAIN c.obs : n > m => IssuedIn(c.obs, e, m, n)
    PROVE  /\ \A n \in DOMAIN d.obs : n > m => IssuedIn(d.obs, f, m, n)
           /\ OwedIn(d, f, Tail(q), m)
           /\ \A s \in DOMAIN f : s <= d.run.used + Len(Tail(q))
<1> DEFINE u == c.run.used
           l == Len(c.obs) + 1
<1>1. /\ c.obs \in Seq(Observations) /\ Len(c.obs) \in Nat /\ DOMAIN c.obs = 1 .. Len(c.obs)
      /\ \A k \in DOMAIN c.obs : c.obs[k] \in Observations
  BY ConvTyped
<1>2. /\ DOMAIN d.obs = 1 .. l /\ Len(d.obs) = l /\ d.obs[l] = o
      /\ \A k \in DOMAIN c.obs : d.obs[k] = c.obs[k]
  BY <1>1
<1>3. /\ Len(q) \in Nat \ {0} /\ Len(Tail(q)) = Len(q) - 1
      /\ \A i \in 1 .. Len(q) - 1 : Tail(q)[i] = q[i + 1]
  OBVIOUS
<1>4. /\ u + Len(q) < MaxSteps
      /\ f \in [DOMAIN f -> [call : Call, batch : 1 .. MaxSteps, index : Nat]]
      /\ \A s \in DOMAIN f : s <= u + Len(q)
      /\ \A i \in 1 .. Len(q) : /\ u + i \in DOMAIN f /\ f[u + i].call = q[i]
                                /\ f[u + i].index = f[u + 1].index + (i - 1)
                                /\ f[u + i].batch = f[u + 1].batch
      /\ l - f[u + 1].index > m
      /\ f[u + 1].batch = IF f[u + 1].index = 0 THEN u + 1 ELSE c.obs[l - f[u + 1].index].step
  BY DEF Carries
<1>5. u + 1 \in DOMAIN f /\ f[u + 1].call = q[1] /\ f[u + 1].index \in Nat
  <2>1. 1 \in 1 .. Len(q)
    BY <1>3
  <2>2. u + 1 \in DOMAIN f /\ f[u + 1].call = q[1]
    BY <1>4, <2>1, Zenon
  <2>3. f[u + 1] \in [call : Call, batch : 1 .. MaxSteps, index : Nat]
    BY <1>4, <2>2, Zenon
  <2>4. QED
    BY <2>2, <2>3
<1>6. ASSUME NEW n \in DOMAIN c.obs, n > m PROVE IssuedIn(d.obs, f, m, n)
  <2> DEFINE step == c.obs[n].step
  <2>1. IssuedIn(c.obs, e, m, n)
    BY <1>6
  <2>2. /\ step \in DOMAIN e /\ e[step].call = c.obs[n].call /\ n - e[step].index > m
        /\ e[step].batch = c.obs[n - e[step].index].step
    BY <2>1 DEF IssuedIn
  <2>3. step \in DOMAIN f /\ f[step] = e[step] /\ e[step].index \in Nat
    BY <2>2 DEF Keeps
  <2>4. n - e[step].index \in DOMAIN c.obs
    <3>1. PICK x \in Nat : x = e[step].index
      BY <2>3
    <3>2. n - x > m /\ n \in 1 .. Len(c.obs)
      BY <1>1, <2>2, <3>1
    <3>3. n - x \in 1 .. Len(c.obs)
      BY <1>1, <3>2
    <3>4. QED
      BY <1>1, <3>1, <3>3
  <2>5. d.obs[n] = c.obs[n] /\ d.obs[n - e[step].index] = c.obs[n - e[step].index]
    BY <1>2, <2>4
  <2>6. QED
    BY <2>2, <2>3, <2>5 DEF IssuedIn
<1>7. IssuedIn(d.obs, f, m, l)
  <2>1. d.obs[l].step = u + 1 /\ d.obs[l].call = q[1]
    BY <1>2
  <2>2. f[u + 1].batch = d.obs[l - f[u + 1].index].step
    <3>1. CASE f[u + 1].index = 0
      <4>1. l - f[u + 1].index = l
        BY <3>1, <1>1
      <4>2. QED
        BY <3>1, <4>1, <2>1, <1>4
    <3>2. CASE f[u + 1].index # 0
      <4>1. PICK x \in Nat \ {0} : x = f[u + 1].index
        BY <3>2, <1>5
      <4>2. l - x > m
        BY <4>1, <1>4
      <4>3. l - x \in 1 .. Len(c.obs)
        BY <4>2, <1>1
      <4>4. l - f[u + 1].index \in DOMAIN c.obs
        BY <4>1, <4>3, <1>1
      <4>5. QED
        BY <3>2, <4>4, <1>2, <1>4
    <3>3. QED
      BY <3>1, <3>2
  <2>3. QED
    BY <2>1, <2>2, <1>4, <1>5 DEF IssuedIn
<1>8. OwedIn(d, f, Tail(q), m)
  <2>1. Len(d.obs) > m /\ d.obs[Len(d.obs)].step = d.run.used
    BY <1>1, <1>2
  <2>2. d.run.used + Len(Tail(q)) = u + Len(q)
    BY <1>3
  <2>3. ASSUME NEW i \in 1 .. Len(Tail(q))
        PROVE  /\ d.run.used + i \in DOMAIN f /\ f[d.run.used + i].call = Tail(q)[i]
               /\ f[d.run.used + i].index = f[d.run.used].index + i
               /\ f[d.run.used + i].batch = f[d.run.used].batch
    <3>1. /\ i + 1 \in 1 .. Len(q) /\ d.run.used + i = u + (i + 1) /\ (i + 1) - 1 = i
          /\ Tail(q)[i] = q[i + 1]
      <4>1. i \in 1 .. Len(q) - 1
        BY <1>3
      <4>2. i + 1 \in 1 .. Len(q) /\ (i + 1) - 1 = i
        BY <4>1, <1>3
      <4>3. d.run.used + i = u + (i + 1)
        <5>1. \A x, y \in Nat : (x + 1) + y = x + (y + 1)
          OBVIOUS
        <5>2. i \in Nat /\ u \in Nat
          OBVIOUS
        <5>3. QED
          BY <5>1, <5>2, Zenon
      <4>4. QED
        BY <4>1, <4>2, <4>3, <1>3
    <3>2. /\ u + (i + 1) \in DOMAIN f /\ f[u + (i + 1)].call = q[i + 1]
          /\ f[u + (i + 1)].index = f[u + 1].index + ((i + 1) - 1)
          /\ f[u + (i + 1)].batch = f[u + 1].batch
      BY <3>1, <1>4
    <3>3. QED
      BY <3>1, <3>2
  <2>4. QED
    BY <2>1, <2>2, <2>3, <1>4 DEF OwedIn
<1>9. \A n \in DOMAIN d.obs : n > m => IssuedIn(d.obs, f, m, n)
  BY <1>1, <1>2, <1>6, <1>7
<1>10. ASSUME NEW s \in DOMAIN f PROVE s <= d.run.used + Len(Tail(q))
  <2>1. s <= u + Len(q)
    BY <1>4
  <2>2. d.run.used + Len(Tail(q)) = u + Len(q)
    BY <1>3
  <2>3. QED
    BY <2>1, <2>2
<1>11. QED
  BY <1>8, <1>9, <1>10

\* A read with a step behind it, whose envelope and whose rest of the batch are in order.
LEMMA ReadKeeps ==
    ASSUME ControlInv, at = "decide", NEW q \in Seq(Call), q # <<>>, Read(q[1]),
           Allowed(conv, q), queue' = Tail(q), Keeps(native, native'),
           Carries(native', q, conv, Len(saved.obs))
    PROVE  ControlInv'
<1>1. /\ Sound(conv) /\ Sound(saved) /\ conv.run # None /\ conv.messages = saved.messages + 1
      /\ conv.run.start <= Len(saved.obs) /\ Len(saved.obs) <= Len(conv.obs)
      /\ \A k \in DOMAIN saved.obs : conv.obs[k] = saved.obs[k]
      /\ \A k \in DOMAIN conv.obs : k > Len(saved.obs) => conv.obs[k].turn = conv.messages
  BY DEF ControlInv, TurnInv
<1>2. PICK c : c = conv
  OBVIOUS
<1>3. PICK b : b = saved.obs
  OBVIOUS
<1>4. /\ c \in Conv /\ c.run.used \in 0 .. MaxSteps /\ c.run.used \in Nat
      /\ Len(c.obs) \in Nat /\ DOMAIN c.obs = 1 .. Len(c.obs)
      /\ Len(b) \in Nat /\ DOMAIN b = 1 .. Len(b)
  <2>1. c \in Conv /\ c.run.used \in 0 .. MaxSteps
    BY <1>1, <1>2, RunIsTyped DEF Sound
  <2>2. c.run.used \in Nat
    BY <2>1, ControlAssumption
  <2>3. Len(b) \in Nat /\ DOMAIN b = 1 .. Len(b)
    BY <1>1, <1>3, ConvTyped DEF Sound
  <2>4. QED
    BY <2>1, <2>2, <2>3, ConvTyped
<1>5. Len(q) \in Nat \ {0} /\ q[1] \in Call /\ Tail(q) \in Seq(Call)
  OBVIOUS
<1>6. conv.run.used + 1 < MaxSteps
  <2>1. c.run.used + Len(q) < MaxSteps
    BY <1>2 DEF Carries
  <2>2. QED
    BY <2>1, <1>2, <1>4, <1>5, ControlAssumption
<1>7. Tried(conv, conv.run.index, q[1]) < RetryCap
  <2>1. Tried(c, c.run.index, q[1]) + Cardinality(Ahead(q, 1)) < RetryCap
    BY <1>2, <1>5 DEF Allowed
  <2>2. Cardinality(Ahead(q, 1)) = 0
    <3>1. Ahead(q, 1) = {}
      BY DEF Ahead
    <3>2. QED
      BY <3>1, FS_EmptySet
  <2>3. Tried(c, c.run.index, q[1]) \in Nat
    BY <1>4, CallingIsFinite
  <2>4. QED
    BY <2>1, <2>2, <2>3, <1>2
<1>8. PICK call \in Call : call = q[1]
  BY <1>5
<1>9. PICK o \in Observations :
         /\ o.run = conv.run.index /\ o.step = conv.run.used + 1 /\ o.turn = conv.messages
         /\ o.call = call /\ (call = ReadPending => o.result.waits = Waiting)
         /\ Sound(conv') /\ conv'.obs = Append(conv.obs, o) /\ conv'.first = conv.first
         /\ conv'.tracked = conv.tracked /\ conv'.messages = conv.messages
         /\ conv'.run # None /\ conv'.run.index = conv.run.index
         /\ conv'.run.start = conv.run.start /\ conv'.run.used = conv.run.used + 1
  <2>1. Read(call) /\ Tried(conv, conv.run.index, call) < RetryCap
    BY <1>7, <1>8
  <2>2. QED
    BY <2>1, <1>6, ReadIs
<1>10. /\ at' = "decide" /\ UNCHANGED <<core, saved, sent, answer, broke>>
  BY DEF Read, history
<1>11. PICK d : d = conv'
  OBVIOUS
<1>12. PICK e : e = native
  OBVIOUS
<1>13. PICK f : f = native'
  OBVIOUS
<1>14. PICK n : n = Len(c.obs) + 1
  OBVIOUS
<1>15. /\ DOMAIN d.obs = 1 .. n /\ Len(d.obs) = n /\ d.obs[n] = o /\ n \in Nat
       /\ \A k \in DOMAIN c.obs : d.obs[k] = c.obs[k]
  <2>1. d.obs = Append(c.obs, o) /\ c.obs \in Seq(Observations)
    BY <1>2, <1>4, <1>9, <1>11, ConvTyped
  <2>2. QED
    BY <2>1, <1>14
<1>16. TypeOK'
  <2>1. conv' \in Conv
    BY <1>9 DEF Sound
  <2>2. queue' \in Seq(Call)
    BY <1>5
  <2>3. /\ DOMAIN native' \subseteq 1 .. MaxSteps
        /\ native' \in [DOMAIN native' -> [call : Call, batch : 1 .. MaxSteps, index : Nat]]
    BY DEF Carries
  <2>4. QED
    BY <2>1, <2>2, <2>3, <1>10 DEF ControlInv, TypeOK
<1>17. TurnInv'
  <2>1. \A k \in DOMAIN b : d.obs[k] = b[k]
    BY <1>1, <1>2, <1>3, <1>4, <1>15
  <2>2. \A k \in DOMAIN d.obs : k > Len(b) => d.obs[k].turn = d.messages
    <3>1. o.turn = d.messages /\ d.messages = c.messages
      BY <1>2, <1>9, <1>11
    <3>2. \A k \in DOMAIN c.obs : k > Len(b) => c.obs[k].turn = c.messages
      BY <1>1, <1>2, <1>3
    <3>3. \A k \in 1 .. n : k \in DOMAIN c.obs \/ k = n
      BY <1>4, <1>14
    <3>4. QED
      BY <3>1, <3>2, <3>3, <1>15
  <2>3. Len(b) <= Len(d.obs)
    BY <1>1, <1>2, <1>3, <1>4, <1>14, <1>15
  <2>4. QED
    BY <2>1, <2>2, <2>3, <1>1, <1>3, <1>9, <1>10, <1>11 DEF TurnInv
<1>18. NativeInv'
  <2>1. ASSUME NEW k \in DOMAIN c.obs, k > Len(b) PROVE IssuedIn(c.obs, e, Len(b), k)
    <3>1. Issued(k)
      BY <2>1, <1>2, <1>3 DEF ControlInv, NativeInv
    <3>2. QED
      BY <3>1, <1>2, <1>3, <1>12 DEF Issued, IssuedIn
  <2>2. /\ Carries(f, q, c, Len(b)) /\ Keeps(e, f)
        /\ e \in [DOMAIN e -> [call : Call, batch : 1 .. MaxSteps, index : Nat]]
    BY <1>2, <1>3, <1>12, <1>13 DEF ControlInv, TypeOK
  <2>3. /\ Len(b) <= Len(c.obs) /\ d.obs = Append(c.obs, o) /\ o.step = c.run.used + 1
        /\ d.run.used = c.run.used + 1 /\ o.call = q[1]
    BY <1>1, <1>2, <1>3, <1>8, <1>9, <1>11
  <2>4. /\ \A k \in DOMAIN d.obs : k > Len(b) => IssuedIn(d.obs, f, Len(b), k)
        /\ OwedIn(d, f, Tail(q), Len(b))
        /\ \A s \in DOMAIN f : s <= d.run.used + Len(Tail(q))
    BY <2>1, <2>2, <2>3, <1>4, ReadIssues
  <2>5. \A s \in DOMAIN native' : s <= conv'.run.used + Len(queue')
    BY <2>4, <1>11, <1>13
  <2>6. ASSUME NEW k \in DOMAIN conv'.obs, k > Len(saved'.obs) PROVE Issued(k)'
    <3>1. IssuedIn(d.obs, f, Len(b), k)
      BY <2>4, <2>6, <1>3, <1>10, <1>11
    <3>2. QED
      BY <3>1, <1>3, <1>10, <1>11, <1>13 DEF Issued, IssuedIn
  <2>7. Owed'
    BY <2>4, <1>3, <1>10, <1>11, <1>13 DEF Owed, OwedIn
  <2>8. QED
    BY <2>5, <2>6, <2>7 DEF NativeInv
<1>19. PendingInv'
  <2> DEFINE before == {k \in DOMAIN c.obs : k > Len(b) /\ c.obs[k].call = ReadPending}
             after == {k \in DOMAIN d.obs : k > Len(b) /\ d.obs[k].call = ReadPending}
  <2>1. after = IF call = ReadPending THEN before \cup {n} ELSE before
    <3>1. n > Len(b) /\ DOMAIN d.obs = DOMAIN c.obs \cup {n}
      BY <1>1, <1>2, <1>3, <1>4, <1>14, <1>15
    <3>2. n \notin DOMAIN c.obs
      BY <1>4, <1>14
    <3>3. QED
      BY <3>1, <3>2, <1>9, <1>15
  <2>2. Waiting' = Waiting
    BY <1>9, <1>10 DEF Waiting
  <2>3. /\ \A k \in before : c.obs[k].result.waits = Waiting
        /\ before # {} => \E k \in before : \A j \in before : j <= k
    BY <1>2, <1>3 DEF ControlInv, PendingInv
  <2>4. \A k \in after : d.obs[k].result.waits = Waiting
    <3>1. \A k \in before : d.obs[k].result.waits = Waiting
      BY <2>3, <1>15
    <3>2. call = ReadPending => d.obs[n].result.waits = Waiting
      BY <1>9, <1>15
    <3> HIDE DEF before, after
    <3>3. QED
      BY <2>1, <3>1, <3>2
  <2>5. after # {} => \E k \in after : \A j \in after : j <= k
    <3>1. CASE call = ReadPending
      <4>1. n \in after
        BY <2>1, <3>1
      <4>2. \A j \in after : j <= n
        BY <1>15
      <4>3. QED
        BY <4>1, <4>2
    <3>2. CASE call # ReadPending
      BY <3>2, <2>1, <2>3
    <3>3. QED
      BY <3>1, <3>2
  <2>6. QED
    BY <2>2, <2>4, <2>5, <1>3, <1>10, <1>11 DEF PendingInv
<1>20. Allowed(conv', queue')
  <2>1. /\ d.obs = Append(c.obs, o) /\ c.run.index = o.run /\ d.run.index = o.run
        /\ Allowed(c, q) /\ q[1] = o.call
    BY <1>2, <1>8, <1>9, <1>11
  <2>2. Allowed(d, Tail(q))
    BY <2>1, <1>4, AllowedNext
  <2>3. QED
    BY <2>2, <1>11
<1>21. Held(conv', core') /\ Held(saved', core') /\ Sound(saved')
  BY <1>9, <1>10 DEF ControlInv, Held
<1>22. SentInv'
  BY <1>10 DEF ControlInv, SentInv
<1>23. QED
  BY <1>9, <1>10, <1>16, <1>17, <1>18, <1>19, <1>20, <1>21, <1>22 DEF ControlInv

LEMMA DrainKeeps == ASSUME ControlInv, Drain PROVE ControlInv'
<1>1. PICK q \in Seq(Call) : q = queue
  BY DEF ControlInv, TypeOK
<1>2. at = "decide" /\ q # <<>> /\ queue' = Tail(q) /\ native' = native /\ Read(q[1])
  <2>1. Head(q) = q[1]
    OBVIOUS
  <2>2. QED
    BY <2>1, <1>1 DEF Drain
<1>3. /\ Sound(conv) /\ Sound(saved) /\ conv.run # None /\ Allowed(conv, q) /\ Owed
      /\ \A s \in DOMAIN native : s <= conv.run.used + Len(q)
      /\ \A n \in DOMAIN conv.obs : n > Len(saved.obs) => Issued(n)
  BY <1>1, <1>2 DEF ControlInv, TurnInv, NativeInv
<1>4. PICK c : c = conv
  OBVIOUS
<1>5. PICK e : e = native
  OBVIOUS
<1>6. PICK m : m = Len(saved.obs)
  OBVIOUS
<1>7. /\ c.run.used \in Nat /\ Len(c.obs) \in Nat /\ DOMAIN c.obs = 1 .. Len(c.obs) /\ m \in Nat
      /\ Len(q) \in Nat \ {0}
  <2>1. conv.run.used \in 0 .. MaxSteps
    BY <1>3, RunIsTyped DEF Sound
  <2>2. c.run.used \in Nat
    BY <2>1, <1>4, ControlAssumption
  <2>3. Len(q) \in Nat \ {0}
    BY <1>2
  <2>4. QED
    BY <2>2, <2>3, <1>3, <1>4, <1>6, ConvTyped DEF Sound
<1> DEFINE u == c.run.used
           l == Len(c.obs)
<1>8. /\ l > m /\ c.obs[l].step = u /\ u + Len(q) < MaxSteps
      /\ \A i \in 1 .. Len(q) : /\ u + i \in DOMAIN e /\ e[u + i].call = q[i]
                                /\ e[u + i].index = e[u].index + i
                                /\ e[u + i].batch = e[u].batch
  BY <1>1, <1>3, <1>4, <1>5, <1>6 DEF Owed
<1>9. l \in DOMAIN c.obs
  BY <1>7, <1>8
<1>10. u \in DOMAIN e /\ l - e[u].index > m /\ e[u].batch = c.obs[l - e[u].index].step
  <2>1. Issued(l)
    BY <1>3, <1>4, <1>6, <1>8, <1>9
  <2>2. QED
    BY <2>1, <1>4, <1>5, <1>6, <1>8 DEF Issued
<1>11. /\ DOMAIN e \subseteq 1 .. MaxSteps
       /\ e \in [DOMAIN e -> [call : Call, batch : 1 .. MaxSteps, index : Nat]]
  BY <1>5 DEF ControlInv, TypeOK
<1>12. e[u].index \in Nat
  BY <1>10, <1>11
<1>13. e[u + 1].index = e[u].index + 1 /\ e[u + 1].batch = e[u].batch
  BY <1>7, <1>8
<1>14. Carries(e, q, c, m)
  <2>1. ASSUME NEW i \in 1 .. Len(q)
        PROVE  /\ u + i \in DOMAIN e /\ e[u + i].call = q[i]
               /\ e[u + i].index = e[u + 1].index + (i - 1)
               /\ e[u + i].batch = e[u + 1].batch
    <3>1. \A x \in Nat : x + i = (x + 1) + (i - 1)
      OBVIOUS
    <3>2. e[u].index + i = (e[u].index + 1) + (i - 1)
      BY <3>1, <1>12, Zenon
    <3>3. QED
      BY <3>2, <1>8, <1>13
  <2>2. PICK x \in Nat : x = e[u].index
    BY <1>12
  <2>3. (l + 1) - (x + 1) = l - x /\ x + 1 # 0
    BY <1>7
  <2>4. e[u + 1].index = x + 1
    BY <2>2, <1>13
  <2>5. (l + 1) - e[u + 1].index > m
    BY <2>2, <2>3, <2>4, <1>10
  <2>6. e[u + 1].batch = c.obs[(l + 1) - e[u + 1].index].step /\ e[u + 1].index # 0
    BY <2>2, <2>3, <2>4, <1>10, <1>13
  <2>7. \A s \in DOMAIN e : s <= u + Len(q)
    BY <1>3, <1>4, <1>5
  <2>8. QED
    BY <2>1, <2>5, <2>6, <2>7, <1>8, <1>11 DEF Carries
<1>15. Carries(native', q, conv, Len(saved.obs)) /\ Keeps(native, native')
  BY <1>2, <1>4, <1>5, <1>6, <1>14 DEF Keeps
<1>16. QED
  BY <1>2, <1>3, <1>15, ReadKeeps

\* The first call of an accepted batch, with the envelopes of all of them.
LEMMA BatchKeeps ==
    ASSUME ControlInv, Asks, NEW r \in Seq(Calls), Accepted(r), r[1].fn = "read",
           Read(r[1].says), Remember(r), queue' = Tail([k \in DOMAIN r |-> r[k].says])
    PROVE  ControlInv'
<1>1. /\ at = "decide" /\ queue = <<>> /\ Sound(conv) /\ Sound(saved) /\ conv.run # None
      /\ Len(saved.obs) <= Len(conv.obs)
      /\ \A s \in DOMAIN native : s <= conv.run.used + Len(queue)
  BY DEF ControlInv, TurnInv, NativeInv, Asks
<1>2. PICK c : c = conv
  OBVIOUS
<1>3. PICK e : e = native
  OBVIOUS
<1>4. PICK m : m = Len(saved.obs)
  OBVIOUS
<1>5. /\ c.run.used \in 0 .. MaxSteps /\ c.run.used \in Nat /\ Len(c.obs) \in Nat /\ m \in Nat
      /\ m <= Len(c.obs)
  <2>1. c.run.used \in 0 .. MaxSteps
    BY <1>1, <1>2, RunIsTyped DEF Sound
  <2>2. c.run.used \in Nat
    BY <2>1, ControlAssumption
  <2>3. QED
    BY <2>1, <2>2, <1>1, <1>2, <1>4, ConvTyped DEF Sound
<1>6. /\ r # <<>> /\ Reads(r) /\ Len(r) <= Remaining - 1
      /\ \A k \in DOMAIN r : WithinCap(r, k)
  BY DEF Accepted
<1>7. Len(r) \in Nat \ {0} /\ DOMAIN r = 1 .. Len(r)
  BY <1>6
<1>8. \A k \in 1 .. Len(r) : r[k].says \in Call
  <2>1. ASSUME NEW k \in 1 .. Len(r) PROVE r[k].says \in Call
    <3>1. r[k] \in Calls /\ r[k].fn = "read"
      BY <1>6, <1>7 DEF Reads
    <3>2. QED
      BY <3>1 DEF Calls
  <2>2. QED
    BY <2>1
<1>9. PICK q : q = [k \in DOMAIN r |-> r[k].says]
  OBVIOUS
<1>10. /\ q \in Seq(Call) /\ Len(q) = Len(r) /\ q # <<>>
       /\ \A k \in 1 .. Len(r) : q[k] = r[k].says
  <2>1. q = [k \in 1 .. Len(r) |-> r[k].says]
    BY <1>7, <1>9
  <2>2. q \in Seq(Call) /\ Len(q) = Len(r)
    BY <2>1, <1>7, <1>8
  <2>3. QED
    BY <2>1, <2>2, <1>7
<1>11. Read(q[1]) /\ queue' = Tail(q)
  BY <1>7, <1>9, <1>10
<1>12. Allowed(conv, q)
  <2>1. ASSUME NEW i \in 1 .. Len(q)
        PROVE  Tried(conv, conv.run.index, q[i]) + Cardinality(Ahead(q, i)) < RetryCap
    <3>1. Attempts(r[i].says) + Cardinality({j \in 1 .. i - 1 : r[j].says = r[i].says}) < RetryCap
      BY <1>6, <1>7, <1>10 DEF WithinCap
    <3>2. {j \in 1 .. i - 1 : r[j].says = r[i].says} = Ahead(q, i)
      <4>1. \A j \in 1 .. i - 1 : j \in 1 .. Len(r)
        BY <1>7, <1>10
      <4>2. QED
        BY <4>1, <1>10 DEF Ahead
    <3>3. Attempts(r[i].says) = Tried(conv, conv.run.index, r[i].says)
      BY <1>1, AttemptsAreTried
    <3>4. QED
      BY <3>1, <3>2, <3>3, <1>10
  <2>2. QED
    BY <2>1 DEF Allowed
<1>13. PICK u \in Nat : u = c.run.used
  BY <1>5
<1>14. u + Len(q) < MaxSteps
  <2>1. Remaining = MaxSteps - (u + 1) + 1
    BY <1>2, <1>13 DEF Remaining, NextStep
  <2>2. PICK l \in Nat : l = Len(r) /\ l = Len(q)
    BY <1>7, <1>10
  <2>3. l <= MaxSteps - (u + 1) + 1 - 1 /\ MaxSteps \in Nat
    BY <2>1, <2>2, <1>6, ControlAssumption
  <2>4. u + l < MaxSteps
    BY <2>3
  <2>5. QED
    BY <2>2, <2>4
<1>15. PICK batch : batch = u + 1 .. u + Len(q)
  OBVIOUS
<1>16. PICK f : f = [s \in DOMAIN e \cup batch |->
                       IF s \in batch THEN [call |-> q[s - u], batch |-> u + 1, index |-> s - (u + 1)]
                       ELSE e[s]]
  OBVIOUS
<1>17. native' = f
  <2>1. NextStep = u + 1 /\ NextStep + Len(r) - 1 = u + Len(q)
    BY <1>2, <1>10, <1>13 DEF NextStep
  <2>2. ASSUME NEW s \in batch PROVE r[s - NextStep + 1].says = q[s - u]
    <3>1. s - NextStep + 1 = s - u /\ s - u \in 1 .. Len(r)
      BY <2>1, <1>10, <1>15
    <3>2. QED
      BY <3>1, <1>10
  <2>3. native' = [s \in DOMAIN e \cup batch |->
                     IF s \in batch
                     THEN [call |-> r[s - NextStep + 1].says, batch |-> NextStep, index |-> s - NextStep]
                     ELSE e[s]]
    BY <2>1, <1>3, <1>15 DEF Remember
  <2>4. QED
    BY <2>1, <2>2, <2>3, <1>16
<1>18. /\ DOMAIN e \subseteq 1 .. MaxSteps
       /\ e \in [DOMAIN e -> [call : Call, batch : 1 .. MaxSteps, index : Nat]]
       /\ \A s \in DOMAIN e : s <= u
  <2>1. \A s \in DOMAIN e : s <= u + 0
    BY <1>1, <1>2, <1>3, <1>13
  <2>2. QED
    BY <2>1, <1>3 DEF ControlInv, TypeOK
<1>19. \A s \in DOMAIN e : s \notin batch
  BY <1>15, <1>18
<1>20. Keeps(e, f)
  BY <1>16, <1>19 DEF Keeps
<1>21. Carries(f, q, c, m)
  <2>1. batch \subseteq 1 .. MaxSteps
    BY <1>14, <1>15, ControlAssumption
  <2>2. DOMAIN f \subseteq 1 .. MaxSteps /\ DOMAIN f = DOMAIN e \cup batch
    BY <2>1, <1>16, <1>18
  <2>3. ASSUME NEW i \in 1 .. Len(q)
        PROVE  /\ u + i \in batch /\ f[u + i] = [call |-> q[i], batch |-> u + 1, index |-> i - 1]
               /\ f[u + i].call = q[i] /\ f[u + i].batch = u + 1 /\ f[u + i].index = i - 1
    <3>1. u + i \in batch /\ (u + i) - u = i /\ (u + i) - (u + 1) = i - 1
      BY <1>15
    <3>2. f[u + i] = [call |-> q[i], batch |-> u + 1, index |-> i - 1]
      BY <3>1, <1>16
    <3>3. QED
      BY <3>1, <3>2
  <2>4. f \in [DOMAIN f -> [call : Call, batch : 1 .. MaxSteps, index : Nat]]
    <3>1. ASSUME NEW s \in batch
          PROVE  f[s] \in [call : Call, batch : 1 .. MaxSteps, index : Nat]
      <4>1. PICK i \in 1 .. Len(q) : s = u + i
        <5>1. s - u \in 1 .. Len(q) /\ s = u + (s - u)
          BY <1>15
        <5>2. QED
          BY <5>1
      <4>2. u + 1 \in 1 .. MaxSteps /\ i - 1 \in Nat /\ q[i] \in Call
        BY <1>10, <1>14, ControlAssumption
      <4>3. f[s] = [call |-> q[i], batch |-> u + 1, index |-> i - 1]
        BY <4>1, <2>3, Zenon
      <4>4. QED
        BY <4>2, <4>3
    <3>2. ASSUME NEW s \in DOMAIN e
          PROVE  f[s] \in [call : Call, batch : 1 .. MaxSteps, index : Nat]
      BY <1>16, <1>18, <1>19
    <3>3. QED
      BY <3>1, <3>2, <2>2, <1>16
  <2>5. \A s \in DOMAIN f : s <= u + Len(q)
    BY <2>2, <1>10, <1>15, <1>18
  <2>6. f[u + 1].index = 0 /\ f[u + 1].batch = u + 1
    <3>1. 1 \in 1 .. Len(q)
      BY <1>7, <1>10
    <3>2. f[u + 1].index = 1 - 1 /\ f[u + 1].batch = u + 1
      BY <3>1, <2>3, Zenon
    <3>3. QED
      BY <3>2
  <2>7. ASSUME NEW i \in 1 .. Len(q)
        PROVE  /\ u + i \in DOMAIN f /\ f[u + i].call = q[i]
               /\ f[u + i].index = f[u + 1].index + (i - 1)
               /\ f[u + i].batch = f[u + 1].batch
    <3>1. u + i \in DOMAIN f
      BY <2>2, <2>3
    <3>2. i - 1 = f[u + 1].index + (i - 1)
      BY <2>6
    <3>3. QED
      BY <3>1, <3>2, <2>3, <2>6, Zenon
  <2>8. (Len(c.obs) + 1) - f[u + 1].index > m
    BY <2>6, <1>5
  <2>9. QED
    BY <2>2, <2>4, <2>5, <2>6, <2>7, <2>8, <1>13, <1>14 DEF Carries
<1>22. Carries(native', q, conv, Len(saved.obs)) /\ Keeps(native, native')
  BY <1>2, <1>3, <1>4, <1>17, <1>20, <1>21
<1>23. QED
  BY <1>1, <1>10, <1>11, <1>12, <1>22, ReadKeeps

-----------------------------------------------------------------------------
(* The loop never finds its own history inconsistent *)

LEMMA SmallerIs == ASSUME NEW x \in Nat, NEW y \in Nat
                   PROVE  Min({x, y}) \in Nat /\ Min({x, y}) <= y
<1>1. \E z \in {x, y} : \A w \in {x, y} : z <= w
  OBVIOUS
<1>2. /\ Min({x, y}) \in {x, y} /\ \A w \in {x, y} : Min({x, y}) <= w
  BY <1>1 DEF Min
<1>3. QED
  BY <1>2

LEMMA HistoryFits ==
    ASSUME ControlInv, at = "decide"
    PROVE  Rebuilds /\ RepliesFit
<1> DEFINE start == conv.run.start
           b == Len(saved.obs)
<1>1. /\ Sound(conv) /\ Sound(saved) /\ conv.run # None /\ conv.messages = saved.messages + 1
      /\ start <= b /\ b <= Len(conv.obs)
      /\ \A k \in DOMAIN saved.obs : conv.obs[k] = saved.obs[k]
      /\ \A n \in DOMAIN conv.obs : n > b => Issued(n)
  BY DEF ControlInv, TurnInv, NativeInv
<1>2. /\ start \in Nat /\ b \in Nat /\ Len(conv.obs) \in Nat /\ DOMAIN conv.obs = 1 .. Len(conv.obs)
      /\ DOMAIN saved.obs = 1 .. b /\ saved.messages \in Nat
      /\ \A k \in DOMAIN saved.obs : saved.obs[k].turn \in Nat /\ saved.obs[k].turn <= saved.messages
  <2>1. \A k \in DOMAIN saved.obs : saved.obs[k].turn <= saved.messages
    BY <1>1 DEF Sound, Books
  <2>2. QED
    BY <2>1, <1>1, ConvTyped, RunIsTyped, ObservationTyped DEF Sound
<1>3. /\ DOMAIN Seen = 1 .. Len(conv.obs) - start
      /\ \A k \in DOMAIN Seen : Seen[k] = conv.obs[k + start]
  BY <1>1, SeenIs
<1>4. ASSUME NEW k \in DOMAIN Seen, Seen[k].turn = conv.messages
      PROVE  /\ Matches(Seen[k])
             /\ native[Seen[k].step].index < k
             /\ k - native[Seen[k].step].index \in DOMAIN Seen
             /\ native[Seen[k].step].batch = Seen[k - native[Seen[k].step].index].step
  <2>1. PICK n \in DOMAIN conv.obs : n = k + start
    BY <1>2, <1>3
  <2>2. Seen[k] = conv.obs[n]
    BY <1>3, <2>1
  <2>3. n > b
    <3>1. SUFFICES ASSUME n <= b PROVE FALSE
      BY <1>2
    <3>2. n \in DOMAIN saved.obs
      BY <1>2, <3>1
    <3>3. saved.obs[n].turn \in Nat /\ saved.obs[n].turn <= saved.messages /\ conv.obs[n] = saved.obs[n]
      BY <1>1, <1>2, <3>2
    <3>4. QED
      BY <1>1, <1>2, <1>4, <2>2, <3>3
  <2>4. PICK x : x = native[Seen[k].step].index
    OBVIOUS
  <2>5. /\ Matches(Seen[k]) /\ n - x > b
        /\ native[Seen[k].step].batch = conv.obs[n - x].step
    BY <1>1, <2>2, <2>3, <2>4 DEF Issued, Matches
  <2>6. x \in Nat
    BY <2>4, <2>5 DEF Matches, ControlInv, TypeOK
  <2>7. k - x \in 1 .. Len(conv.obs) - start /\ x < k /\ (k - x) + start = n - x
    <3>1. PICK l \in Nat : l = Len(conv.obs)
      BY <1>2
    <3>2. PICK s \in Nat : s = start /\ s <= b
      BY <1>1, <1>2
    <3>3. n \in 1 .. l /\ k \in 1 .. l - s /\ n = k + s
      BY <3>1, <3>2, <1>2, <1>3, <2>1
    <3>4. PICK y \in Nat : y = b /\ s <= y
      BY <3>2, <1>2
    <3>5. n - x > y
      BY <3>4, <2>5
    <3>6. n - x > s
      BY <3>3, <3>4, <3>5, <2>6
    <3>7. k - x \in 1 .. l - s /\ x < k /\ (k - x) + s = n - x
      BY <3>3, <3>6, <2>6
    <3>8. QED
      BY <3>1, <3>2, <3>7
  <2>8. Seen[k - x] = conv.obs[n - x]
    BY <1>3, <2>7
  <2>9. QED
    BY <1>3, <2>4, <2>5, <2>7, <2>8
<1>5. Rebuilds
  BY <1>4 DEF Rebuilds
<1>6. RepliesFit
  <2>1. PICK rs \in Seq(Nat) : rs = saved.replies
    BY <1>1, ConvTyped DEF Sound
  <2>2. Recent \in Nat /\ Len(rs) \in Nat
    BY ControlAssumption
  <2>3. PICK x \in Nat : x = Min({Recent, Len(rs)}) /\ x <= Len(rs)
    BY <2>2, SmallerIs
  <2>4. PICK y \in Nat : y = Len(rs) - x /\ y <= Len(rs)
    BY <2>2, <2>3
  <2>5. Shown(rs) = SubSeq(rs, y + 1, Len(rs))
    BY <2>3, <2>4 DEF Shown
  <2>6. /\ Len(Shown(rs)) = Len(rs) - y /\ Shown(rs) \in Seq(Nat)
        /\ \A k \in 1 .. Len(rs) - y : Shown(rs)[k] = rs[k + y]
    <3>1. LET s == SubSeq(rs, y + 1, Len(rs))
          IN  /\ s \in Seq(Nat) /\ Len(s) = Len(rs) - y
              /\ \A k \in 1 .. Len(rs) - y : s[k] = rs[k + y]
      BY <2>4, SuffixProperties, Zenon
    <3>2. QED
      BY <3>1, <2>5, Zenon
  <2>7. \A k \in DOMAIN rs : rs[k] \in Nat /\ rs[k] <= saved.messages
    BY <1>1, <2>1 DEF Sound, Books
  <2>8. ASSUME NEW k \in DOMAIN Shown(rs) PROVE Shown(rs)[k] < conv.messages
    <3>1. k \in 1 .. Len(rs) - y
      BY <2>6
    <3>2. k + y \in DOMAIN rs /\ Shown(rs)[k] = rs[k + y]
      <4>1. k + y \in 1 .. Len(rs)
        BY <3>1, <2>2, <2>4
      <4>2. DOMAIN rs = 1 .. Len(rs)
        OBVIOUS
      <4>3. Shown(rs)[k] = rs[k + y]
        BY <3>1, <2>6, Zenon
      <4>4. QED
        BY <4>1, <4>2, <4>3, Zenon
    <3>3. QED
      BY <3>2, <2>7, <1>1, <1>2
  <2>9. QED
    BY <2>1, <2>8 DEF RepliesFit
<1>7. QED
  BY <1>5, <1>6

LEMMA QueueIsFit ==
    ASSUME ControlInv, at = "decide", queue # <<>>
    PROVE  QueueFits
<1>1. /\ Sound(conv) /\ Sound(saved) /\ conv.run # None
      /\ conv.run.start <= Len(saved.obs) /\ Owed
      /\ \A n \in DOMAIN conv.obs : n > Len(saved.obs) => Issued(n)
  BY DEF ControlInv, TurnInv, NativeInv
<1>2. /\ conv.run.start \in Nat /\ Len(saved.obs) \in Nat /\ Len(conv.obs) \in Nat
      /\ DOMAIN conv.obs = 1 .. Len(conv.obs) /\ conv.run.used \in 0 .. MaxSteps
  BY <1>1, ConvTyped, RunIsTyped DEF Sound
<1>3. /\ Len(conv.obs) > Len(saved.obs) /\ conv.obs[Len(conv.obs)].step = conv.run.used
      /\ conv.run.used + Len(queue) < MaxSteps
  BY <1>1 DEF Owed
<1>4. Len(conv.obs) \in DOMAIN conv.obs /\ Len(conv.obs) - conv.run.start \in Nat \ {0}
  BY <1>1, <1>2, <1>3
<1>5. Issued(Len(conv.obs))
  BY <1>1, <1>3, <1>4
<1>6. /\ Seen \in Seq(Observations) /\ Len(Seen) = Len(conv.obs) - conv.run.start
      /\ DOMAIN Seen = 1 .. Len(conv.obs) - conv.run.start
      /\ \A k \in DOMAIN Seen : Seen[k] = conv.obs[k + conv.run.start]
  BY <1>1, SeenIs
<1>7. Seen # <<>> /\ Last(Seen) = conv.obs[Len(conv.obs)]
  <2>1. Len(Seen) \in DOMAIN Seen /\ Len(Seen) + conv.run.start = Len(conv.obs)
    BY <1>2, <1>4, <1>6
  <2>2. QED
    BY <2>1, <1>6 DEF Last
<1>8. Last(Seen).step = NextStep - 1
  BY <1>2, <1>3, <1>7, ControlAssumption DEF NextStep
<1>9. Matches(Last(Seen))
  BY <1>5, <1>7 DEF Issued, Matches
<1>10. Remaining >= 2
  <2>1. Len(queue) \in Nat \ {0}
    BY DEF ControlInv, TypeOK
  <2>2. QED
    BY <2>1, <1>2, <1>3, ControlAssumption DEF Remaining, NextStep
<1>11. QED
  BY <1>7, <1>8, <1>9, <1>10 DEF QueueFits

LEMMA NoProtocolError == ControlInv => ~ ProtocolError
BY HistoryFits, QueueIsFit DEF ProtocolError

-----------------------------------------------------------------------------
(* The theorems *)

LEMMA StartsSound == Init => ControlInv
<1> SUFFICES ASSUME Init PROVE ControlInv
  OBVIOUS
<1>1. /\ core = [a \in Action |-> "none"] /\ conv = Fresh /\ saved = Fresh
      /\ at = "idle" /\ queue = <<>> /\ native = <<>> /\ sent = {} /\ answer = None /\ broke = FALSE
  BY DEF Init
<1>2. PICK c : c = Fresh
  OBVIOUS
<1>3. /\ c.messages = 0 /\ c.runs = 0 /\ c.tools = 0 /\ c.run = None /\ c.obs = <<>>
      /\ c.replies = <<>> /\ c.tracked = {} /\ c.first = [a \in Action |-> None]
  BY <1>2 DEF Fresh
<1>4. c \in Conv
  BY <1>2, ControlAssumption DEF Fresh, Conv
<1>5. Sound(c)
  BY <1>3, <1>4 DEF Sound, Books, OpenRun, Capped
<1>6. TypeOK
  <2>1. /\ DOMAIN native \subseteq 1 .. MaxSteps
        /\ native \in [DOMAIN native -> [call : Call, batch : 1 .. MaxSteps, index : Nat]]
    BY <1>1, NothingRemembered
  <2>2. queue \in Seq(Call)
    BY <1>1
  <2>3. conv \in Conv /\ saved \in Conv
    BY <1>1, <1>2, <1>4
  <2>4. QED
    BY <1>1, <2>1, <2>2, <2>3 DEF TypeOK
<1>7. Held(c, core)
  BY <1>3 DEF Held
<1>8. TurnInv
  BY <1>1, NothingRemembered DEF TurnInv
<1>9. NativeInv /\ PendingInv /\ SentInv
  BY <1>1 DEF NativeInv, PendingInv, SentInv
<1>10. QED
  BY <1>1, <1>2, <1>5, <1>6, <1>7, <1>8, <1>9 DEF ControlInv

\* One decision of a model, whatever it answers.
LEMMA DecideKeeps ==
    ASSUME ControlInv, NEW r \in Seq(Calls), Decide(r)
    PROVE  ControlInv'
<1>1. Asks /\ at = "decide" /\ Respond(r)
  BY DEF Decide, Asks
<1>2. CASE Accepted(r) /\ r[1].fn = "read" /\ Read(r[1].says) /\ Remember(r)
           /\ queue' = Tail([k \in DOMAIN r |-> r[k].says])
  BY <1>1, <1>2, BatchKeeps
<1>3. CASE Accepted(r) /\ r[1].fn = "ask" /\ Clarify
  <2>1. Remaining > 1
    BY <1>3 DEF Accepted, Reads
  <2>2. QED
    BY <2>1, <1>1, <1>3, ClarifyKeeps
<1>4. CASE Accepted(r) /\ r[1].fn = "finish" /\ Finish(r[1].says)
  BY <1>1, <1>4, FinishKeeps
<1>5. CASE Accepted(r) /\ r[1].fn = "act" /\ (Submit(r[1].says) \/ GroundingRejected(r[1].says))
  <2>1. r[1].says \in Action
    <3>1. r # <<>>
      BY <1>5 DEF Accepted
    <3>2. r[1] \in Calls /\ r[1].fn = "act"
      BY <3>1, <1>5
    <3>3. QED
      BY <3>2 DEF Calls
  <2>2. QED
    BY <2>1, <1>1, <1>5, SubmitKeeps, EndersKeep
<1>6. CASE ~ Accepted(r) /\ Finish("refuse")
  BY <1>1, <1>6, FinishKeeps
<1>7. QED
  BY <1>1, <1>2, <1>3, <1>4, <1>5, <1>6 DEF Respond

LEMMA StepKeeps == ControlInv /\ [Next]_vars => ControlInv'
<1> SUFFICES ASSUME ControlInv, [Next]_vars PROVE ControlInv'
  OBVIOUS
<1>1. CASE BeginRun
  BY <1>1, BeginKeeps
<1>2. CASE Smalltalk
  BY <1>2, SmalltalkKeeps
<1>3. CASE TurnFails
  BY <1>3, TurnFailsKeeps
<1>4. CASE Drain
  BY <1>4, DrainKeeps
<1>5. CASE StepLimit
  BY <1>5, EndersKeep
<1>6. CASE ProtocolError
  BY <1>6, NoProtocolError
<1>7. CASE \E r \in Seq(Calls) : Decide(r)
  BY <1>7, DecideKeeps
<1>8. CASE \E a \in Action : OperatorDecides(a)
  BY <1>8, OperatorKeeps
<1>9. CASE UNCHANGED vars
  <2>1. UNCHANGED <<core, conv, saved, at, queue, native, sent, answer, broke>>
    BY <1>9 DEF vars, policy, history
  <2>2. TypeOK'
    BY <2>1 DEF ControlInv, TypeOK
  <2>3. TurnInv'
    BY <2>1 DEF ControlInv, TurnInv
  <2>4. NativeInv'
    BY <2>1 DEF ControlInv, NativeInv, Issued, Owed
  <2>5. PendingInv'
    BY <2>1 DEF ControlInv, PendingInv, Waiting
  <2>6. SentInv'
    BY <2>1 DEF ControlInv, SentInv
  <2>7. QED
    BY <2>1, <2>2, <2>3, <2>4, <2>5, <2>6 DEF ControlInv
<1>10. CASE ConversationFull
  BY <1>9, <1>10 DEF ConversationFull
<1>11. QED
  BY <1>1, <1>2, <1>3, <1>4, <1>5, <1>6, <1>7, <1>8, <1>9, <1>10 DEF Next

LEMMA Always == Spec => []ControlInv
BY StartsSound, StepKeeps, PTL DEF Spec

\* The conversation, its saved head, the gateway and the policy of the request keep their
\* types, whatever a model answers.
THEOREM TypeCorrect == Spec => []TypeOK
<1>1. ControlInv => TypeOK
  BY DEF ControlInv
<1>2. QED
  BY <1>1, Always, PTL

\* Nothing reaches the gateway but a replay of what it holds, or an action that the latest
\* read of its order in the same run bears out; and every pending request can be decided.
THEOREM ActionsGrounded == Spec => []ActionsAreGrounded
<1>1. ASSUME ControlInv PROVE ActionsAreGrounded
  <2>1. \A s \in sent : s.held \/ Borne(s, conv.obs)
    BY <1>1, SentStays
  <2>2. \A a \in conv.tracked : Anchored(a)
    BY <1>1 DEF ControlInv, Sound, Books, Anchored
  <2>3. ASSUME NEW s \in sent, Borne(s, conv.obs)
        PROVE  \E k \in 1 .. s.upto :
                  /\ conv.obs[k].run = s.run /\ conv.obs[k].call = Reading(s.action.order)
                  /\ conv.obs[k].result.items # None
                  /\ s.action.item \in conv.obs[k].result.items
                  /\ \A j \in k + 1 .. s.upto :
                       ~(conv.obs[j].run = s.run /\ conv.obs[j].call = conv.obs[k].call)
    BY <2>3 DEF Borne
  <2>4. QED
    BY <2>1, <2>2, <2>3 DEF ActionsAreGrounded
<1>2. QED
  BY <1>1, Always, PTL

\* No decision finds its history or its batch inconsistent, no run goes over the cap of
\* identical calls or reaches a decision without a step, every read has its own id, and an
\* answer after reading the pending requests names those that wait.
THEOREM ProtocolKept == Spec => []RunsKeepTheProtocol
<1>1. ASSUME ControlInv PROVE RunsKeepTheProtocol
  <2>1. ~ broke /\ (answer # None => answer.said = answer.waited) /\ Sound(conv)
    BY <1>1 DEF ControlInv
  <2>2. \A n \in 1 .. conv.runs : \A c \in Call : AttemptsIn(n, c) <= RetryCap
    BY <2>1 DEF Sound, Capped, Tried, Calling, AttemptsIn
  <2>3. at = "decide" => conv.run.used < MaxSteps
    BY <1>1, <2>1 DEF ControlInv, TurnInv, Sound, OpenRun
  <2>4. \A j, k \in DOMAIN conv.obs : conv.obs[j].id = conv.obs[k].id => j = k
    <3>1. \A k \in DOMAIN conv.obs : conv.obs[k].id = <<conv.obs[k].turn, k>>
      BY <2>1 DEF Sound, Books
    <3>2. \A j, k \in DOMAIN conv.obs :
             <<conv.obs[j].turn, j>> = <<conv.obs[k].turn, k>> => j = k
      OBVIOUS
    <3>3. QED
      BY <3>1, <3>2
  <2>5. QED
    BY <2>1, <2>2, <2>3, <2>4 DEF RunsKeepTheProtocol
<1>2. QED
  BY <1>1, Always, PTL
-----------------------------------------------------------------------------
(* The orchestrated question: the invariant *)

\* What a tool that ended as it did brings.
Brings(t, result) ==
    /\ result.status \in {"ok", "empty", "error"}
    /\ result.evidence = IF result.status = "ok" THEN FoundBy(t) ELSE {}

\* Whether the question names a SKU, and the plan that it has got.
PlanInv ==
    /\ skus \in IF \E c \in question : "sku" \in c THEN {1, 2} ELSE {0}
    /\ progress = "planning" => plan = Unasked
    /\ progress # "planning" => \E fallback \in Fallbacks : plan = PlanRequest(question, fallback)
    /\ progress \in {"checking", "preflight", "running"} => plan.steps # {}

\* Nothing runs before what was planned is there, and each result is what its tool brings.
RanInv ==
    /\ progress \in {"planning", "checking", "preflight"} => executed = <<>>
    /\ progress \in {"preflight", "running"} => Unavailable(plan, seen) = {}
    /\ executed \in Seq(ToSet(executed)) /\ DOMAIN results = ToSet(executed)
    /\ \A t \in DOMAIN results : Brings(t, results[t])

\* The verdict on what was run.
Evaluated ==
    /\ plan.steps # {} /\ Unavailable(plan, seen) = {} /\ RanAll
    /\ LET d == Judge(plan.steps, plan.freshness, plan.citation, results, {})
       IN  verdict = [outcome |-> d.outcome, sources |-> d.usable, citable |-> d.citable,
                      message |-> IF d.outcome = "refuse" THEN RefusalMessage(d.reasons) ELSE "generate"]

\* A request ends before anything ran, with the verdict, or in an error that is not the
\* preflight's.
EndInv ==
    /\ progress \notin {"answered", "failed"} => verdict = Pending
    /\ progress = "failed" => verdict.outcome = "raised" /\ verdict.why \in {"misuse", "trace"}
    /\ progress = "answered" => (executed = <<>> /\ verdict.outcome \in {"direct", "refuse"}) \/ Evaluated

QuestionInv == PlanInv /\ RanInv /\ EndInv

-----------------------------------------------------------------------------
(* The orchestrated question: its plan and its judgement *)

\* A plan that has steps has those of every clause, and a document where something is to
\* be quoted.
LEMMA PlanCovers ==
    ASSUME NEW fallback \in Fallbacks, NEW p, p = PlanRequest(question, fallback), p.steps # {}
    PROVE  /\ p.steps \subseteq Tool /\ p.citation \in BOOLEAN
           /\ \A c \in question : StepsOf(c) \subseteq p.steps /\ (WantsExact(c) => p.citation)
           /\ p.citation => "document" \in p.steps
<1>1. ~IsDirect(question)
  BY DEF PlanRequest
<1>2. p.steps = IF Signalled(question) # {} THEN Signalled(question)
                ELSE IF fallback # {} THEN fallback ELSE {"document"}
  BY <1>1 DEF PlanRequest
<1>3. p.citation = (\E c \in question : WantsExact(c))
  BY <1>1 DEF PlanRequest
<1>4. \A c \in question : StepsOf(c) \subseteq Signalled(question)
  BY DEF Signalled
<1>5. \A c \in question : StepsOf(c) \subseteq p.steps
  BY <1>2, <1>4
<1>6. fallback \subseteq Tool /\ Signalled(question) \subseteq Tool
  BY OrchestrationAssumption DEF Signalled, StepsOf
<1>7. p.steps \subseteq Tool
  BY <1>2, <1>6 DEF Tool
<1>8. \A c \in question : WantsExact(c) => "document" \in StepsOf(c)
  BY DEF StepsOf, NeedsDocument, Tool
<1>9. QED
  BY <1>3, <1>5, <1>7, <1>8

\* What evaluate_evidence makes of results that are what their tools bring.
LEMMA JudgedIs ==
    ASSUME NEW steps \in SUBSET Tool, steps # {}, NEW freshness, NEW citation, NEW found, steps \subseteq DOMAIN found,
           \A t \in steps : Brings(t, found[t]), NEW d, d = Judge(steps, freshness, citation, found, {})
    PROVE  /\ d.outcome \in {"ready", "refuse"}
           /\ d.outcome = "ready" =>
                /\ \A t \in steps : found[t].status = "ok" /\ Of(t, d.usable) # {}
                /\ citation => d.citable # {}
           /\ d.outcome = "refuse" /\ (\A t \in steps : found[t].status = "ok") /\ (citation => "document" \in steps) =>
                freshness /\ "system" \notin steps
<1>1. PICK usable : usable = Usable(steps, found)
  OBVIOUS
<1>2. PICK reasons : reasons = FailureReasons(steps, found) \cup FreshnessReasons(freshness, usable)
                                 \cup CitationReasons(citation, steps, usable) \cup FactReasons({})
  OBVIOUS
<1>3. /\ d.outcome = (IF reasons \subseteq Informational THEN "ready" ELSE "refuse")
      /\ d.usable = usable /\ d.citable = IF citation THEN Citable(usable) ELSE {}
  BY <1>1, <1>2 DEF Judge
<1>4. \A t \in steps : found[t].status \in {"ok", "empty", "error"}
        /\ found[t].evidence = IF found[t].status = "ok" THEN FoundBy(t) ELSE {}
  BY DEF Brings
<1>5. \A t \in steps : found[t].status = "ok" => FoundBy(t) \subseteq usable
  BY <1>1, <1>4 DEF Usable, Reporting
<1>6. \A e \in usable : \E t \in steps : found[t].status = "ok" /\ e \in FoundBy(t)
  BY <1>1, <1>4 DEF Usable, Reporting
<1>7. \A t \in Tool : \A e \in FoundBy(t) :
        e.source = t /\ e.located /\ (e.dated <=> t # "document") /\ (e.scoped <=> t = "system")
  <2>1. SUFFICES ASSUME NEW t \in Tool, NEW e \in FoundBy(t)
                 PROVE  /\ e.source = t /\ e.located
                        /\ (e.dated <=> t # "document") /\ (e.scoped <=> t = "system")
    OBVIOUS
  <2>2. e = [source |-> t, authority |-> Authority(t), located |-> TRUE, dated |-> t # "document", scoped |-> t = "system"]
    BY DEF FoundBy
  <2>3. e.dated = (t # "document") /\ e.scoped = (t = "system")
    BY <2>2
  <2>4. QED
    BY <2>2, <2>3
<1>8. ASSUME NEW t \in steps, found[t].status = "ok" PROVE Of(t, usable) # {} /\ Of(t, usable) = FoundBy(t)
  <2>1. FoundBy(t) # {}
    BY DEF FoundBy
  <2>2. FoundBy(t) \subseteq Of(t, usable)
    BY <1>5, <1>7, <1>8 DEF Of
  <2>3. Of(t, usable) \subseteq FoundBy(t)
    BY <1>6, <1>7 DEF Of
  <2>4. QED
    BY <2>1, <2>2, <2>3
<1>9. ASSUME reasons \subseteq Informational
      PROVE  (\A t \in steps : found[t].status = "ok") /\ (citation => Citable(usable) # {})
  <2>1. "empty_tool_result" \notin reasons /\ "tool_error" \notin reasons
        /\ "citation_missing_document" \notin reasons /\ "citation_missing_locator" \notin reasons
    BY <1>9 DEF Informational
  <2>2. Reporting("empty", steps, found) = {} /\ Reporting("error", steps, found) = {}
    BY <1>2, <2>1 DEF FailureReasons, When
  <2>3. \A t \in steps : found[t].status = "ok"
    BY <1>4, <2>2 DEF Reporting
  <2>4. ASSUME citation PROVE Citable(usable) # {}
    BY <1>2, <2>1, <2>4 DEF CitationReasons, When
  <2>5. QED
    BY <2>3, <2>4
<1>10. ASSUME \A t \in steps : found[t].status = "ok", citation => "document" \in steps,
              ~(freshness /\ "system" \notin steps)
       PROVE  reasons = {}
  <2>1. FailureReasons(steps, found) = {}
    BY <1>10 DEF FailureReasons, When, Reporting
  <2>2. FactReasons({}) = {}
    BY DEF FactReasons, When, Topics
  <2>3. CitationReasons(citation, steps, usable) = {}
    <3>1. ASSUME "document" \in steps PROVE Of("document", usable) # {} /\ Citable(usable) # {}
      <4>1. Of("document", usable) # {} /\ Of("document", usable) = FoundBy("document")
        BY <1>8, <1>10, <3>1
      <4>2. \A e \in FoundBy("document") : e.located
        BY <1>7 DEF Tool
      <4>3. QED
        BY <4>1, <4>2 DEF Citable
    <3>2. QED
      BY <1>10, <3>1 DEF CitationReasons, When
  <2>4. FreshnessReasons(freshness, usable) = {}
    <3>1. \A e \in Of("system", usable) : e.dated /\ e.scoped
      BY <1>6, <1>7 DEF Of, Tool
    <3>2. ASSUME freshness PROVE {e \in Of("system", usable) \cup Of("document", usable) : e.dated} # {}
      <4>1. "system" \in steps
        BY <1>10, <3>2
      <4>2. Of("system", usable) # {}
        BY <1>8, <1>10, <4>1
      <4>3. QED
        BY <3>1, <4>2
    <3>3. QED
      BY <3>1, <3>2 DEF FreshnessReasons, When
  <2>5. QED
    BY <1>2, <2>1, <2>2, <2>3, <2>4
<1>11. QED
  BY <1>3, <1>8, <1>9, <1>10

-----------------------------------------------------------------------------
(* The orchestrated question: each step keeps the invariant *)

LEMMA QuestionStarts == ASSUME OrchestrationInit PROVE QuestionInv
<1>1. PlanInv
  BY DEF OrchestrationInit, PlanInv
<1>2. executed = <<>> /\ DOMAIN results = {} /\ progress = "planning" /\ verdict = Pending
  BY DEF OrchestrationInit
<1>3. ToSet(executed) = {}
  BY <1>2 DEF ToSet
<1>4. QED
  BY <1>1, <1>2, <1>3 DEF QuestionInv, RanInv, EndInv

LEMMA QuestionStep == ASSUME QuestionInv, [OrchestrationNext]_orchestrationVars PROVE QuestionInv'
<1>1. PlanInv /\ RanInv /\ EndInv
  BY DEF QuestionInv
<1>2. CASE WikiChanges \/ UNCHANGED orchestrationVars
  <2>1. UNCHANGED <<question, skus, chunks, progress, plan, seen, executed, results, verdict>>
    BY <1>2 DEF WikiChanges, orchestrationVars, request
  <2>2. PlanInv'
    BY <1>1, <2>1 DEF PlanInv
  <2>3. RanInv'
    BY <1>1, <2>1 DEF RanInv, Unavailable, When
  <2>4. EndInv'
    BY <1>1, <2>1 DEF EndInv, Evaluated, RanAll, Unavailable, When
  <2>5. QED
    BY <2>2, <2>3, <2>4 DEF QuestionInv
<1>3. CASE Plan
  <2>1. progress = "planning" /\ UNCHANGED <<question, skus, seen, executed, results>>
    BY <1>3 DEF Plan, request
  <2>2. PICK fallback \in Fallbacks : plan' = PlanRequest(question, fallback)
    BY <1>3 DEF Plan
  <2>3. \/ plan'.steps = {} /\ progress' = "answered" /\ verdict' = Fixed("direct", "greeting")
        \/ plan'.steps # {} /\ progress' = "checking" /\ UNCHANGED verdict
    BY <1>3 DEF Plan
  <2>4. PlanInv'
    BY <1>1, <2>1, <2>2, <2>3 DEF PlanInv
  <2>5. RanInv'
    BY <1>1, <2>1, <2>3 DEF RanInv
  <2>6. EndInv'
    BY <1>1, <2>1, <2>3 DEF EndInv, RanInv, Fixed
  <2>7. QED
    BY <2>4, <2>5, <2>6 DEF QuestionInv
<1>4. CASE Check
  <2>1. progress = "checking" /\ seen' = pages /\ UNCHANGED <<question, skus, chunks, plan, executed, results>>
    BY <1>4 DEF Check, request
  <2>2. \/ Unavailable(plan, pages) = {} /\ progress' = "preflight" /\ UNCHANGED verdict
        \/ progress' = "answered" /\ \E message : verdict' = Fixed("refuse", message)
    BY <1>4 DEF Check
  <2>3. Unavailable(plan, seen)' = Unavailable(plan, pages)
    BY <2>1 DEF Unavailable, When
  <2>4. PlanInv'
    BY <1>1, <2>1, <2>2 DEF PlanInv
  <2>5. RanInv'
    BY <1>1, <2>1, <2>2, <2>3 DEF RanInv
  <2>6. EndInv'
    BY <1>1, <2>1, <2>2 DEF EndInv, RanInv, Fixed
  <2>7. QED
    BY <2>4, <2>5, <2>6 DEF QuestionInv
<1>5. CASE Preflight
  <2>1. progress = "preflight" /\ UNCHANGED <<question, skus, chunks, plan, seen, executed, results>>
    BY <1>5 DEF Preflight, request
  <2>2. Unavailable(plan, seen) = {}
    BY <1>1, <2>1 DEF RanInv
  <2>3. /\ "document" \in plan.steps => chunks
        /\ "wiki" \in plan.steps => WikiOfRequest
        /\ "system" \in plan.steps => skus = 1
    BY <2>2 DEF Unavailable, When, WikiOfRequest
  <2>4. progress' = "running" /\ UNCHANGED verdict
    BY <1>5, <2>3 DEF Preflight
  <2>5. Unavailable(plan, seen)' = {}
    BY <2>1, <2>2 DEF Unavailable, When
  <2>6. PlanInv'
    BY <1>1, <2>1, <2>4 DEF PlanInv
  <2>7. RanInv'
    BY <1>1, <2>1, <2>4, <2>5 DEF RanInv
  <2>8. EndInv'
    BY <1>1, <2>1, <2>4 DEF EndInv
  <2>9. QED
    BY <2>6, <2>7, <2>8 DEF QuestionInv
<1>6. CASE Run
  <2>1. progress = "running" /\ UNCHANGED <<question, skus, chunks, plan, seen>>
    BY <1>6 DEF Run, request
  <2>2. Unavailable(plan, seen)' = Unavailable(plan, seen) /\ Unavailable(plan, seen) = {}
    BY <1>1, <2>1 DEF Unavailable, When, RanInv
  <2>3. \/ (Fail("misuse") \/ Fail("trace")) /\ UNCHANGED <<executed, results>>
        \/ /\ executed' = Append(executed, NextTool) /\ UNCHANGED <<progress, verdict>>
           /\ \E reply \in Replies :
                results' = [t \in DOMAIN results \cup {NextTool} |->
                             IF t # NextTool THEN results[t]
                             ELSE [status   |-> IF reply \in {"ok", "empty"} THEN reply ELSE "error",
                                   evidence |-> IF reply = "ok" THEN FoundBy(t) ELSE {}]]
    BY <1>6 DEF Run
  <2>4. CASE (Fail("misuse") \/ Fail("trace")) /\ UNCHANGED <<executed, results>>
    <3>1. progress' = "failed" /\ verdict'.outcome = "raised" /\ verdict'.why \in {"misuse", "trace"}
      BY <2>4 DEF Fail
    <3>2. PlanInv'
      BY <1>1, <2>1, <3>1 DEF PlanInv
    <3>3. RanInv'
      BY <1>1, <2>2, <2>4, <3>1 DEF RanInv
    <3>4. EndInv'
      BY <3>1 DEF EndInv
    <3>5. QED
      BY <3>2, <3>3, <3>4 DEF QuestionInv
  <2>5. CASE executed' = Append(executed, NextTool) /\ UNCHANGED <<progress, verdict>>
    <3>1. PICK x : x = NextTool
      OBVIOUS
    <3>2. PICK reply \in Replies :
            results' = [t \in DOMAIN results \cup {x} |->
                         IF t # x THEN results[t]
                         ELSE [status   |-> IF reply \in {"ok", "empty"} THEN reply ELSE "error",
                               evidence |-> IF reply = "ok" THEN FoundBy(t) ELSE {}]]
      BY <1>6, <2>1, <2>3, <2>5, <3>1 DEF Fail
    <3>3. PICK S : S = ToSet(executed)
      OBVIOUS
    <3>4. executed \in Seq(S) /\ DOMAIN results = S /\ \A t \in S : Brings(t, results[t])
      BY <1>1, <3>3 DEF RanInv
    <3>5. executed' \in Seq(S \cup {x}) /\ ToSet(executed') = S \cup {x}
      <4>1. executed \in Seq(S \cup {x})
        BY <3>4
      <4>2. /\ executed' \in Seq(S \cup {x}) /\ Len(executed') = Len(executed) + 1
            /\ DOMAIN executed' = 1..(Len(executed) + 1)
            /\ \A i \in 1..Len(executed) : executed'[i] = executed[i]
            /\ executed'[Len(executed) + 1] = x
        BY <2>5, <3>1, <4>1
      <4>3. Len(executed) \in Nat /\ DOMAIN executed = 1..Len(executed)
        BY <3>4
      <4>4. S = {executed[i] : i \in 1..Len(executed)}
        BY <3>3, <4>3 DEF ToSet
      <4>5. ToSet(executed') = {executed'[i] : i \in 1..(Len(executed) + 1)}
        BY <4>2 DEF ToSet
      <4>6. QED
        BY <4>2, <4>3, <4>4, <4>5
    <3>6. DOMAIN results' = S \cup {x}
      BY <3>2, <3>4
    <3>7. ASSUME NEW t \in DOMAIN results' PROVE Brings(t, results'[t])
      <4>1. CASE t = x
        BY <3>2, <3>6, <4>1 DEF Brings
      <4>2. CASE t # x
        BY <3>2, <3>4, <3>6, <4>2
      <4>3. QED
        BY <4>1, <4>2
    <3>8. RanInv'
      BY <2>1, <2>2, <2>5, <3>5, <3>6, <3>7 DEF RanInv, Brings, FoundBy, Authority
    <3>9. PlanInv'
      BY <1>1, <2>1, <2>5 DEF PlanInv
    <3>10. EndInv'
      BY <1>1, <2>1, <2>5 DEF EndInv
    <3>11. QED
      BY <3>8, <3>9, <3>10 DEF QuestionInv
  <2>6. QED
    BY <2>3, <2>4, <2>5
<1>7. CASE Evaluate
  <2>1. progress = "running" /\ RanAll /\ progress' = "answered"
        /\ UNCHANGED <<question, skus, chunks, plan, seen, executed, results>>
    BY <1>7 DEF Evaluate, request
  <2>2. Unavailable(plan, seen)' = {} /\ plan.steps # {}
    BY <1>1, <2>1 DEF Unavailable, When, RanInv, PlanInv
  <2>3. Evaluated'
    BY <1>7, <2>1, <2>2 DEF Evaluated, Evaluate, RanAll
  <2>4. PlanInv'
    BY <1>1, <2>1 DEF PlanInv
  <2>5. RanInv'
    BY <1>1, <2>1 DEF RanInv
  <2>6. EndInv'
    BY <2>1, <2>3 DEF EndInv
  <2>7. QED
    BY <2>4, <2>5, <2>6 DEF QuestionInv
<1>8. QED
  BY <1>2, <1>3, <1>4, <1>5, <1>6, <1>7 DEF OrchestrationNext

\* What a verdict on what was run says.
LEMMA EvaluatedIs ==
    ASSUME QuestionInv, progress = "answered", Evaluated
    PROVE  /\ plan.steps \subseteq Tool /\ DOMAIN results = plan.steps
           /\ \A c \in question : StepsOf(c) \subseteq plan.steps /\ (WantsExact(c) => plan.citation)
           /\ "system" \in plan.steps => skus = 1
           /\ verdict.outcome \in {"ready", "refuse"}
           /\ verdict.outcome = "ready" => /\ \A t \in plan.steps : Of(t, verdict.sources) # {}
                                           /\ plan.citation => verdict.citable # {}
           /\ verdict.outcome = "refuse" /\ (\A t \in plan.steps : results[t].status = "ok") =>
                plan.freshness /\ "system" \notin plan.steps
           /\ verdict.message \in {"tool_unavailable", "no_answer", "no_citation", "generate"}
<1>1. PlanInv /\ RanInv
  BY DEF QuestionInv
<1>2. PICK fallback \in Fallbacks : plan = PlanRequest(question, fallback)
  BY <1>1 DEF PlanInv
<1>3. /\ plan.steps \subseteq Tool /\ plan.steps # {}
      /\ \A c \in question : StepsOf(c) \subseteq plan.steps /\ (WantsExact(c) => plan.citation)
      /\ plan.citation => "document" \in plan.steps
  BY <1>2, PlanCovers DEF Evaluated
<1>4. DOMAIN results = plan.steps /\ \A t \in plan.steps : Brings(t, results[t])
  BY <1>1 DEF RanInv, Evaluated, RanAll
<1>5. "system" \in plan.steps => skus = 1
  BY DEF Evaluated, Unavailable, When
<1>6. PICK d : d = Judge(plan.steps, plan.freshness, plan.citation, results, {})
  OBVIOUS
<1>7. verdict = [outcome |-> d.outcome, sources |-> d.usable, citable |-> d.citable,
                 message |-> IF d.outcome = "refuse" THEN RefusalMessage(d.reasons) ELSE "generate"]
  BY <1>6 DEF Evaluated
<1>8. /\ d.outcome \in {"ready", "refuse"}
      /\ d.outcome = "ready" => /\ \A t \in plan.steps : results[t].status = "ok" /\ Of(t, d.usable) # {}
                                /\ plan.citation => d.citable # {}
      /\ d.outcome = "refuse" /\ (\A t \in plan.steps : results[t].status = "ok")
           /\ (plan.citation => "document" \in plan.steps) =>
           plan.freshness /\ "system" \notin plan.steps
  BY <1>3, <1>4, <1>6, JudgedIs
<1>9. verdict.message \in {"tool_unavailable", "no_answer", "no_citation", "generate"}
  BY <1>7 DEF RefusalMessage
<1>10. QED
  BY <1>3, <1>4, <1>5, <1>7, <1>8, <1>9

\* AnswersDue: whatever the clauses ask for, whatever the fallback chooses and however the
\* tools end, while a wiki is published or retracted: an answer covers every channel that
\* each clause would need alone and looks up the SKU that is named, findings are answered,
\* and what is missing is a fixed answer and no error.
THEOREM AnswersDue == OrchestrationSpec => []AnswersAreDue
<1>1. ASSUME QuestionInv PROVE AnswersAreDue
  <2>1. PlanInv /\ EndInv
    BY <1>1 DEF QuestionInv
  <2>2. MissingIsNoError
    <3>1. progress = "failed" => verdict.why # "preflight"
      BY <2>1 DEF EndInv
    <3>2. ASSUME progress = "answered", executed # <<>>
          PROVE  verdict.message \notin {"no_documents", "no_wiki", "no_sku", "multiple_sku"}
      <4>1. Evaluated
        BY <2>1, <3>2 DEF EndInv
      <4>2. verdict.message \in {"tool_unavailable", "no_answer", "no_citation", "generate"}
        BY <1>1, <3>2, <4>1, EvaluatedIs
      <4>3. QED
        BY <4>2
    <3>3. QED
      BY <3>1, <3>2 DEF MissingIsNoError
  <2>3. ASSUME verdict.outcome = "ready" PROVE progress = "answered" /\ Evaluated
    BY <2>1, <2>3 DEF EndInv, Pending
  <2>4. ReadyCoversEveryClause
    <3>1. SUFFICES ASSUME verdict.outcome = "ready", NEW c \in question
                   PROVE  /\ \A t \in StepsOf(c) : Of(t, verdict.sources) # {}
                          /\ WantsExact(c) => verdict.citable # {}
      BY DEF ReadyCoversEveryClause
    <3>2. QED
      BY <1>1, <2>3, <3>1, EvaluatedIs
  <2>5. SkusAreLookedUp
    <3>1. SUFFICES ASSUME verdict.outcome = "ready", skus > 0
                   PROVE  skus = 1 /\ Of("system", verdict.sources) # {}
      BY DEF SkusAreLookedUp
    <3>2. PICK c \in question : "sku" \in c
      BY <2>1, <3>1 DEF PlanInv
    <3>3. "system" \in StepsOf(c)
      BY <3>2 DEF StepsOf, NeedsSystem, Tool
    <3>4. "system" \in plan.steps
      BY <1>1, <2>3, <3>1, <3>3, EvaluatedIs
    <3>5. QED
      BY <1>1, <2>3, <3>1, <3>4, EvaluatedIs
  <2>6. FindingsSuffice
    <3>1. SUFFICES ASSUME progress = "answered", verdict.outcome = "refuse", executed # <<>>,
                          \A t \in DOMAIN results : results[t].status = "ok"
                   PROVE  plan.freshness /\ "system" \notin plan.steps
      BY DEF FindingsSuffice
    <3>2. Evaluated
      BY <2>1, <3>1 DEF EndInv
    <3>3. QED
      BY <1>1, <3>1, <3>2, EvaluatedIs
  <2>7. DocumentReadsItsPart
    <3>1. \A c \in question : NeedsDocument(c) => ~IsSystemOnly(c)
      BY DEF IsSystemOnly, StepsOf, Tool
    <3>2. ASSUME NEW c \in question, NeedsDocument(c), ~IsPleasantry(c) PROVE c \in Focus(question)
      BY <3>1, <3>2 DEF Focus, Kept
    <3>3. ASSUME NEW c \in Focus(question), StepsOf(c) = {"system"}
          PROVE  \A b \in question : ~NeedsDocument(b) \/ IsPleasantry(b)
      <4>1. Kept(question) = {}
        BY <3>3 DEF Focus, Kept, IsSystemOnly
      <4>2. QED
        BY <3>1, <4>1 DEF Kept
    <3>4. QED
      BY <3>2, <3>3 DEF DocumentReadsItsPart
  <2>8. QED
    BY <2>2, <2>4, <2>5, <2>6, <2>7 DEF AnswersAreDue
<1>2. OrchestrationInit => QuestionInv
  BY QuestionStarts
<1>3. QuestionInv /\ [OrchestrationNext]_orchestrationVars => QuestionInv'
  BY QuestionStep
<1>4. QED
  BY <1>1, <1>2, <1>3, PTL DEF OrchestrationSpec
-----------------------------------------------------------------------------
(* The facts that a caller asserts of the evidence *)

\* With a record of less authority away, or one that may not speak, the same decide.
LEMMA WeakerDecidesNothing ==
    ASSUME NEW group, \A x \in group : Rank(x) \in Nat, NEW a \in group,
           (\E b \in Eligible(group) : Rank(b) > Rank(a)) \/ ~IsEligible(a)
    PROVE  TopTier(Eligible(group \ {a})) = TopTier(Eligible(group))
<1>1. Eligible(group \ {a}) = Eligible(group) \ {a} /\ Eligible(group) \subseteq group
  BY DEF Eligible
<1>2. CASE ~IsEligible(a)
  <2>1. Eligible(group \ {a}) = Eligible(group)
    BY <1>2 DEF Eligible
  <2>2. QED
    BY <2>1
<1>3. CASE \E b \in Eligible(group) : Rank(b) > Rank(a)
  <2>1. PICK b \in Eligible(group) : Rank(b) > Rank(a)
    BY <1>3
  <2>2. b # a /\ b \in Eligible(group) \ {a} /\ Rank(a) \in Nat /\ Rank(b) \in Nat
    BY <1>1, <2>1
  <2>3. ASSUME NEW x \in TopTier(Eligible(group)) PROVE x \in TopTier(Eligible(group \ {a}))
    <3>1. x # a
      BY <2>1, <2>2, <2>3 DEF TopTier
    <3>2. QED
      BY <1>1, <2>3, <3>1 DEF TopTier
  <2>4. ASSUME NEW x \in TopTier(Eligible(group \ {a})) PROVE x \in TopTier(Eligible(group))
    <3>1. x \in Eligible(group) /\ Rank(x) \in Nat /\ \A y \in Eligible(group) \ {a} : Rank(y) <= Rank(x)
      BY <1>1, <2>4 DEF TopTier
    <3>2. Rank(a) <= Rank(x)
      BY <2>1, <2>2, <3>1
    <3>3. QED
      BY <3>1, <3>2 DEF TopTier
  <2>5. QED
    BY <2>3, <2>4
<1>4. QED
  BY <1>2, <1>3

\* _resolve_group, of any assertions whatever their authority: none of them is lost or
\* counted twice, a topic is settled only by what no assertion of the same or a higher
\* authority contradicts, and no weaker source breaks a tie.
THEOREM AuthorityDecides ==
    ASSUME NEW group, IsFiniteSet(group), \A a \in group : Rank(a) \in Nat
    PROVE  IsPartitioned(group) /\ IsDecidedByAuthority(group) /\ WeakerChangesNothing(group)
<1> DEFINE top == TopTier(Eligible(group))
           resolved == Cardinality(ValuesOf(top)) = 1
           agreeing == {a \in Eligible(group) : a.value \in ValuesOf(top)}
<1>1. top \subseteq Eligible(group) /\ Eligible(group) \subseteq group
  BY DEF TopTier, Eligible
<1>2. Resolution(group) =
        [resolved    |-> resolved,
         winner      |-> IF resolved THEN ValuesOf(top) ELSE {},
         winning     |-> IF resolved THEN agreeing ELSE {},
         contending  |-> IF resolved THEN {} ELSE top,
         superseded  |-> Superseded(Eligible(group), top, agreeing, resolved),
         ignored     |-> group \ Eligible(group),
         settled     |-> resolved /\ Cardinality(ValuesOf(Eligible(group))) > 1]
  BY DEF Resolution, Eligible
<1>3. IsPartitioned(group)
  <2>1. PICK r : r = Resolution(group)
    OBVIOUS
  <2>2. /\ r.winning = IF resolved THEN agreeing ELSE {}
        /\ r.contending = IF resolved THEN {} ELSE top
        /\ r.superseded = Eligible(group) \ (IF resolved THEN agreeing ELSE top)
        /\ r.ignored = group \ Eligible(group)
        /\ r.winner = IF resolved THEN ValuesOf(top) ELSE {}
    BY <1>2, <2>1 DEF Superseded
  <2>3. PICK b : b = <<r.winning, r.contending, r.superseded, r.ignored>>
    OBVIOUS
  <2>4. b[1] = r.winning /\ b[2] = r.contending /\ b[3] = r.superseded /\ b[4] = r.ignored
    BY <2>3
  <2>5. agreeing \subseteq Eligible(group)
    OBVIOUS
  <2>6. r.winning \cup r.contending \cup r.superseded \cup r.ignored = group
    BY <1>1, <2>2, <2>5
  <2>7. UNION {b[i] : i \in 1..4} = group
    <3>1. \A i \in 1..4 : i = 1 \/ i = 2 \/ i = 3 \/ i = 4
      OBVIOUS
    <3>2. UNION {b[i] : i \in 1..4} = b[1] \cup b[2] \cup b[3] \cup b[4]
      BY <3>1
    <3>3. QED
      BY <2>4, <2>6, <3>2
  <2>8. \A i, j \in 1..4 : i # j => b[i] \cap b[j] = {}
    <3>1. /\ r.winning \cap r.contending = {} /\ r.winning \cap r.superseded = {}
          /\ r.winning \cap r.ignored = {} /\ r.contending \cap r.superseded = {}
          /\ r.contending \cap r.ignored = {} /\ r.superseded \cap r.ignored = {}
      BY <1>1, <2>2, <2>5
    <3>2. \A i \in 1..4 : i = 1 \/ i = 2 \/ i = 3 \/ i = 4
      OBVIOUS
    <3>3. QED
      BY <2>4, <3>1, <3>2
  <2>9. ASSUME r.winner # {} PROVE b[2] = {} /\ b[1] # {}
    <3>1. resolved /\ ValuesOf(top) # {}
      BY <2>2, <2>9
    <3>2. PICK a \in top : a.value \in ValuesOf(top)
      BY <3>1 DEF ValuesOf
    <3>3. a \in agreeing
      BY <1>1, <3>2
    <3>4. QED
      BY <2>2, <2>4, <3>1, <3>3
  <2>10. QED
    BY <2>1, <2>3, <2>7, <2>8, <2>9 DEF IsPartitioned, Buckets
<1>4. IsDecidedByAuthority(group)
  <2>1. SUFFICES ASSUME NEW v \in Resolution(group).winner, NEW a \in Eligible(group), a.value # v
                 PROVE  \E b \in Eligible(group) : b.value = v /\ Rank(b) > Rank(a)
    BY DEF IsDecidedByAuthority
  <2>2. v \in ValuesOf(top) /\ Cardinality(ValuesOf(top)) = 1
    BY <1>2, <2>1
  <2>3. IsFiniteSet(ValuesOf(top))
    <3>1. IsFiniteSet(top)
      BY <1>1, FS_Subset
    <3>2. [x \in top |-> x.value] \in Surjection(top, ValuesOf(top))
      BY DEF ValuesOf, Surjection
    <3>3. QED
      BY <3>1, <3>2, FS_Surjection
  <2>4. ValuesOf(top) = {v}
    BY <2>2, <2>3, FS_Singleton
  <2>5. a \notin top
    BY <2>1, <2>4 DEF ValuesOf
  <2>6. PICK b \in top : b.value = v
    BY <2>2 DEF ValuesOf
  <2>7. PICK x \in Eligible(group) : ~(Rank(x) <= Rank(a))
    BY <2>5 DEF TopTier
  <2>8. Rank(x) <= Rank(b) /\ b \in Eligible(group)
    BY <2>6 DEF TopTier
  <2>9. Rank(a) \in Nat /\ Rank(b) \in Nat /\ Rank(x) \in Nat
    BY <1>1, <2>8
  <2>10. QED
    BY <2>6, <2>7, <2>8, <2>9
<1>5. WeakerChangesNothing(group)
  <2>1. SUFFICES ASSUME NEW a \in group, (\E b \in Eligible(group) : Rank(b) > Rank(a)) \/ ~IsEligible(a)
                 PROVE  /\ Resolution(group \ {a}).winner = Resolution(group).winner
                        /\ Resolution(group \ {a}).contending = Resolution(group).contending
    BY DEF WeakerChangesNothing
  <2>2. TopTier(Eligible(group \ {a})) = top
    BY <2>1, WeakerDecidesNothing
  <2>3. /\ Resolution(group \ {a}).winner = (IF resolved THEN ValuesOf(top) ELSE {})
        /\ Resolution(group \ {a}).contending = (IF resolved THEN {} ELSE top)
    BY <2>2 DEF Resolution, Eligible
  <2>4. QED
    BY <1>2, <2>3
<1>6. QED
  BY <1>3, <1>4, <1>5
=============================================================================
