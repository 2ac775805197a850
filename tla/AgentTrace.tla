------------------------------ MODULE AgentTrace ------------------------------
(***************************************************************************)
(* The trace of one request (agent_trace.py): a run with a stack of spans, *)
(* through which exceptions fly, are caught, followed by others, and at    *)
(* last abort the request or do not.  A streaming request is a generator   *)
(* that is left at its yields, where the client may be gone.               *)
(*                                                                         *)
(* Spans and exceptions are numbered in the order in which they appear.    *)
(* The code in between (routing, tools, generation) is free to open spans, *)
(* raise and catch: what is said of the trace holds whatever it does.      *)
(***************************************************************************)
EXTENDS Naturals, Sequences, FiniteSets, FiniteSetsExt, SequencesExt

CONSTANTS
    Business,       \* the stages of a request: routing, tools, generation, ...
    MaxSpans,       \* bound: the spans of a run
    MaxExceptions,  \* bound: the exceptions raised in it
    Nothing         \* no span, no exception

\* Spans and exceptions are numbered.
ASSUME TraceAssumption == Nothing \notin Nat

VARIABLES
    spans,   \* Run.spans: parent, stage, status, the exception that left it, whether it tells of it
    stack,   \* Run._stack: the open spans, the outermost first
    flying,  \* the exception that is on its way out, if any
    caught,  \* the handlers that are running: what they caught, and where
    cause,   \* exceptions: the one each was raised from, or while it was handled
    trace,   \* Run: streaming, status, the exception and the span it is blamed on
    stored,  \* trace_runs: the status of the row
    origin,  \* history: the innermost span that was open when each exception was raised
    handled  \* history: the exceptions that were dealt with inside of a span

traceVars == <<spans, stack, flying, caught, cause, trace, stored, origin, handled>>

Stage == Business \cup {"llm_call"}

\* ClientDisconnected, which nobody raised, and the GeneratorExit that closes a generator.
Disconnected == 0
Exits == 0

Top == IF stack = <<>> THEN Nothing ELSE stack[Len(stack)]

\* Run.__init__: the row is inserted; one that cannot be is never written.
TraceInit ==
    /\ spans = <<>> /\ stack = <<>> /\ flying = Nothing /\ caught = <<>>
    /\ cause = <<>> /\ origin = <<>> /\ handled = {}
    /\ trace \in {[streaming |-> s, status |-> "running", error |-> Nothing, blamed |-> Nothing,
                   stage |-> Nothing, finished |-> FALSE] : s \in BOOLEAN}
    /\ stored = "running"

-----------------------------------------------------------------------------
(* Spans *)

Steps == ~trace.finished /\ flying = Nothing

Span(parent, stage) ==
    [parent |-> parent, stage |-> stage, status |-> "ok", exc |-> Nothing, tells |-> FALSE]

Open(stage) ==
    /\ Steps /\ Len(spans) < MaxSpans
    /\ spans' = Append(spans, Span(Top, stage))
    /\ stack' = Append(stack, Len(spans'))
    /\ UNCHANGED <<flying, caught, cause, trace, stored, origin, handled>>

\* record: a step that already happened, well or, as here, not; it is never on the stack.
Record ==
    /\ Steps /\ Len(spans) < MaxSpans
    /\ \E stage \in Business : spans' = Append(spans, [Span(Top, stage) EXCEPT !.status = "error"])
    /\ UNCHANGED <<stack, flying, caught, cause, trace, stored, origin, handled>>

\* The calls of a model that a plan made move under the tool that made them,
\* once it has been executed.
Regroup ==
    /\ Steps /\ stack # <<>> /\ caught = <<>> /\ Len(spans) < MaxSpans
    /\ \E s \in DOMAIN spans : spans[s].parent = Top /\ spans[s].stage = "llm_call"
    /\ \E stage \in Business :
         spans' = [s \in 1..Len(spans) + 1 |->
                   IF s > Len(spans) THEN Span(Top, stage)
                   ELSE IF spans[s].parent = Top /\ spans[s].stage = "llm_call"
                        THEN [spans[s] EXCEPT !.parent = Len(spans) + 1] ELSE spans[s]]
    /\ UNCHANGED <<stack, flying, caught, cause, trace, stored, origin, handled>>

\* The handlers whose code lies outside of the spans that are still open: the first
\* ones, for a handler runs in no span that was closed around it.
Outside(handlers, depth) ==
    SubSeq(handlers, 1, Max({0} \cup {i \in DOMAIN handlers : handlers[i].depth <= depth}))

CloseSpan ==
    /\ Steps /\ stack # <<>>
    /\ \A i \in DOMAIN caught : caught[i].depth < Len(stack)
    /\ stack' = Front(stack)
    /\ UNCHANGED <<spans, flying, caught, cause, trace, stored, origin, handled>>

PassedThroughChild(s, e) == \E o \in DOMAIN spans : spans[o].exc = e /\ spans[o].parent = s

\* Span.__exit__ with an exception: the innermost span it leaves carries its details.
Left(s, e) == [spans[s] EXCEPT !.status = "error", !.exc = e, !.tells = ~PassedThroughChild(s, e)]

Unwind ==
    /\ ~trace.finished /\ flying # Nothing /\ stack # <<>>
    /\ spans' = [spans EXCEPT ![Top] = Left(Top, flying)]
    /\ stack' = Front(stack)
    /\ caught' = Outside(caught, Len(stack'))
    /\ UNCHANGED <<flying, cause, trace, stored, origin, handled>>

-----------------------------------------------------------------------------
(* Exceptions: raised, also while another is handled or from one that was    *)
(* kept; caught; raised again.                                               *)

Raise ==
    /\ Steps /\ Len(cause) < MaxExceptions
    /\ \E behind \in {IF caught = <<>> THEN Nothing ELSE Last(caught).exc} \cup DOMAIN cause :
         cause' = Append(cause, behind)
    /\ origin' = Append(origin, Top)
    /\ flying' = Len(cause')
    /\ UNCHANGED <<spans, stack, caught, trace, stored, handled>>

Catch ==
    /\ ~trace.finished /\ flying # Nothing
    /\ \E outer \in 0..Len(caught) :
         caught' = Append(SubSeq(caught, 1, outer), [exc |-> flying, depth |-> Len(stack)])
    /\ flying' = Nothing
    /\ UNCHANGED <<spans, stack, cause, trace, stored, origin, handled>>

\* The handler is done with what it caught.
Handled ==
    /\ Steps /\ caught # <<>> /\ Last(caught).depth = Len(stack)
    /\ caught' = Front(caught)
    /\ handled' = IF stack = <<>> THEN handled ELSE handled \cup {Last(caught).exc}
    /\ UNCHANGED <<spans, stack, flying, cause, trace, stored, origin>>

RaiseAgain ==
    /\ Steps /\ caught # <<>> /\ Last(caught).depth = Len(stack)
    /\ flying' = Last(caught).exc
    /\ caught' = Front(caught)
    /\ UNCHANGED <<spans, stack, cause, trace, stored, origin, handled>>

-----------------------------------------------------------------------------
(* The end of a run *)

\* Seeded fault: any span that an exception passed through is where it was seen.
EscapedAnyway(s, e) == TRUE

\* The exception left the span and every one that encloses it, to the outermost.
Escaped(s, e) ==
    \E left \in SUBSET {t \in DOMAIN spans : spans[t].exc = e} :
        s \in left /\ \A t \in left : spans[t].parent \in left \cup {Nothing}

\* An exception, the one it was raised from, and so on: none of them is younger.
Chain(e) ==
    {c \in 1..e : \A behind \in SUBSET (1..e) :
        e \in behind /\ (\A b \in behind : cause[b] \in behind \cup {Nothing}) => c \in behind}

Hits(e) == {s \in DOMAIN spans : spans[s].exc = e /\ Escaped(s, e)}
Innermost(hits) == CHOOSE s \in hits : ~\E o \in hits : spans[o].parent = s

\* Seeded fault: the run is blamed on what was handled last.
FailureSpanLast(e) ==
    LET seen == {c \in Chain(e) : Hits(c) # {}}
    IN  IF seen = {} THEN Top ELSE Innermost(Hits(Min(seen)))

\* _failure_span: where the exception that aborts the run, or else the first one behind
\* it that was, was seen; with none, where the run was interrupted.
FailureSpan(e) ==
    LET seen == {c \in Chain(e) : Hits(c) # {}}
    IN  IF seen = {} THEN Top ELSE Innermost(Hits(Max(seen)))

TopStage(s) ==
    LET Root[t \in DOMAIN spans] == IF spans[t].parent = Nothing THEN t ELSE Root[spans[t].parent]
    IN  IF s # Nothing /\ spans[Root[s]].stage \in Business THEN spans[Root[s]].stage ELSE "request"

\* Run.fail: the first failure is the one that is told.
Failed(r, e) ==
    IF r.error # Nothing THEN [r EXCEPT !.status = "failed"]
    ELSE [r EXCEPT !.status = "failed", !.error = e, !.blamed = FailureSpan(e),
                   !.stage = TopStage(FailureSpan(e))]

\* Run.finish: the row and the spans are written in one transaction, which may fail.
Finished(r) ==
    [r EXCEPT !.finished = TRUE, !.status = IF @ = "failed" THEN "failed" ELSE "completed"]

Finish(r) ==
    /\ trace' = Finished(r)
    /\ stored' \in {stored, Finished(r).status}

Return ==
    /\ Steps /\ stack = <<>> /\ caught = <<>>
    /\ Finish(trace)
    /\ UNCHANGED <<spans, stack, flying, caught, cause, origin, handled>>

\* The exception leaves the request, through __exit__, abort or iterate.
Abort ==
    /\ ~trace.finished /\ flying # Nothing /\ stack = <<>>
    /\ Finish(Failed(trace, flying))
    /\ caught' = <<>>
    /\ UNCHANGED <<spans, stack, flying, cause, origin, handled>>

\* The outermost handler of a stream: fail_current, and then an error event is yielded.
FailCurrent ==
    /\ Steps /\ trace.streaming /\ stack = <<>> /\ Len(caught) = 1
    /\ trace' = Failed(trace, caught[1].exc)
    /\ UNCHANGED <<spans, stack, flying, caught, cause, stored, origin, handled>>

\* Seeded fault: the generator is closed before the run is marked.
CloseFirst ==
    /\ Steps /\ trace.streaming
    /\ Finish([trace EXCEPT !.status = "failed", !.error = IF @ = Nothing THEN Disconnected ELSE @,
                          !.stage = IF trace.error = Nothing THEN "request" ELSE @])
    /\ spans' = [s \in DOMAIN spans |-> IF s \in ToSet(stack) THEN Left(s, Exits) ELSE spans[s]]
    /\ stack' = <<>> /\ caught' = <<>>
    /\ UNCHANGED <<flying, cause, origin, handled>>

\* iterate, closed at a yield: the run is marked first, while the spans are open, then
\* the generator is closed and leaves them, and then the run is finished.
CloseStream ==
    /\ Steps /\ trace.streaming
    /\ Finish(IF trace.status = "failed" THEN trace ELSE Failed(trace, Disconnected))
    /\ spans' = [s \in DOMAIN spans |-> IF s \in ToSet(stack) THEN Left(s, Exits) ELSE spans[s]]
    /\ stack' = <<>> /\ caught' = <<>>
    /\ UNCHANGED <<flying, cause, origin, handled>>

TraceNext ==
    \/ \E stage \in Stage : Open(stage)
    \/ Record \/ Regroup \/ CloseSpan \/ Unwind
    \/ Raise \/ Catch \/ Handled \/ RaiseAgain
    \/ Return \/ Abort \/ FailCurrent \/ CloseStream

TraceSpec == TraceInit /\ [][TraceNext]_traceVars

-----------------------------------------------------------------------------
(* Properties *)

\* A run is blamed on no exception that was dealt with inside of a span, and on the very
\* span that was open when the one that is blamed was raised.
BlamesTheCulprit ==
    trace.error \notin {Nothing, Disconnected} /\ trace.blamed # Nothing =>
        \E c \in Chain(trace.error) \ handled : origin[c] = trace.blamed

\* Where any span was open when the exception that ended the run was raised, one is blamed.
BlamesSomeone ==
    trace.error \notin {Nothing, Disconnected} =>
        (origin[trace.error] # Nothing => trace.blamed = origin[trace.error])

\* What ended is told as it ended: completed only without a failure and with no span left
\* open, and what a row says is what the run came to, or that it is running still.
EndsOnce ==
    trace.finished =>
        /\ stack = <<>>
        /\ (trace.status = "completed") <=> (trace.error = Nothing)
        /\ stored \in {"running", trace.status}

\* Every exception that left a span is described in exactly one.
ToldOnce ==
    \A e \in 1..Len(cause) :
        LET through == {s \in DOMAIN spans : spans[s].exc = e}
        IN  through # {} => Cardinality({s \in through : spans[s].tells}) = 1

\* A span that a closed stream was in is blamed, and is not told to have gone well.
InterruptedAreTold ==
    trace.finished /\ trace.error = Disconnected =>
        \A s \in DOMAIN spans : spans[s].exc = Exits =>
            /\ trace.blamed # Nothing /\ spans[trace.blamed].exc = Exits
            /\ spans[trace.blamed].tells

\* Whatever a request opens, raises, catches and raises again, and wherever its client
\* leaves it, the trace blames the span in which what ended it was first seen and none
\* whose exception was dealt with, tells of each exception once, and calls a run
\* completed only if nothing failed.
TracesBlameTheCulprit ==
    BlamesTheCulprit /\ BlamesSomeone /\ EndsOnce /\ ToldOnce /\ InterruptedAreTold
=============================================================================
