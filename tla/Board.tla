------------------------------- MODULE Board --------------------------------
(***************************************************************************)
(* What the terminal screen draws from one snapshot (cmd/tuhdoo/top.go,    *)
(* snapshot.go), as pure operators: the rows of its two lists, the focus   *)
(* ring and the lines of a task's view, and the windows over them.         *)
(*                                                                         *)
(* A board is what one snapshot carries.  Task and escalation ids are      *)
(* numbers, in the order they were minted.  Of a rendered line only its    *)
(* being there counts: nothing wraps, and a description, a question, its   *)
(* context and a history take a fixed number of lines.  Dependencies are   *)
(* not edited here, and close no loop.                                     *)
(***************************************************************************)
EXTENDS Naturals, Sequences, SequencesExt, FiniteSetsExt

CONSTANTS
    Tasks,        \* the ids tasks may have
    Escalations,  \* the ids escalations may have
    TaskOf,       \* the task each escalation is on
    Blocking,     \* the escalations that block their task
    Deps,         \* what each task depends on, in stored order
    Priorities    \* the numbers a priority may be

ASSUME BoardAssumption ==
    /\ Tasks \subseteq Nat \ {0} /\ IsFiniteSet(Tasks)
    /\ Escalations \subseteq Nat \ {0} /\ IsFiniteSet(Escalations)
    /\ TaskOf \in [Escalations -> Tasks]
    /\ Blocking \subseteq Escalations
    /\ Deps \in [Tasks -> Seq(Nat \ {0})]
    /\ Priorities \subseteq Nat

Unset    == 100  \* no priority: behind every number
Statuses == {"open", "held", "inbox", "done", "cancelled"}
Terminal(status) == status \in {"done", "cancelled"}

\* Before the first snapshot.
NoBoard == [tasks |-> [t \in {} |-> {}], open |-> {}, raised |-> {}]

Known(b) == DOMAIN b.tasks

-----------------------------------------------------------------------------
\* The verdicts of the daemon on an entry of a snapshot.
UnmetDeps(b, t) ==
    {d \in ToSet(Deps[t]) \cap Known(b) : b.tasks[d].status # "done"}

CancelledDeps(b, t) == {d \in UnmetDeps(b, t) : b.tasks[d].status = "cancelled"}

Questions(b, t) == {e \in b.open : TaskOf[e] = t}

Situation(b, t) ==
    CASE b.tasks[t].status # "open" -> b.tasks[t].status
      [] b.tasks[t].status = "open" /\ b.tasks[t].claimed -> "in_progress"
      [] OTHER -> IF UnmetDeps(b, t) \cup (Questions(b, t) \cap Blocking) = {}
                  THEN "ready" ELSE "blocked"

\* Set S as a sequence, in a total order.
Sorted(S, Before(_, _)) ==
    [i \in 1 .. Cardinality(S) |->
        CHOOSE x \in S : Cardinality({y \in S : Before(y, x)}) = i - 1]

ById(S) == Sorted(S, <)

In(b, situation) == {t \in Known(b) : Situation(b, t) = situation}

\* MoreUrgent, and creation order within a rank.
MoreUrgent(b, t, u) == b.tasks[t].prio < b.tasks[u].prio

Ready(b) ==
    Sorted(In(b, "ready"),
        LAMBDA t, u : \/ MoreUrgent(b, t, u)
                      \/ ~ MoreUrgent(b, u, t) /\ t < u)

\* closedNewestFirst: by the time of closing, and creation order on a tie.
NewestFirst(b, S) ==
    Sorted(S, LAMBDA t, u :
        \/ b.tasks[t].closed > b.tasks[u].closed
        \/ b.tasks[t].closed = b.tasks[u].closed /\ t < u)

\* The dependencies that came in, in stored order.
KnownDeps(b, t) ==
    LET at == ById({i \in DOMAIN Deps[t] : Deps[t][i] \in Known(b)})
    IN  [i \in DOMAIN at |-> Deps[t][at[i]]]

\* Dependents in creation order, whatever their status.
DependentsOf(b, t) == ById({u \in Known(b) : t \in ToSet(Deps[u])})

-----------------------------------------------------------------------------
\* A row keeps a copy of what the snapshot said of its task.
TaskRow(b, t, section) ==
    [kind |-> "task", section |-> section, esc |-> 0, task |-> t,
     status |-> b.tasks[t].status, claimed |-> b.tasks[t].claimed]

EscRow(e) ==
    [kind |-> "escalation", section |-> "escalations", esc |-> e,
     task |-> TaskOf[e], status |-> "", claimed |-> FALSE]

NoRow == [kind |-> "none", section |-> "", esc |-> 0, task |-> 0,
          status |-> "", claimed |-> FALSE]

RowId(r) == <<r.kind, r.esc, r.task>>

TaskRows(b, order, section) ==
    [i \in DOMAIN order |-> TaskRow(b, order[i], section)]

\* Mutant: a task that waits for an answer has no row, and the answer neither.
BuildRowsBlockingOnly(b) ==
    [i \in 1 .. Cardinality(b.open \cap Blocking) |->
        EscRow(ById(b.open \cap Blocking)[i])]
    \o TaskRows(b, Ready(b), "ready")
    \o TaskRows(b, ById(In(b, "in_progress")), "inprogress")
    \o TaskRows(b, ById(In(b, "blocked")), "blocked")
    \o TaskRows(b, ById(In(b, "held")), "held")
    \o TaskRows(b, ById(In(b, "inbox")), "inbox")

\* buildRows: a task that waits for an answer alone is shown by its question.
BuildRows(b) ==
    [i \in 1 .. Cardinality(b.open) |-> EscRow(ById(b.open)[i])]
    \o TaskRows(b, Ready(b), "ready")
    \o TaskRows(b, ById(In(b, "in_progress")), "inprogress")
    \o TaskRows(b, ById({t \in In(b, "blocked") : UnmetDeps(b, t) # {}}),
                "blocked")
    \o TaskRows(b, ById(In(b, "held")), "held")
    \o TaskRows(b, ById(In(b, "inbox")), "inbox")

BuildClosedRows(b) ==
    TaskRows(b, NewestFirst(b, In(b, "done")), "done")
    \o TaskRows(b, NewestFirst(b, In(b, "cancelled")), "cancelled")

ActiveRows(closed, b) == IF closed THEN BuildClosedRows(b) ELSE BuildRows(b)

\* The keys that rewrite a record: not a closed one, and not work in hands.
Steerable(r) == ~ Terminal(r.status) /\ ~ r.claimed

-----------------------------------------------------------------------------
(* The view of task t.                                                      *)
Stop(kind, id) == [kind |-> kind, id |-> id]

If(condition, one) == IF condition THEN <<one>> ELSE <<>>

Stops(kind, ids) == [i \in DOMAIN ids |-> Stop(kind, ids[i])]

\* detailEscalations: a closed task solicits no answers.
DetailEscalations(b, t) ==
    IF t \notin Known(b) THEN <<>>
    ELSE IF Terminal(b.tasks[t].status) THEN <<>> ELSE ById(Questions(b, t))

\* detailStops: the focus ring, empty in watch mode.
DetailStops(armed, b, t) ==
    IF ~ armed \/ t \notin Known(b) THEN <<>>
    ELSE <<Stop("title", t)>>
         \o If(Steerable(TaskRow(b, t, "")), Stop("priority", t))
         \o If(~ Terminal(b.tasks[t].status), Stop("labels", t))
         \o Stops("escalation", DetailEscalations(b, t))
         \o Stops("dep", KnownDeps(b, t))
         \o Stops("neededby", DependentsOf(b, t))
         \o <<Stop("description", t)>>

\* detailFocusIdx: the ring can shrink under a refresh.
FocusIdx(focus, n) == IF focus > n THEN n ELSE focus

\* One block of the view: what it shows, its lines, and whether the pass that
\* renders it takes the next stop for it.
Block(what, id, lines, isStop) ==
    [what |-> what, id |-> id, lines |-> lines, isStop |-> isStop]

Chrome(what, lines) == Block(what, 0, lines, FALSE)

\* Mutant: the pass forgets that a claimed task has no priority stop.
HeaderBlocksAlwaysPriority(b, t) ==
    <<Block("title", t, 1, TRUE), Chrome("blank", 1), Chrome("id", 1),
      Chrome("status", 1),
      Block("priority", t, 1, ~ Terminal(b.tasks[t].status)),
      Block("labels", t, 1, ~ Terminal(b.tasks[t].status))>>
    \o If(CancelledDeps(b, t) # {}, Chrome("waiting", 1))
    \o <<Chrome("created", 1)>>

\* The header of the view: the title and the grid of fields.
HeaderBlocks(b, t) ==
    <<Block("title", t, 1, TRUE), Chrome("blank", 1), Chrome("id", 1),
      Chrome("status", 1),
      Block("priority", t, 1, Steerable(TaskRow(b, t, ""))),
      Block("labels", t, 1, ~ Terminal(b.tasks[t].status))>>
    \o If(CancelledDeps(b, t) # {}, Chrome("waiting", 1))
    \o <<Chrome("created", 1)>>

\* A bar and its rows, if there are any.
Section(bar, rows) ==
    IF rows = <<>> THEN <<>>
    ELSE <<Chrome("blank", 1), Chrome(bar, 1)>> \o rows

EscalationBlocks(b, t, expanded) ==
    LET open == DetailEscalations(b, t)
    IN  Section("NEEDS INPUT",
                [i \in DOMAIN open |->
                    Block("escalation", open[i],
                          IF open[i] \in expanded THEN 5 ELSE 3, TRUE)])

EdgeBlocks(b, t) ==
    LET needed == DependentsOf(b, t)
    IN  Section("DEPENDS ON",
                [i \in DOMAIN Deps[t] |->
                    Block("dep", Deps[t][i], 1, Deps[t][i] \in Known(b))])
        \o Section("NEEDED BY",
                   [i \in DOMAIN needed |->
                       Block("neededby", needed[i], 1, TRUE)])

\* detailLines, block by block.
DetailBlocks(b, t, expanded) ==
    IF t \notin Known(b) THEN <<>>
    ELSE HeaderBlocks(b, t) \o EscalationBlocks(b, t, expanded)
         \o EdgeBlocks(b, t)
         \o <<Chrome("blank", 1), Chrome("DESCRIPTION", 1),
              Block("description", t, 2, TRUE),
              Chrome("blank", 1), Chrome("HISTORY", 1), Chrome("history", 3)>>

\* The tag of each screen line: the stop it belongs to, 0 for none.
DetailLines(armed, b, t, expanded) ==
    LET blocks == DetailBlocks(b, t, expanded)
        Tag(i) == IF armed /\ blocks[i].isStop
                  THEN Cardinality({j \in 1 .. i : blocks[j].isStop}) ELSE 0
    IN  FlattenSeq([i \in DOMAIN blocks |->
                       [n \in 1 .. blocks[i].lines |-> Tag(i)]])

\* detailFocusLine.
FocusLine(tags, focus) == SelectInSeq(tags, LAMBDA tag : tag = focus)

\* Mutant: the window is taken for one line taller than it is.
RevealScrollTaller(tags, focus, scroll, window) ==
    LET line == FocusLine(tags, focus)
        up   == Min({scroll, line - 1})
    IN  IF focus = 0 \/ line = 0 THEN scroll
        ELSE IF line > up + window + 1 THEN line - window - 1 ELSE up

\* detailRevealScroll: scroll just enough; "scroll" lines are above the window.
RevealScroll(tags, focus, scroll, window) ==
    LET line == FocusLine(tags, focus)
        up   == Min({scroll, line - 1})
    IN  IF focus = 0 \/ line = 0 THEN scroll
        ELSE IF line > up + window THEN line - window ELSE up

\* detailMaxScroll, and detailView's clamp.
DrawnScroll(tags, scroll, window) ==
    Min({scroll, IF Len(tags) > window THEN Len(tags) - window ELSE 0})

\* detailStopAt: the stop on line y of the window, 0 for none.
StopAt(tags, above, window, y) ==
    IF y < 1 \/ y > window \/ above + y > Len(tags) THEN 0 ELSE tags[above + y]

-----------------------------------------------------------------------------
(* The list: bars, rows and blanks that are never split, and a window over  *)
(* them that holds the cursor.                                              *)
Sections(closed) ==
    IF closed THEN <<"done", "cancelled">>
    ELSE <<"escalations", "ready", "inprogress", "blocked", "held", "inbox">>

Chunk(lines, row) == [lines |-> lines, row |-> row]

\* rowChunk: a title, a meta line unless it is empty, and the question asked or
\* the reason for waiting.
RowLines(b, r) ==
    LET meta == \/ r.section \in {"escalations", "inprogress", "done", "cancelled"}
                \/ Deps[r.task] # <<>>
                \/ b.tasks[r.task].labels # ""
    IN  (IF meta THEN 2 ELSE 1)
        + (IF r.section \in {"escalations", "blocked"} THEN 1 ELSE 0)

\* The bar of a section with its rows, or a placeholder.
SectionChunks(b, rows, section) ==
    LET mine == ById({i \in DOMAIN rows : rows[i].section = section})
    IN  <<Chunk(1, 0)>> \o
        (IF mine = <<>> THEN <<Chunk(1, 0)>>
         ELSE [i \in DOMAIN mine |-> Chunk(RowLines(b, rows[mine[i]]), mine[i])])

\* listChunks, below a note if the daemon is read-only.
ListChunks(degraded, closed, b, rows) ==
    LET sections == Sections(closed)
    IN  (IF degraded THEN <<Chunk(1, 0), Chunk(1, 0)>> ELSE <<>>)
        \o FlattenSeq([i \in DOMAIN sections |->
               If(i > 1, Chunk(1, 0)) \o SectionChunks(b, rows, sections[i])])

LinesThrough(chunks, from, to) ==
    FoldLeft(LAMBDA sum, c : sum + c.lines, 0, SubSeq(chunks, from, to))

\* The first chunk of the window, for a cursor on chunk "at".
WindowStart(chunks, at, avail) ==
    Min({s \in 1 .. at : s = at \/ LinesThrough(chunks, s, at) <= avail})

\* visibleChunks: from where to where.
Visible(chunks, cursor, avail) ==
    LET held  == SelectInSeq(chunks, LAMBDA c : c.row = cursor)
        at    == IF held = 0 THEN 1 ELSE held
        start == WindowStart(chunks, at, avail)
        end   == Max({e \in start .. Len(chunks) :
                        e = start \/ LinesThrough(chunks, start, e) <= avail})
    IN  IF LinesThrough(chunks, 1, Len(chunks)) <= avail
        THEN 1 .. Len(chunks) ELSE start .. end

\* rowAt: the row on line y below the head, 0 for none.
RowAt(chunks, seen, y) ==
    LET held == {i \in seen : y <= LinesThrough(chunks, Min(seen), i)}
    IN  IF held = {} THEN 0 ELSE chunks[Min(held)].row
=============================================================================
