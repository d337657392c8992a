-------------------------------- MODULE Top --------------------------------
(***************************************************************************)
(* The interactive screen of cmd/tuhdoo/top.go: keys, clicks, prompts and  *)
(* the steering writes they send, over snapshots of a board that others    *)
(* change all the time.                                                    *)
(*                                                                         *)
(* Update handles one message at a time and every action of the screen is  *)
(* one message.  A write runs as a command of its own: several may be      *)
(* under way, they may land in any order, and any may fail.  What a key    *)
(* finds on the screen may be an old snapshot.  How snapshots are asked    *)
(* for is the subject of Screen: here one may come in at any time, and be  *)
(* any version later than the one shown.                                   *)
(***************************************************************************)
EXTENDS Board

CONSTANTS
    Texts,    \* what the text fields of a task may hold
    Inputs,   \* what is in the text widget when it is submitted
    Worlds    \* the panes, boards and bounds looked at, one per behaviour

VARIABLES
    world,   \* the pane's arming and the bounds; no step changes them
    story,   \* the boards of the daemon, by version; the last is the ledger
    pane,    \* topModel
    writes   \* the steering writes under way, as they were issued
vars == <<world, story, pane, writes>>

Armed      == world.armed       \* FALSE in watch mode
MaxVersion == world.maxVersion  \* bounds the versions of the board
MaxWrites  == world.maxWrites   \* bounds the writes under way
MaxHops    == world.maxHops     \* bounds the views walked through
Others     == world.others      \* what others do to the board

TextModes  == {"answer", "capture", "title", "labels", "description"}
InputModes == TextModes \cup {"priority", "cancel"}

Fields == {"title", "labels", "description"}

Task ==
    [status : Statuses, claimed : BOOLEAN, prio : Priorities \cup {Unset},
     closed : Nat, title : Texts, labels : Texts, description : Texts]

IsBoard(b) ==
    /\ b = [tasks |-> b.tasks, open |-> b.open, raised |-> b.raised]
    /\ Known(b) \subseteq Tasks
    /\ b.tasks \in [Known(b) -> Task]
    /\ b.open \subseteq b.raised /\ b.raised \subseteq Escalations

\* strings.TrimSpace and splitList, on the texts looked at.
TrimSpace(text) == CASE text = " " -> "" [] text = " new" -> "new"
                     [] OTHER -> text
SplitList(text) == IF text = "o ld" THEN "old" ELSE text

ASSUME TopAssumption ==
    /\ "" \in Texts /\ Inputs \subseteq Texts
    /\ \A text \in Texts : {TrimSpace(text), SplitList(text)} \subseteq Texts
    /\ \A w \in Worlds :
          /\ w.armed \in BOOLEAN
          /\ {w.maxVersion, w.maxWrites, w.maxHops} \subseteq Nat
          /\ w.edits \subseteq Texts
          /\ \A b \in w.boards : IsBoard(b)

Ledger == story[Len(story)]
Now    == Len(story) + 1  \* when the next write is made

\* The snapshot on the screen.
Snap == IF pane.version = 0 THEN NoBoard ELSE story[pane.version]

FirstPane ==
    [version |-> 0, rows |-> <<>>, cursor |-> 1, closed |-> FALSE,
     mode |-> "nav", back |-> "nav", target |-> NoRow, was |-> "",
     rejected |-> FALSE, detail |-> 0, focus |-> 1, hops |-> <<>>,
     expanded |-> {}]

Init ==
    /\ world \in Worlds
    /\ story \in {<<b>> : b \in world.boards}
    /\ pane = FirstPane
    /\ writes = <<>>

-----------------------------------------------------------------------------
(* The board changes under the screen.                                      *)

\* The ledger's next version.
Becomes(b) == Len(story) < MaxVersion /\ story' = Append(story, b)

\* Close metadata follows the status.
WithStatus(b, t, status) ==
    [b EXCEPT !.tasks[t].status = status,
              !.tasks[t].closed =
                  IF ~ Terminal(status) THEN 0
                  ELSE IF status = b.tasks[t].status THEN @ ELSE Now]

Claimed(b, t, claimed) == [b EXCEPT !.tasks[t].claimed = claimed]

\* What anybody else does, agents at work included: each by its own rules.
Elsewhere ==
    LET b == Ledger
    IN  /\ \/ \E t \in Known(b) :
                 \/ /\ "work" \in Others /\ Situation(b, t) = "ready"
                    /\ Becomes(Claimed(b, t, TRUE))
                 \/ /\ "work" \in Others /\ b.tasks[t].claimed
                    /\ \/ Becomes(Claimed(b, t, FALSE))
                       \/ Becomes(Claimed(WithStatus(b, t, "done"), t, FALSE))
                 \/ \E status \in Statuses \cap Others :
                       Becomes(WithStatus(b, t, status))
                 \/ \E f \in Fields, text \in world.edits :
                       Becomes([b EXCEPT !.tasks[t][f] = text])
           \/ \E e \in b.open :
                 /\ "answer" \in Others
                 /\ Becomes([b EXCEPT !.open = @ \ {e}])
           \/ \E e \in Escalations \ b.raised :
                 /\ "ask" \in Others
                 /\ TaskOf[e] \in Known(b) /\ \A f \in b.raised : f < e
                 /\ Becomes([b EXCEPT !.open = @ \cup {e},
                                      !.raised = @ \cup {e}])
        /\ UNCHANGED <<world, pane, writes>>

\* captureTask: a title and the status.
Captured(b, t, title) ==
    [b EXCEPT !.tasks =
        [u \in DOMAIN @ \cup {t} |->
            IF u # t THEN @[u]
            ELSE [status |-> "inbox", claimed |-> FALSE, prio |-> Unset,
                  closed |-> 0, title |-> title, labels |-> "",
                  description |-> ""]]]

\* The request of a write, as the daemon carries it out: whatever the task
\* has become meanwhile.
Applied(b, w) ==
    CASE w.op \in {"status", "cancel"} -> {WithStatus(b, w.id, w.text)}
      [] w.op = "priority" -> {[b EXCEPT !.tasks[w.id].prio = w.num]}
      [] w.op \in Fields -> {[b EXCEPT !.tasks[w.id][w.op] = w.text]}
      [] w.op = "answer" -> {[b EXCEPT !.open = @ \ {w.id}]}
      [] w.op = "capture" ->
            {Captured(b, t, w.text) : t \in
                {u \in Tasks \ Known(b) : \A v \in Known(b) : v < u}}

\* A write lands.
Land ==
    /\ \E i \in DOMAIN writes :
          /\ \E b \in Applied(Ledger, writes[i]) : Becomes(b)
          /\ writes' = RemoveAt(writes, i)
    /\ UNCHANGED <<world, pane>>

\* A write fails, or is refused by a daemon that is read-only or going down.
Lost ==
    /\ \E i \in DOMAIN writes : writes' = RemoveAt(writes, i)
    /\ UNCHANGED <<world, story, pane>>

-----------------------------------------------------------------------------
\* The cursor follows its row, and goes to the top if that has vanished.
CursorOn(rows, sel) ==
    LET i == SelectInSeq(rows, LAMBDA r : RowId(r) = sel)
    IN  IF i = 0 THEN 1 ELSE i

Selected == IF pane.cursor <= Len(pane.rows) THEN {pane.rows[pane.cursor]}
            ELSE {}

\* snapMsg with a snapshot that is not the one shown.
Refresh ==
    /\ \E v \in (pane.version + 1) .. Len(story) :
          LET rows == ActiveRows(pane.closed, story[v])
              sel  == IF Selected = {} THEN <<>>
                      ELSE RowId(pane.rows[pane.cursor])
          IN  pane' = [pane EXCEPT !.version = v, !.rows = rows,
                                   !.cursor = CursorOn(rows, sel)]
    /\ UNCHANGED <<world, story, writes>>

\* A write goes out.
Issue(op, id, text, num) ==
    /\ Len(writes) < MaxWrites
    /\ writes' = Append(writes, [op |-> op, id |-> id, text |-> text,
                                 num |-> num])

\* An input mode opens on row r.
Prompt(mode, r, was) ==
    [pane EXCEPT !.mode = mode, !.back = pane.mode, !.target = r, !.was = was]

\* Mutant: a prompt closes to the list.
ClosePromptToList ==
    [pane EXCEPT !.mode = "nav", !.back = "nav", !.target = NoRow,
                 !.was = "", !.rejected = FALSE]

\* It closes: back to where it was opened.  What it was about is not read
\* again, and forgotten here.
ClosePrompt ==
    [pane EXCEPT !.mode = pane.back, !.back = "nav", !.target = NoRow,
                 !.was = "", !.rejected = FALSE]

-----------------------------------------------------------------------------
(* The list.                                                                *)
Move(i) ==
    /\ pane.mode = "nav"
    /\ i \in DOMAIN pane.rows /\ i # pane.cursor
    /\ pane' = [pane EXCEPT !.cursor = i]
    /\ UNCHANGED <<world, story, writes>>

\* j, k, the wheel, and a click on another row.
MoveCursor == \E i \in DOMAIN pane.rows : Move(i)

\* tab: the list is the other one.
SwitchList ==
    [pane EXCEPT !.closed = ~ @, !.rows = ActiveRows(~ pane.closed, Snap),
                 !.cursor = 1]

ListTab ==
    /\ pane.mode = "nav" /\ pane.version > 0
    /\ pane' = SwitchList
    /\ UNCHANGED <<world, story, writes>>

ListEsc ==
    /\ pane.mode = "nav" /\ pane.closed
    /\ pane' = SwitchList
    /\ UNCHANGED <<world, story, writes>>

\* enter, and a click on the selected row: openRow.
OpenRow ==
    /\ pane.mode = "nav"
    /\ \E r \in Selected :
          LET stops == DetailStops(Armed, Snap, r.task)
              asked == SelectInSeq(stops, LAMBDA s :
                           s.kind = "escalation" /\ s.id = r.esc)
          IN  pane' = [pane EXCEPT !.mode = "detail", !.detail = r.task,
                                   !.hops = <<>>, !.expanded = {},
                                   !.focus = IF asked = 0 THEN 1 ELSE asked]
    /\ UNCHANGED <<world, story, writes>>

\* n: a capture is about no row.
CaptureKey ==
    /\ pane.mode = "nav" /\ Armed /\ ~ pane.closed
    /\ pane' = Prompt("capture", NoRow, "")
    /\ UNCHANGED <<world, story, writes>>

-----------------------------------------------------------------------------
(* Keys of the list and of the view: on the selected task, on the viewed    *)
(* one.                                                                     *)
ViewedTask ==
    IF pane.detail \in Known(Snap) THEN {TaskRow(Snap, pane.detail, "")} ELSE {}

Aimed ==
    CASE pane.mode = "nav"    -> {r \in Selected : r.kind = "task"}
      [] pane.mode = "detail" -> ViewedTask
      [] OTHER                -> {}

\* r, h and i: one write and no confirmation.
MoveStatus(status) ==
    /\ Armed
    /\ \E r \in Aimed :
          /\ Steerable(r) /\ r.status # status
          /\ Issue("status", r.task, status, 0)
    /\ UNCHANGED <<world, story, pane>>

PriorityKey ==
    /\ Armed
    /\ \E r \in Aimed : Steerable(r) /\ pane' = Prompt("priority", r, "")
    /\ UNCHANGED <<world, story, writes>>

\* c stays live on a claim: cancel is how work is taken off a holder.
CancelKey ==
    /\ Armed
    /\ \E r \in Aimed : ~ Terminal(r.status) /\ pane' = Prompt("cancel", r, "")
    /\ UNCHANGED <<world, story, writes>>

\* The keys that footerView advertises under the list.
ListLegend ==
    IF pane.closed THEN {"enter"}
    ELSE {"enter", "tab"} \cup (IF Armed THEN {"move", "p", "c", "n"} ELSE {})

\* detailFooter: under a view; "move" stands for r, h and i.
ViewLegend ==
    IF ~ Armed THEN {}
    ELSE {"enter"} \cup
         (CASE \E r \in ViewedTask : Terminal(r.status) -> {}
            [] \E r \in ViewedTask : ~ Terminal(r.status) /\ r.claimed -> {"c"}
            [] OTHER -> {"move", "p", "c"})

-----------------------------------------------------------------------------
(* The view of a task.                                                      *)
Ring    == DetailStops(Armed, Snap, pane.detail)
Focused == FocusIdx(pane.focus, Len(Ring))

\* esc: to the view the hop came from, or to the list.
DetailEsc ==
    /\ pane.mode = "detail"
    /\ pane' = IF pane.hops # <<>>
               THEN [pane EXCEPT !.detail = Last(pane.hops),
                                 !.hops = Front(pane.hops), !.focus = 1]
               ELSE [pane EXCEPT !.mode = "nav", !.detail = 0, !.focus = 1,
                                 !.expanded = {}]
    /\ UNCHANGED <<world, story, writes>>

\* j and k while there is a further stop, and a click on another stop.
MoveFocus ==
    /\ pane.mode = "detail"
    /\ \E i \in (DOMAIN Ring) \ {Focused} : pane' = [pane EXCEPT !.focus = i]
    /\ UNCHANGED <<world, story, writes>>

\* Opening an editor on the viewed task.
EditStop(kind) ==
    \E r \in ViewedTask :
        pane' = [Prompt(kind, r, IF kind \in Fields
                                 THEN Snap.tasks[r.task][kind] ELSE "")
                 EXCEPT !.focus = Focused]

\* enter, and a click on the focused stop: openStop.
OpenStop ==
    /\ pane.mode = "detail"
    /\ Ring # <<>>
    /\ LET s == Ring[Focused]
       IN  CASE s.kind \in {"dep", "neededby"} ->
                  /\ Len(pane.hops) < MaxHops
                  /\ pane' = [pane EXCEPT !.hops = Append(@, pane.detail),
                                          !.detail = s.id, !.focus = 1]
             [] s.kind = "escalation" ->
                  pane' = [Prompt("answer", EscRow(s.id), "")
                           EXCEPT !.focus = Focused]
             [] OTHER -> EditStop(s.kind)
    /\ UNCHANGED <<world, story, writes>>

\* e: the focused question's context; in watch mode that of every question.
ToggleContext ==
    /\ pane.mode = "detail"
    /\ LET asked == ToSet(DetailEscalations(Snap, pane.detail))
           flips == IF Ring = <<>> THEN asked
                    ELSE {Ring[Focused].id} \cap
                         {e \in asked : Ring[Focused].kind = "escalation"}
       IN  /\ flips # {}
           /\ pane' = [pane EXCEPT !.expanded = SymDiff(@, flips)]
    /\ UNCHANGED <<world, story, writes>>

-----------------------------------------------------------------------------
(* The prompts.                                                             *)
PromptEsc ==
    /\ pane.mode \in InputModes
    /\ pane' = ClosePrompt
    /\ UNCHANGED <<world, story, writes>>

\* pickPriority: a digit sets, - clears.
PickPriority ==
    /\ pane.mode = "priority"
    /\ \E p \in Priorities \cup {Unset} :
          Issue("priority", pane.target.task, "", p)
    /\ pane' = ClosePrompt
    /\ UNCHANGED <<world, story>>

\* submit on y: cancelTask.
ConfirmCancel ==
    /\ pane.mode = "cancel"
    /\ Issue("cancel", pane.target.task, "cancelled", 0)
    /\ pane' = ClosePrompt
    /\ UNCHANGED <<world, story>>

\* What a submitted text would be written as.
Written(mode, text) ==
    CASE mode = "description" -> text
      [] mode = "labels"      -> SplitList(TrimSpace(text))
      [] OTHER                -> TrimSpace(text)

\* An edit that changes nothing is not written.
Unchanged(mode, text) ==
    \/ mode = "description" /\ text = pane.was
    \/ mode \in {"title", "labels"} /\ TrimSpace(text) = pane.was
    \/ /\ mode = "labels"
       /\ Written(mode, text) = Snap.tasks[pane.target.task].labels

Empty(mode, text) ==
    mode \in {"answer", "capture", "title"} /\ TrimSpace(text) = ""

\* Mutant: the write goes to what is selected by now.
TargetNow ==
    IF pane.mode = "answer" THEN DetailStops(Armed, Snap, pane.detail)[
           FocusIdx(pane.focus, Len(DetailStops(Armed, Snap, pane.detail)))].id
    ELSE pane.target.task

Target == IF pane.mode = "answer" THEN pane.target.esc ELSE pane.target.task

\* submit, for a text.
Submit(text) ==
    /\ pane.mode \in TextModes
    /\ \/ /\ Empty(pane.mode, text)
          /\ ~ pane.rejected
          /\ pane' = [pane EXCEPT !.rejected = TRUE]
          /\ UNCHANGED writes
       \/ /\ ~ Empty(pane.mode, text)
          /\ pane' = ClosePrompt
          /\ IF Unchanged(pane.mode, text) THEN UNCHANGED writes
             ELSE Issue(pane.mode, Target, Written(pane.mode, text), 0)
    /\ UNCHANGED <<world, story>>

\* Keys and clicks on a task and its view.  Quitting ends the pane.
User ==
    \/ MoveCursor \/ ListTab \/ ListEsc \/ OpenRow \/ CaptureKey
    \/ \E status \in {"open", "held", "inbox"} : MoveStatus(status)
    \/ PriorityKey \/ CancelKey
    \/ DetailEsc \/ MoveFocus \/ OpenStop \/ ToggleContext
    \/ PromptEsc \/ PickPriority \/ ConfirmCancel
    \/ \E text \in Inputs \cup {pane.was} : Submit(text)

Next == Elsewhere \/ Land \/ Lost \/ Refresh \/ User

Spec == Init /\ [][Next]_vars

-----------------------------------------------------------------------------
IsRow(r) ==
    \/ r = NoRow
    \/ r.kind = "task" /\ r.task \in Tasks
    \/ r.kind = "escalation" /\ r = EscRow(r.esc)

\* Types of all variables; what the modes of the pane have to do with its
\* other fields.
TypeOK ==
    /\ \A n \in DOMAIN story : IsBoard(story[n])
    /\ pane.version \in 0 .. Len(story)
    /\ \A n \in DOMAIN pane.rows : IsRow(pane.rows[n])
    /\ pane.cursor = 1 \/ pane.cursor \in DOMAIN pane.rows
    /\ pane.closed => pane.version > 0
    /\ pane.mode \in {"nav", "detail"} \cup InputModes
    /\ pane.back \in {"nav", "detail"} /\ IsRow(pane.target)
    /\ pane.rejected => pane.mode \in TextModes
    /\ (pane.detail = 0) = (/\ pane.mode # "detail"
                            /\ "nav" \in {pane.mode, pane.back})
    /\ pane.detail = 0 => pane.hops = <<>> /\ pane.expanded = {}
    /\ \A i \in DOMAIN writes : writes[i].op \in {"status"} \cup InputModes

\* Nothing the daemon knows of is missing from the screen: every task of the
\* snapshot has exactly one row on one of the two lists, as the snapshot has
\* it, or waits for an answer alone and is there as its question; every open
\* question has its row.
EveryTaskHasARow ==
    pane.version > 0 =>
        LET lists == pane.rows \o ActiveRows(~ pane.closed, Snap)
            rows  == ToSet(lists)
        IN  /\ Cardinality(rows) = Len(lists)
            /\ \A e \in Snap.open : EscRow(e) \in rows
            /\ \A t \in Known(Snap) :
                  LET mine == {r \in rows : r.kind = "task" /\ r.task = t}
                  IN  \/ /\ mine # {}
                         /\ \E r \in mine :
                               mine = {TaskRow(Snap, t, r.section)}
                      \/ mine = {} /\ Questions(Snap, t) # {}

\* What a screen offers is what it does.  The lines of a view carry the stops
\* of its focus ring, each in its place ("the counter walks detailStops'
\* construction order exactly"), and a picker is among them when its key is
\* live; the legend of a view advertises the live keys and no other, that of
\* the list every live key.
ScreenIsHonest ==
    /\ Armed /\ pane.detail \in Known(Snap) =>
          LET blocks == SelectSeq(
                            DetailBlocks(Snap, pane.detail, pane.expanded),
                            LAMBDA b : b.isStop)
          IN  Ring = [i \in DOMAIN blocks |->
                         Stop(blocks[i].what, blocks[i].id)]
    /\ pane.mode = "detail" =>
          /\ ("p" \in ViewLegend) = (ENABLED PriorityKey)
          /\ ("c" \in ViewLegend) = (ENABLED CancelKey)
          /\ (ENABLED PriorityKey) =
                (\E i \in DOMAIN Ring : Ring[i].kind = "priority")
          /\ (\E to \in {"open", "held", "inbox"} : ENABLED MoveStatus(to)) =>
                "move" \in ViewLegend
    /\ pane.mode = "nav" =>
          /\ ENABLED PriorityKey => "p" \in ListLegend
          /\ ENABLED CancelKey => "c" \in ListLegend
          /\ ENABLED CaptureKey => "n" \in ListLegend
          /\ (\E to \in {"open", "held", "inbox"} : ENABLED MoveStatus(to)) =>
                "move" \in ListLegend

Heights == {7, 12}  \* of the terminals, less the strip of the last action

\* What the next key acts on is on the screen, and a click finds it there: the
\* row under the cursor lies in the list's window, whole if it fits; from
\* wherever a view was scrolled to, moving the focus brings the first line of
\* its stop into sight.
SelectionIsOnScreen ==
    \A height \in Heights :
        /\ pane.detail = 0 /\ pane.rows # <<>> =>
            \A degraded \in BOOLEAN :
              LET chunks == ListChunks(degraded, pane.closed, Snap, pane.rows)
                  avail  == height - 2 - 2
                  seen   == Visible(chunks, pane.cursor, avail)
              IN  /\ \E i \in seen :
                        /\ chunks[i].row = pane.cursor
                        /\ RowAt(chunks, seen,
                                 LinesThrough(chunks, Min(seen), i)) = pane.cursor
                  /\ \/ LinesThrough(chunks, Min(seen), Max(seen)) <= avail
                     \/ Cardinality(seen) = 1
        /\ pane.mode = "detail" /\ Ring # <<>> =>
              LET focus  == Focused
                  tags   == DetailLines(Armed, Snap, pane.detail, pane.expanded)
                  window == height - 2 - 1 - 1
                  line   == FocusLine(tags, focus)
              IN  \A scroll \in 0 .. Len(tags) :
                     LET above == DrawnScroll(tags,
                             RevealScroll(tags, focus, scroll, window), window)
                     IN  StopAt(tags, above, window, line - above) = focus

\* A write is about what was picked.  From a key press it is about the row
\* under the cursor or the task in view; from a prompt, about what the prompt
\* was opened on and names in its box, whatever came in meanwhile.  Refreshing
\* leaves the cursor on its row as long as there is one.  "An unchanged submit
\* writes nothing": who submits an editor as it was opened reverts nothing, even
\* if the field has changed under it (a text that carries surrounding spaces
\* apart: it is written back trimmed).  And "a watch pane never writes", nor
\* takes input.
WritesWhatWasPicked ==
    [][ /\ Len(writes') > Len(writes) =>
              LET w == Last(writes')
              IN  \/ /\ pane.mode \in InputModes
                     /\ w.op = pane.mode
                     /\ w.id = IF w.op = "answer" THEN pane.target.esc
                               ELSE pane.target.task
                  \/ w.op = "status" /\ \E r \in Aimed : w.id = r.task
        /\ pane'.mode \in InputModes /\ pane.mode = pane'.mode =>
              pane'.target = pane.target
        /\ pane'.version # pane.version =>
              \A r \in Selected, q \in ToSet(pane'.rows) :
                  RowId(q) = RowId(r) =>
                      RowId(pane'.rows[pane'.cursor]) = RowId(r)
        /\ TrimSpace(pane.was) = pane.was /\ Submit(pane.was) =>
              UNCHANGED writes
        /\ ~ Armed => writes' = <<>> /\ pane'.mode \in {"nav", "detail"}
      ]_vars
=============================================================================
