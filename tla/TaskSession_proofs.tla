------------------------- MODULE TaskSession_proofs -------------------------
(***************************************************************************)
(* The types of TaskSession, that a stop that has succeeded leaves the     *)
(* task without a session, and that a turn does not end for the user while *)
(* its agents and workflow runs are at work, for any numbers of processes, *)
(* replies, stops, agents and runs.  The manager's methods are functions   *)
(* on a record of what they change; what each of them keeps is a lemma,    *)
(* and an action keeps what the methods it is composed of keep.            *)
(***************************************************************************)
EXTENDS TaskSession, TLAPS

Row    == [status : Status, needsInput : BOOLEAN, mark : BOOLEAN, pid : Pids \cup {None}]
Entry  == [closing : BOOLEAN, agents : SUBSET Agents, runs : SUBSET Runs,
           terminalizing : SUBSET Runs, pending : BOOLEAN, deferred : BOOLEAN,
           completed : BOOLEAN]
Kid    == {"unused", "up", "exiting", "dead", "closed"}
Claude == [owes : BOOLEAN, doing : SUBSET Work, unwatched : SUBSET Work]

\* What the methods work on.
WorldType ==
    [row : Row, live : Pids \cup {None}, waiting : BOOLEAN,
     entry : [Pids -> Entry], kid : [Pids -> Kid], claude : [Pids -> Claude]]

\* A method leaves the mark of a stop alone, and under the mark it neither registers a
\* session nor records a process.
UnderMark(m, n) ==
    /\ n.row.mark = m.row.mark
    /\ m.row.mark => n.live \in {m.live, None} /\ n.row.pid \in {m.row.pid, None}

\* It adds no workflow run to the books, and sets none going.
NoNewRuns(m, n) ==
    \A p \in Pids : /\ n.entry[p].runs \subseteq m.entry[p].runs
                    /\ n.entry[p].terminalizing \subseteq m.entry[p].terminalizing
                    /\ n.claude[p].doing \cap Runs \subseteq m.claude[p].doing

Gentle(m, n) == n \in WorldType /\ UnderMark(m, n) /\ NoNewRuns(m, n)

-----------------------------------------------------------------------------
(***************************************************************************)
(* The methods                                                             *)
(***************************************************************************)

LEMMA GentleIsReflexive ==
    ASSUME NEW m \in WorldType
    PROVE  Gentle(m, m)
BY DEF Gentle, UnderMark, NoNewRuns

LEMMA GentleIsTransitive ==
    ASSUME NEW l, NEW m, NEW n, Gentle(l, m), Gentle(m, n)
    PROVE  Gentle(l, n)
<1>1. n \in WorldType
  BY DEF Gentle
<1>2. UnderMark(l, n)
  BY DEF Gentle, UnderMark
<1>3. NoNewRuns(l, n)
  BY DEF Gentle, NoNewRuns
<1> QED
  BY <1>1, <1>2, <1>3 DEF Gentle

LEMMA FlagsTyped ==
    ASSUME NEW m \in WorldType, NEW b \in BOOLEAN
    PROVE  /\ Gentle(m, [m EXCEPT !.waiting = b])
           /\ Gentle(m, [m EXCEPT !.row.needsInput = b])
           /\ Gentle(m, [m EXCEPT !.row.pid = None])
           /\ Gentle(m, [m EXCEPT !.live = None])
BY DEF Gentle, UnderMark, NoNewRuns, WorldType, Row

LEMMA TerminatedTyped ==
    ASSUME NEW m \in WorldType, NEW p \in Pids \cup {None}
    PROVE  Gentle(m, Terminated(m, p))
BY DEF Terminated, Gentle, UnderMark, NoNewRuns, WorldType, Kid

LEMMA StorePidTyped ==
    ASSUME NEW m \in WorldType, NEW p \in Pids \cup {None}
    PROVE  Gentle(m, StorePid(m, p))
BY DEF StorePid, Gentle, UnderMark, NoNewRuns, WorldType, Row

LEMMA StatusSetTyped ==
    ASSUME NEW m \in WorldType, NEW s \in Status, NEW b \in BOOLEAN
    PROVE  Gentle(m, StatusSet(m, s, b))
BY DEF StatusSet, Gentle, UnderMark, NoNewRuns, WorldType, Row

LEMMA BusyTyped ==
    ASSUME NEW m \in WorldType
    PROVE  Gentle(m, Busy(m))
BY StatusSetTyped DEF Busy, Status

\* The entry of a session is replaced by one with no more runs on its books.
LEMMA EntryTyped ==
    ASSUME NEW m \in WorldType, NEW p \in Pids, NEW e \in Entry,
           e.runs \subseteq m.entry[p].runs,
           e.terminalizing \subseteq m.entry[p].terminalizing
    PROVE  Gentle(m, [m EXCEPT !.entry[p] = e])
BY DEF Gentle, UnderMark, NoNewRuns, WorldType

\* What Claude does is replaced, with no workflow run added.
LEMMA ClaudeTyped ==
    ASSUME NEW m \in WorldType, NEW p \in Pids, NEW c \in Claude,
           c.doing \cap Runs \subseteq m.claude[p].doing
    PROVE  Gentle(m, [m EXCEPT !.claude[p] = c])
BY DEF Gentle, UnderMark, NoNewRuns, WorldType

LEMMA ClosingTyped ==
    ASSUME NEW m \in WorldType, NEW p \in Pids
    PROVE  Gentle(m, [m EXCEPT !.entry[p].closing = TRUE])
BY DEF Gentle, UnderMark, NoNewRuns, WorldType, Entry

LEMMA AgentsTyped ==
    ASSUME NEW m \in WorldType, NEW p \in Pids, NEW a \in SUBSET Agents
    PROVE  Gentle(m, [m EXCEPT !.entry[p].agents = a])
<1> DEFINE e == [m.entry[p] EXCEPT !.agents = a]
<1>1. /\ e \in Entry /\ e.runs = m.entry[p].runs
      /\ e.terminalizing = m.entry[p].terminalizing
  BY DEF WorldType, Entry
<1>2. [m EXCEPT !.entry[p].agents = a] = [m EXCEPT !.entry[p] = e]
  BY DEF WorldType
<1> HIDE DEF e
<1> QED
  BY <1>1, <1>2, EntryTyped

LEMMA DeferralTyped ==
    ASSUME NEW m \in WorldType, NEW p \in Pids, NEW b \in BOOLEAN, NEW c \in BOOLEAN
    PROVE  Gentle(m, [m EXCEPT !.entry[p].deferred = b, !.entry[p].pending = c])
<1> DEFINE e == [m.entry[p] EXCEPT !.deferred = b, !.pending = c]
<1>1. /\ e \in Entry /\ e.runs = m.entry[p].runs
      /\ e.terminalizing = m.entry[p].terminalizing
  BY DEF WorldType, Entry
<1>2. [m EXCEPT !.entry[p].deferred = b, !.entry[p].pending = c] = [m EXCEPT !.entry[p] = e]
  BY DEF WorldType
<1> HIDE DEF e
<1> QED
  BY <1>1, <1>2, EntryTyped

LEMMA LiveClosedTyped ==
    ASSUME NEW m \in WorldType
    PROVE  Gentle(m, LiveClosed(m))
<1>1. CASE m.live = None
  BY <1>1, GentleIsReflexive DEF LiveClosed
<1>2. CASE m.live # None
  <2> DEFINE c == [m EXCEPT !.entry[m.live].closing = TRUE]
             t == Terminated(c, m.live)
  <2>1. m.live \in Pids
    BY <1>2 DEF WorldType
  <2>2. Gentle(m, c)
    BY <2>1, ClosingTyped
  <2>3. Gentle(c, t)
    BY <2>1, <2>2, TerminatedTyped DEF Gentle
  <2>4. Gentle(t, [t EXCEPT !.live = None])
    BY <2>3, FlagsTyped DEF Gentle
  <2>5. LiveClosed(m) = [t EXCEPT !.live = None]
    BY <1>2 DEF LiveClosed
  <2> QED
    BY <2>2, <2>3, <2>4, <2>5, GentleIsTransitive
<1> QED
  BY <1>1, <1>2

LEMMA StopSessionTyped ==
    ASSUME NEW m \in WorldType
    PROVE  Gentle(m, StopSession(m))
<1> DEFINE c == LiveClosed(m)
           w == [c EXCEPT !.waiting = FALSE]
<1>1. Gentle(m, c)
  BY LiveClosedTyped
<1>2. Gentle(c, w)
  BY <1>1, FlagsTyped DEF Gentle
<1>3. Gentle(w, [w EXCEPT !.row.pid = None])
  BY <1>2, FlagsTyped DEF Gentle
<1>4. StopSession(m) = [w EXCEPT !.row.pid = None]
  BY DEF StopSession
<1> QED
  BY <1>1, <1>2, <1>3, <1>4, GentleIsTransitive

LEMMA HandleTaskErrorTyped ==
    ASSUME NEW m \in WorldType
    PROVE  Gentle(m, HandleTaskError(m))
<1>1. CASE m.row.mark
  BY <1>1, GentleIsReflexive DEF HandleTaskError
<1>2. CASE ~m.row.mark
  <2> DEFINE s == StatusSet(m, "review", TRUE)
             t == StopSession(s)
  <2>1. Gentle(m, s)
    BY StatusSetTyped DEF Status
  <2>2. Gentle(s, t)
    BY <2>1, StopSessionTyped DEF Gentle
  <2>3. Gentle(t, [t EXCEPT !.waiting = TRUE])
    BY <2>2, FlagsTyped DEF Gentle
  <2>4. HandleTaskError(m) = [t EXCEPT !.waiting = TRUE]
    BY <1>2 DEF HandleTaskError
  <2> QED
    BY <2>1, <2>2, <2>3, <2>4, GentleIsTransitive
<1> QED
  BY <1>1, <1>2

LEMMA HandleLostLiveSessionTyped ==
    ASSUME NEW m \in WorldType
    PROVE  Gentle(m, HandleLostLiveSession(m))
<1>1. CASE m.row.mark
  BY <1>1, GentleIsReflexive DEF HandleLostLiveSession
<1>2. CASE ~m.row.mark
  <2> DEFINE c == LiveClosed(m)
             s == StatusSet(c, "review", TRUE)
             w == [s EXCEPT !.waiting = TRUE]
  <2>1. Gentle(m, c)
    BY LiveClosedTyped
  <2>2. Gentle(c, s)
    BY <2>1, StatusSetTyped DEF Gentle, Status
  <2>3. Gentle(s, w)
    BY <2>2, FlagsTyped DEF Gentle
  <2>4. Gentle(w, [w EXCEPT !.row.pid = None])
    BY <2>3, FlagsTyped DEF Gentle
  <2>5. HandleLostLiveSession(m) = [w EXCEPT !.row.pid = None]
    BY <1>2 DEF HandleLostLiveSession
  <2> QED
    BY <2>1, <2>2, <2>3, <2>4, <2>5, GentleIsTransitive
<1> QED
  BY <1>1, <1>2

LEMMA CleanBooksTyped ==
    ASSUME NEW m \in WorldType, NEW p \in Pids
    PROVE  Gentle(m, CleanBooks(m, p))
<1> DEFINE e == [NewEntry EXCEPT !.closing = m.entry[p].closing]
<1>1. e \in Entry /\ e.runs = {} /\ e.terminalizing = {}
  BY DEF NewEntry, Entry, WorldType
<1> HIDE DEF e
<1>2. Gentle(m, [m EXCEPT !.entry[p] = e])
  BY <1>1, EntryTyped
<1> QED
  BY <1>2 DEF CleanBooks, e

LEMMA NextTurnTyped ==
    ASSUME NEW m \in WorldType, NEW p \in Pids
    PROVE  Gentle(m, NextTurn(m, p))
<1> DEFINE b == CleanBooks(m, p)
           c == [b.claude[p] EXCEPT !.owes = TRUE, !.unwatched = m.claude[p].doing]
<1>1. Gentle(m, b)
  BY CleanBooksTyped
<1>2. b.claude = m.claude /\ b \in WorldType
  BY <1>1 DEF CleanBooks, WorldType, Gentle
<1>3. c \in Claude /\ c.doing = b.claude[p].doing
  BY <1>2 DEF WorldType, Claude
<1>4. NextTurn(m, p) = [b EXCEPT !.claude[p] = c]
  BY <1>2 DEF NextTurn, WorldType
<1> HIDE DEF b, c
<1>5. Gentle(b, [b EXCEPT !.claude[p] = c])
  BY <1>2, <1>3, ClaudeTyped
<1> QED
  BY <1>1, <1>4, <1>5, GentleIsTransitive

\* A spawn may register a session, but only if the task is not being stopped.
LEMMA SpawnTyped ==
    ASSUME NEW m \in WorldType, NEW n \in SpawnClaudeTurn(m)
    PROVE  Gentle(m, n)
<1> DEFINE unused  == {p \in Pids : m.kid[p] = "unused"}
           p       == CHOOSE q \in unused : TRUE
           up      == [m EXCEPT !.live = p, !.kid[p] = "up"]
           turn    == NextTurn(up, p)
           started == StorePid(turn, p)
<1>1. CASE ~SpawnAllowed(m)
  BY <1>1, GentleIsReflexive DEF SpawnClaudeTurn
<1>2. CASE n = HandleTaskError(m)
  BY <1>2, HandleTaskErrorTyped
<1>3. CASE /\ SpawnAllowed(m) /\ unused # {}
           /\ n \in {started, HandleLostLiveSession(started)}
  <2>1. p \in Pids
    BY <1>3
  <2> HIDE DEF p
  <2>2. Gentle(m, up)
    BY <1>3, <2>1
    DEF SpawnAllowed, Gentle, UnderMark, NoNewRuns, WorldType, Kid
  <2>3. Gentle(up, turn)
    BY <2>1, <2>2, NextTurnTyped DEF Gentle
  <2>4. Gentle(turn, started)
    BY <2>1, <2>3, StorePidTyped DEF Gentle
  <2>5. Gentle(m, started) /\ started \in WorldType
    BY <2>2, <2>3, <2>4, GentleIsTransitive DEF Gentle
  <2> HIDE DEF started
  <2>6. Gentle(started, HandleLostLiveSession(started))
    BY <2>5, HandleLostLiveSessionTyped
  <2> QED
    BY <1>3, <2>5, <2>6, GentleIsTransitive
<1>4. \/ ~SpawnAllowed(m)
      \/ n = HandleTaskError(m)
      \/ SpawnAllowed(m) /\ unused # {} /\ n \in {started, HandleLostLiveSession(started)}
  BY DEF SpawnClaudeTurn
<1> QED
  BY <1>1, <1>2, <1>3, <1>4

LEMMA AimedTyped ==
    ASSUME NEW m \in WorldType
    PROVE  Gentle(m, Aimed(m)) /\ TargetOf(m) \in Pids \cup {None}
<1> DEFINE c == IF m.live = None THEN m ELSE [m EXCEPT !.entry[m.live].closing = TRUE]
<1>1. TargetOf(m) \in Pids \cup {None}
  BY DEF TargetOf, WorldType, Row
<1>2. Gentle(m, c)
  BY ClosingTyped, GentleIsReflexive DEF WorldType
<1>3. Aimed(m) = Terminated(c, TargetOf(m))
  BY DEF Aimed, TargetOf
<1> HIDE DEF c
<1>4. Gentle(c, Terminated(c, TargetOf(m)))
  BY <1>1, <1>2, TerminatedTyped DEF Gentle
<1> QED
  BY <1>1, <1>2, <1>3, <1>4, GentleIsTransitive

\* The end of a turn, of a session or of none.
LEMMA HandleTurnCompleteTyped ==
    ASSUME NEW m \in WorldType, NEW question \in BOOLEAN, openAgents \subseteq Agents
    PROVE  Gentle(m, HandleTurnComplete(m, question))
<1> DEFINE s       == m.live
           agents  == IF s # None /\ m.entry[s].agents # {} THEN openAgents ELSE {}
           checked == IF s = None THEN m ELSE [m EXCEPT !.entry[s].agents = agents]
           settled == IF s = None THEN m
                      ELSE [checked EXCEPT !.entry[s].deferred = FALSE, !.entry[s].pending = FALSE]
           waits   == /\ m.entry[s].runs = {}
                      /\ m.entry[s].terminalizing # {}
                      /\ agents = {}
           put     == [checked EXCEPT !.entry[s].deferred = TRUE, !.entry[s].pending = waits]
           pending == s # None /\ PendingWork(checked.entry[s]) # {}
<1>1. s \in Pids \cup {None}
  BY DEF WorldType
<1>2. agents \subseteq Agents
  OBVIOUS
<1> HIDE DEF agents
<1>3. Gentle(m, checked)
  BY <1>1, <1>2, GentleIsReflexive, AgentsTyped
<1>4. checked \in WorldType
  BY <1>3 DEF Gentle
<1> HIDE DEF checked
<1>5. Gentle(m, settled)
  <2>1. CASE s = None
    BY <2>1, GentleIsReflexive
  <2>2. CASE s # None
    <3>1. Gentle(checked, settled)
      BY <1>1, <1>4, <2>2, DeferralTyped
    <3> QED
      BY <1>3, <3>1, GentleIsTransitive
  <2> QED
    BY <2>1, <2>2
<1>6. CASE m.row.mark
  BY <1>6, GentleIsReflexive DEF HandleTurnComplete
<1>7. CASE ~m.row.mark /\ m.row.status = "done"
  BY <1>7, StopSessionTyped DEF HandleTurnComplete
<1>8. CASE ~m.row.mark /\ m.row.status # "done" /\ pending
  <2>1. waits \in BOOLEAN
    OBVIOUS
  <2>2. HandleTurnComplete(m, question) = StorePid(StatusSet(put, "running", FALSE), s)
    BY <1>8 DEF HandleTurnComplete, agents, checked
  <2> HIDE DEF waits
  <2>3. Gentle(checked, put)
    BY <1>1, <1>4, <1>8, <2>1, DeferralTyped
  <2>4. Gentle(m, put) /\ put \in WorldType
    BY <1>3, <2>3, GentleIsTransitive DEF Gentle
  <2> HIDE DEF put
  <2>5. Gentle(put, StatusSet(put, "running", FALSE))
    BY <2>4, StatusSetTyped DEF Status
  <2>6. Gentle(m, StatusSet(put, "running", FALSE))
    BY <2>4, <2>5, GentleIsTransitive
  <2>7. Gentle(StatusSet(put, "running", FALSE), StorePid(StatusSet(put, "running", FALSE), s))
    BY <1>1, <2>5, StorePidTyped DEF Gentle
  <2> QED
    BY <2>2, <2>6, <2>7, GentleIsTransitive
<1>9. CASE ~m.row.mark /\ m.row.status # "done" /\ ~pending /\ ~subtask
  <2> DEFINE r == StatusSet(settled, "review", TRUE)
             w == [r EXCEPT !.waiting = TRUE]
  <2>1. HandleTurnComplete(m, question) = StorePid(w, s)
    BY <1>9 DEF HandleTurnComplete, agents, checked
  <2> HIDE DEF settled
  <2>2. Gentle(settled, r)
    BY <1>5, StatusSetTyped DEF Gentle, Status
  <2>3. Gentle(r, w)
    BY <2>2, FlagsTyped DEF Gentle
  <2>4. Gentle(w, StorePid(w, s))
    BY <1>1, <2>3, StorePidTyped DEF Gentle
  <2> QED
    BY <1>5, <2>1, <2>2, <2>3, <2>4, GentleIsTransitive
<1>10. CASE /\ ~m.row.mark /\ m.row.status # "done" /\ ~pending
            /\ subtask /\ question /\ s # None
  <2> DEFINE r == [settled EXCEPT !.row.needsInput = TRUE]
             w == [r EXCEPT !.waiting = TRUE]
  <2>1. HandleTurnComplete(m, question) = StorePid(w, s)
    BY <1>10 DEF HandleTurnComplete, agents, checked
  <2> HIDE DEF settled
  <2>2. Gentle(settled, r)
    BY <1>5, FlagsTyped DEF Gentle
  <2>3. Gentle(r, w)
    BY <2>2, FlagsTyped DEF Gentle
  <2>4. Gentle(w, StorePid(w, s))
    BY <1>1, <2>3, StorePidTyped DEF Gentle
  <2> QED
    BY <1>5, <2>1, <2>2, <2>3, <2>4, GentleIsTransitive
<1>11. CASE /\ ~m.row.mark /\ m.row.status # "done" /\ ~pending
            /\ subtask /\ ~(question /\ s # None)
  <2> DEFINE r == StatusSet(settled, "review", TRUE)
  <2>1. HandleTurnComplete(m, question) = StopSession(r)
    BY <1>11 DEF HandleTurnComplete, agents, checked
  <2> HIDE DEF settled
  <2>2. Gentle(settled, r)
    BY <1>5, StatusSetTyped DEF Gentle, Status
  <2>3. Gentle(r, StopSession(r))
    BY <2>2, StopSessionTyped DEF Gentle
  <2> QED
    BY <1>5, <2>1, <2>2, <2>3, GentleIsTransitive
<1> QED
  BY <1>6, <1>7, <1>8, <1>9, <1>10, <1>11

-----------------------------------------------------------------------------
(***************************************************************************)
(* The invariant                                                           *)
(***************************************************************************)

RunState   == [at : {"none", "opening", "observed", "failed", "finalizing", "terminal"},
               owner : Pids \cup {None}]
ReplyState == [at : {"idle", "checking", "cleared", "sending", "waking", "resuming"},
               marked : BOOLEAN]
KillState  == [at : {"idle", "journals", "killing", "finishing", "failed"},
               stop : BOOLEAN, target : Pids \cup {None}, runs : SUBSET Runs]

RequestTypes ==
    /\ exec \in {"off", "checking", "starting"}
    /\ openAgents \subseteq Agents
    /\ run \in [Runs -> RunState]
    /\ reply \in [Replies -> ReplyState]
    /\ kill \in [Kills -> KillState]
    /\ todo \subseteq Replies \cup Kills \cup Work \cup {"queue"}
    /\ subtask \in BOOLEAN

\* A run is active or terminalizing, not both.
BooksDisjoint == \A p \in Pids : entry[p].runs \cap entry[p].terminalizing = {}

\* A run that has yet to be launched is not at work, and cannot be terminalizing.
Unlaunched ==
    \A w \in todo \cap Runs, p \in Pids : w \notin claude[p].doing /\ w \notin entry[p].terminalizing

\* A marked task has neither a session nor a recorded process, unless the kill that
\* takes them away is still to come, or has failed.
Clear == live = None /\ row.pid = None
KillAhead(k) == kill[k].at \in {"journals", "killing", "failed"}
MarkIsHeld == row.mark => Clear \/ \E k \in Kills : KillAhead(k)

SessionInv ==
    /\ World \in WorldType
    /\ RequestTypes
    /\ BooksDisjoint
    /\ Unlaunched
    /\ MarkIsHeld

LEMMA WorldIsTyped ==
    World \in WorldType <=>
        /\ row \in Row /\ live \in Pids \cup {None} /\ waiting \in BOOLEAN
        /\ entry \in [Pids -> Entry] /\ kid \in [Pids -> Kid] /\ claude \in [Pids -> Claude]
BY DEF World, WorldType

LEMMA InvTypes == SessionInv => TypeOK
BY WorldIsTyped
DEF SessionInv, TypeOK, RequestTypes, BooksDisjoint, Row, Entry, Kid, Claude,
    RunState, ReplyState, KillState

\* What a method leaves of the invariant when the requests stay or advance, provided that
\* the marked task keeps its kill.
LEMMA MethodKeeps ==
    ASSUME SessionInv, NEW n, Gentle(World, n), Becomes(n),
           RequestTypes', todo' \subseteq todo,
           \A k \in Kills : KillAhead(k) => KillAhead(k)' \/ Clear'
    PROVE  SessionInv'
<1>1. World' = n
  <2>1. n \in WorldType
    BY DEF Gentle
  <2> QED
    BY <2>1 DEF World, Becomes, WorldType
<1>2. World' \in WorldType
  BY <1>1 DEF Gentle
<1>3. BooksDisjoint' /\ Unlaunched'
  BY DEF SessionInv, BooksDisjoint, Unlaunched, Gentle, NoNewRuns, Becomes, World
<1>4. MarkIsHeld'
  <2> SUFFICES ASSUME row'.mark
               PROVE  Clear' \/ \E k \in Kills : KillAhead(k)'
    BY DEF MarkIsHeld
  <2>1. /\ row.mark /\ live' \in {live, None} /\ row'.pid \in {row.pid, None}
    BY DEF Gentle, UnderMark, Becomes, World
  <2>2. Clear \/ \E k \in Kills : KillAhead(k)
    BY <2>1 DEF SessionInv, MarkIsHeld
  <2> QED
    BY <2>1, <2>2 DEF Clear
<1> QED
  BY <1>2, <1>3, <1>4 DEF SessionInv

\* A step that touches none of what the methods work on but the row, which it leaves typed
\* and unmarked, or marked with nothing recorded.
LEMMA RowKeeps ==
    ASSUME SessionInv, KeepsWorld, row' \in Row,
           row'.mark => row.mark /\ row'.pid \in {row.pid, None},
           RequestTypes', todo' \subseteq todo,
           \A k \in Kills : KillAhead(k) => KillAhead(k)' \/ Clear'
    PROVE  SessionInv'
<1>1. World' \in WorldType
  BY WorldIsTyped DEF KeepsWorld, SessionInv, World, WorldType
<1>2. BooksDisjoint' /\ Unlaunched'
  BY DEF SessionInv, BooksDisjoint, Unlaunched, KeepsWorld
<1>3. MarkIsHeld'
  BY DEF SessionInv, MarkIsHeld, KeepsWorld, Clear
<1> QED
  BY <1>1, <1>2, <1>3 DEF SessionInv

LEMMA InvInit == Init => SessionInv
<1> SUFFICES ASSUME Init PROVE SessionInv
  OBVIOUS
<1>1. World \in WorldType
  BY WorldIsTyped DEF Init, Row, Status, Entry, NewEntry, Kid, Claude, Resting
<1>2. RequestTypes
  BY SessionAssumption
  DEF Init, RequestTypes, RunState, ReplyState, KillState, NoReply, NoKill, Work
<1>3. BooksDisjoint /\ Unlaunched /\ MarkIsHeld
  BY DEF Init, BooksDisjoint, Unlaunched, MarkIsHeld, NewEntry, Resting
<1> QED
  BY <1>1, <1>2, <1>3 DEF SessionInv

-----------------------------------------------------------------------------
(***************************************************************************)
(* The actions                                                             *)
(***************************************************************************)

LEMMA StartKeeps ==
    ASSUME SessionInv, Queue \/ ExecuteClaims \/ ExecuteSpawns \/ ExecuteFails
    PROVE  SessionInv'
<1>0. World \in WorldType /\ RequestTypes
  BY DEF SessionInv
<1>1. CASE Queue
  <2>1. row' \in Row /\ ~row'.mark /\ RequestTypes' /\ todo' \subseteq todo
    BY <1>0, <1>1, WorldIsTyped DEF Queue, Row, Status, RequestTypes
  <2> QED
    BY <1>1, <2>1, RowKeeps DEF Queue, KeepsWorld, KillAhead
<1>2. CASE ExecuteClaims
  <2>1. row' \in Row /\ row'.mark = row.mark /\ row'.pid = row.pid
    BY <1>0, <1>2, WorldIsTyped DEF ExecuteClaims, Row, Status
  <2>2. RequestTypes' /\ todo' \subseteq todo
    BY <1>0, <1>2 DEF ExecuteClaims, RequestTypes
  <2> QED
    BY <1>2, <2>1, <2>2, RowKeeps DEF ExecuteClaims, KeepsWorld, KillAhead
<1>3. CASE ExecuteSpawns
  <2>1. PICK n \in SpawnClaudeTurn(World) : Becomes(n)
    BY <1>3 DEF ExecuteSpawns
  <2>2. Gentle(World, n)
    BY <1>0, SpawnTyped
  <2>3. RequestTypes' /\ todo' \subseteq todo
    BY <1>0, <1>3 DEF ExecuteSpawns, RequestTypes
  <2> QED
    BY <1>3, <2>1, <2>2, <2>3, MethodKeeps DEF ExecuteSpawns, KillAhead
<1>4. CASE ExecuteFails
  <2>1. Gentle(World, HandleTaskError(World))
    BY <1>0, HandleTaskErrorTyped
  <2>2. RequestTypes' /\ todo' \subseteq todo
    BY <1>0, <1>4 DEF ExecuteFails, RequestTypes
  <2> QED
    BY <1>4, <2>1, <2>2, MethodKeeps DEF ExecuteFails, KillAhead
<1> QED
  BY <1>1, <1>2, <1>3, <1>4

LEMMA ReplyKeeps ==
    ASSUME SessionInv, NEW r \in Replies, ReplyArrives(r) \/ ReplyStep(r)
    PROVE  SessionInv'
<1>0. World \in WorldType /\ RequestTypes
  BY DEF SessionInv
<1>1. CASE ReplyArrives(r)
  <2>1. RequestTypes' /\ todo' \subseteq todo
    <3>1. [at |-> "checking", marked |-> row.mark] \in ReplyState
      BY <1>0, WorldIsTyped DEF Row, ReplyState
    <3> QED
      BY <1>0, <1>1, <3>1 DEF ReplyArrives, KeepsWorld, RequestTypes
  <2> QED
    BY <1>0, <1>1, <2>1, WorldIsTyped, RowKeeps DEF ReplyArrives, KillAhead
<1>2. ASSUME ReplyStep(r)
      PROVE  RequestTypes' /\ todo' \subseteq todo /\ kill' = kill
  <2>1. reply' \in [Replies -> ReplyState]
    <3>1. \E at \in {"idle", "checking", "cleared", "sending", "waking", "resuming"} :
             ReplyGoes(r, at)
      BY <1>2 DEF ReplyStep, ReplyClears, ReplyRefused, ReplyAccepted, ReplySent,
                  ReplyRestarts, ReplyResumes, ReplyContinues
    <3> QED
      BY <1>0, <3>1 DEF ReplyGoes, NoReply, ReplyState, RequestTypes
  <2>2. UNCHANGED <<exec, openAgents, run, kill, todo, subtask>>
    BY <1>2 DEF ReplyStep, ReplyClears, ReplyRefused, ReplyAccepted, ReplySent,
                ReplyRestarts, ReplyResumes, ReplyContinues
  <2> QED
    BY <1>0, <2>1, <2>2 DEF RequestTypes
<1>3. CASE ReplyClears(r)
  <2>1. row' \in Row /\ (row'.mark => row.mark) /\ row'.pid = row.pid
    BY <1>0, <1>3, WorldIsTyped DEF ReplyClears, Row
  <2> QED
    BY <1>2, <1>3, <2>1, RowKeeps DEF ReplyStep, ReplyClears, KillAhead
<1>4. CASE ReplyRefused(r)
  <2>1. row' = row /\ KeepsWorld
    BY <1>4 DEF ReplyRefused
  <2> QED
    BY <1>0, <1>2, <1>4, <2>1, WorldIsTyped, RowKeeps DEF ReplyStep, KillAhead
<1>5. CASE ReplyAccepted(r)
  <2>1. row' \in Row /\ row'.mark = row.mark /\ row'.pid = row.pid
    BY <1>0, <1>5, WorldIsTyped DEF ReplyAccepted, Row, Status
  <2> QED
    BY <1>2, <1>5, <2>1, RowKeeps DEF ReplyStep, ReplyAccepted, KillAhead
<1>6. CASE ReplySent(r)
  <2>1. CASE /\ live # None
             /\ Becomes(StorePid([NextTurn(World, live) EXCEPT !.waiting = FALSE], live))
    <3> DEFINE t == NextTurn(World, live)
               w == [t EXCEPT !.waiting = FALSE]
    <3>1. live \in Pids
      BY <1>0, <2>1, WorldIsTyped
    <3>2. Gentle(World, t)
      BY <1>0, <3>1, NextTurnTyped
    <3>3. Gentle(t, w)
      BY <3>2, FlagsTyped DEF Gentle
    <3>4. Gentle(w, StorePid(w, live))
      BY <3>1, <3>3, StorePidTyped DEF Gentle
    <3> QED
      BY <1>2, <1>6, <2>1, <3>2, <3>3, <3>4, GentleIsTransitive, MethodKeeps
      DEF ReplyStep, KillAhead
  <2>2. CASE live # None /\ Becomes(StopSession(CleanBooks(World, live)))
    <3> DEFINE b == CleanBooks(World, live)
    <3>1. live \in Pids
      BY <1>0, <2>2, WorldIsTyped
    <3>2. Gentle(World, b)
      BY <1>0, <3>1, CleanBooksTyped
    <3>3. Gentle(b, StopSession(b))
      BY <3>2, StopSessionTyped DEF Gentle
    <3> QED
      BY <1>2, <1>6, <2>2, <3>2, <3>3, GentleIsTransitive, MethodKeeps DEF ReplyStep, KillAhead
  <2>3. CASE UNCHANGED row /\ KeepsWorld
    BY <1>0, <1>2, <1>6, <2>3, WorldIsTyped, RowKeeps DEF ReplyStep, KillAhead
  <2> QED
    BY <1>6, <2>1, <2>2, <2>3 DEF ReplySent
<1>7. CASE ReplyRestarts(r)
  <2>1. PICK n \in SpawnClaudeTurn(StopSession(World)) : Becomes(n)
    BY <1>7 DEF ReplyRestarts
  <2>2. Gentle(World, StopSession(World))
    BY <1>0, StopSessionTyped
  <2>3. Gentle(StopSession(World), n)
    BY <2>1, <2>2, SpawnTyped DEF Gentle
  <2> QED
    BY <1>2, <1>7, <2>1, <2>2, <2>3, GentleIsTransitive, MethodKeeps DEF ReplyStep, KillAhead
<1>8. CASE \E n \in SpawnClaudeTurn([World EXCEPT !.waiting = FALSE]) :
             Becomes(n) /\ ReplyStep(r)
  <2> DEFINE w == [World EXCEPT !.waiting = FALSE]
  <2>1. PICK n \in SpawnClaudeTurn(w) : Becomes(n)
    BY <1>8
  <2>2. Gentle(World, w)
    BY <1>0, FlagsTyped
  <2>3. Gentle(w, n)
    BY <2>1, <2>2, SpawnTyped DEF Gentle
  <2> QED
    BY <1>2, <1>8, <2>1, <2>2, <2>3, GentleIsTransitive, MethodKeeps DEF KillAhead
<1>9. CASE ReplyResumes(r)
  <2>1. CASE row.mark
    <3> DEFINE w == [World EXCEPT !.waiting = FALSE]
    <3>1. Gentle(World, w)
      BY <1>0, FlagsTyped
    <3>2. Becomes(w)
      BY <1>9, <2>1 DEF ReplyResumes, Becomes, World
    <3> QED
      BY <1>2, <1>9, <3>1, <3>2, MethodKeeps DEF ReplyStep, KillAhead
  <2> QED
    BY <1>8, <1>9, <2>1 DEF ReplyResumes, ReplyStep
<1>10. CASE ReplyContinues(r)
  BY <1>8, <1>10 DEF ReplyContinues, ReplyStep
<1> QED
  BY <1>1, <1>3, <1>4, <1>5, <1>6, <1>7, <1>9, <1>10 DEF ReplyStep

LEMMA KillKeeps ==
    ASSUME SessionInv, NEW k \in Kills, StopMarks(k) \/ MarkDone(k) \/ KillStep(k)
    PROVE  SessionInv'
<1>0. World \in WorldType /\ RequestTypes
  BY DEF SessionInv
<1>1. CASE StopMarks(k)
  <2> DEFINE new == [at |-> "journals", stop |-> TRUE, target |-> None,
                     runs |-> {w \in Runs : run[w].at \in {"observed", "finalizing"}}]
  <2>1. new \in KillState
    BY DEF KillState
  <2>2. kill' = [kill EXCEPT ![k] = new] /\ new.at = "journals"
    BY <1>1 DEF StopMarks
  <2> HIDE DEF new
  <2>3. kill' \in [Kills -> KillState] /\ KillAhead(k)'
    BY <1>0, <2>1, <2>2 DEF RequestTypes, KillAhead
  <2>4. run' \in [Runs -> RunState]
    BY <1>0, <1>1 DEF StopMarks, RequestTypes, RunState
  <2>5. RequestTypes' /\ todo' \subseteq todo
    BY <1>0, <1>1, <2>3, <2>4 DEF StopMarks, RequestTypes
  <2>6. row' \in Row
    BY <1>0, <1>1, WorldIsTyped DEF StopMarks, Row
  <2>7. World' \in WorldType
    BY <1>0, <1>1, <2>6, WorldIsTyped DEF StopMarks, KeepsWorld, World, WorldType
  <2>8. BooksDisjoint' /\ Unlaunched'
    BY <1>1, <2>5 DEF SessionInv, BooksDisjoint, Unlaunched, StopMarks, KeepsWorld
  <2>9. MarkIsHeld'
    BY <2>3 DEF MarkIsHeld
  <2> QED
    BY <2>5, <2>7, <2>8, <2>9 DEF SessionInv
<1>2. CASE StopKills(k)
  <2> DEFINE t   == TargetOf(World)
             new == [kill[k] EXCEPT !.at = "killing", !.target = t, !.runs = {}]
  <2>1. Gentle(World, Aimed(World)) /\ t \in Pids \cup {None}
    BY <1>0, AimedTyped
  <2>2. kill' = [kill EXCEPT ![k] = new] /\ new.at = "killing"
    BY <1>0, <1>2 DEF StopKills, RequestTypes, KillState
  <2> HIDE DEF t
  <2>3. new \in KillState
    BY <1>0, <2>1 DEF RequestTypes, KillState
  <2> HIDE DEF new
  <2>4. kill' \in [Kills -> KillState]
    BY <1>0, <2>2, <2>3 DEF RequestTypes
  <2>5. \A j \in Kills : KillAhead(j) => KillAhead(j)'
    BY <1>0, <2>2 DEF KillAhead, RequestTypes, KillState
  <2>6. RequestTypes' /\ todo' \subseteq todo
    BY <1>0, <1>2, <2>4 DEF StopKills, RequestTypes
  <2> QED
    BY <1>2, <2>1, <2>5, <2>6, MethodKeeps DEF StopKills
<1>3. CASE MarkDone(k)
  <2> DEFINE m == StatusSet(World, "done", FALSE)
             t == TargetOf(m)
  <2>1. Gentle(World, m) /\ m \in WorldType
    BY <1>0, StatusSetTyped DEF Gentle, Status
  <2>2. CASE Becomes(m) /\ UNCHANGED kill
    <3>1. RequestTypes' /\ todo' \subseteq todo
      BY <1>0, <1>3, <2>2 DEF MarkDone, RequestTypes
    <3> QED
      BY <2>1, <2>2, <3>1, MethodKeeps DEF KillAhead
  <2>3. CASE Becomes(Aimed(m)) /\ kill' = [kill EXCEPT ![k].at = "killing", ![k].target = t]
    <3>1. Gentle(m, Aimed(m)) /\ t \in Pids \cup {None}
      BY <2>1, AimedTyped
    <3> HIDE DEF t
    <3>2. kill' \in [Kills -> KillState]
      BY <1>0, <2>3, <3>1 DEF RequestTypes, KillState
    <3>3. \A j \in Kills : KillAhead(j) => KillAhead(j)'
      BY <1>0, <2>3 DEF KillAhead, RequestTypes, KillState
    <3>4. RequestTypes' /\ todo' \subseteq todo
      BY <1>0, <1>3, <3>2 DEF MarkDone, RequestTypes
    <3> QED
      BY <2>1, <2>3, <3>1, <3>3, <3>4, GentleIsTransitive, MethodKeeps
  <2> QED
    BY <1>3, <2>2, <2>3 DEF MarkDone
<1>4. CASE KillSucceeds(k)
  <2> DEFINE a == [World EXCEPT !.live = None]
             b == [a EXCEPT !.waiting = FALSE]
             c == [b EXCEPT !.row.pid = None]
  <2>1. Gentle(World, a)
    BY <1>0, FlagsTyped
  <2>2. Gentle(a, b)
    BY <2>1, FlagsTyped DEF Gentle
  <2>3. Gentle(b, c)
    BY <2>2, FlagsTyped DEF Gentle
  <2>4. Becomes(c) /\ Clear'
    BY <1>0, <1>4, WorldIsTyped DEF KillSucceeds, Becomes, World, Clear, Row
  <2>5. kill' \in [Kills -> KillState]
    BY <1>0, <1>4 DEF KillSucceeds, NoKill, RequestTypes, KillState
  <2>6. RequestTypes' /\ todo' \subseteq todo
    BY <1>0, <1>4, <2>5 DEF KillSucceeds, RequestTypes
  <2> QED
    BY <2>1, <2>2, <2>3, <2>4, <2>6, GentleIsTransitive, MethodKeeps
<1>5. CASE KillFails(k)
  <2>1. kill' \in [Kills -> KillState] /\ \A j \in Kills : KillAhead(j) => KillAhead(j)'
    BY <1>0, <1>5 DEF KillFails, NoKill, RequestTypes, KillState, KillAhead
  <2>2. row' \in Row /\ row'.mark = row.mark /\ row'.pid = row.pid
    BY <1>0, <1>5, WorldIsTyped DEF KillFails, Row
  <2>3. RequestTypes' /\ todo' \subseteq todo
    BY <1>0, <1>5, <2>1 DEF KillFails, RequestTypes
  <2> QED
    BY <1>5, <2>1, <2>2, <2>3, RowKeeps DEF KillFails
<1>6. CASE StopFinishes(k)
  <2>1. kill' \in [Kills -> KillState] /\ \A j \in Kills : KillAhead(j) => KillAhead(j)'
    BY <1>0, <1>6 DEF StopFinishes, NoKill, RequestTypes, KillState, KillAhead
  <2>2. row' \in Row /\ row'.mark = row.mark /\ row'.pid = None
    BY <1>0, <1>6, WorldIsTyped DEF StopFinishes, Row, Status
  <2>3. RequestTypes' /\ todo' \subseteq todo
    BY <1>0, <1>6, <2>1 DEF StopFinishes, RequestTypes
  <2> QED
    BY <1>6, <2>1, <2>2, <2>3, RowKeeps DEF StopFinishes
<1> QED
  BY <1>1, <1>2, <1>3, <1>4, <1>5, <1>6 DEF KillStep

\* What a child says of the turn, of its agents, and its end.
LEMMA ClaudeKeeps ==
    ASSUME SessionInv, NEW p \in Pids,
           ParentResult(p) \/ Question(p) \/ Dies(p) \/ Closes(p)
    PROVE  SessionInv'
<1>0. World \in WorldType /\ RequestTypes
  BY DEF SessionInv
<1> SUFFICES ASSUME ~Question(p)
             PROVE  \E n : Gentle(World, n) /\ Becomes(n) /\ RequestTypes'
                           /\ UNCHANGED <<kill, todo>>
  <2>1. CASE Question(p)
    <3>1. row' \in Row /\ row'.mark = row.mark /\ row'.pid = row.pid
      BY <1>0, <2>1, WorldIsTyped DEF Question, Row
    <3>2. RequestTypes' /\ todo' \subseteq todo
      BY <1>0, <2>1 DEF Question, RequestTypes
    <3> QED
      BY <2>1, <3>1, <3>2, RowKeeps DEF Question, KillAhead
  <2> QED
    BY <2>1, MethodKeeps DEF KillAhead
<1>1. CASE ParentResult(p)
  <2> DEFINE q == [World EXCEPT !.claude[p].owes = FALSE]
             heard == [World EXCEPT !.claude[p].owes = FALSE, !.entry[p].completed = TRUE]
             c == [claude[p] EXCEPT !.owes = FALSE]
             e == [entry[p] EXCEPT !.completed = TRUE]
  <2>1. Gentle(World, q)
    <3>1. c \in Claude /\ c.doing = claude[p].doing
      BY <1>0, WorldIsTyped DEF Claude
    <3>2. q = [World EXCEPT !.claude[p] = c] /\ World.claude[p].doing = claude[p].doing
      BY DEF World
    <3> HIDE DEF c, q
    <3> QED
      BY <1>0, <3>1, <3>2, ClaudeTyped
  <2>2. Gentle(q, heard)
    <3>1. e \in Entry /\ e.runs = entry[p].runs /\ e.terminalizing = entry[p].terminalizing
      BY <1>0, WorldIsTyped DEF Entry
    <3>2. heard = [q EXCEPT !.entry[p] = e] /\ q.entry[p] = entry[p] /\ q \in WorldType
      BY <2>1 DEF World, Gentle
    <3> HIDE DEF e, q, heard
    <3> QED
      BY <3>1, <3>2, EntryTyped
  <2>3. Gentle(World, heard) /\ heard \in WorldType
    BY <2>1, <2>2, GentleIsTransitive DEF Gentle
  <2>4. PICK n : /\ Becomes(n)
                 /\ \/ n = q
                    \/ \E question \in BOOLEAN : n = HandleTurnComplete(heard, question)
                    \/ n = HandleTaskError(heard)
    BY <1>1 DEF ParentResult
  <2> HIDE DEF q, heard
  <2>5. Gentle(World, n)
    BY <1>0, <2>1, <2>3, <2>4, HandleTurnCompleteTyped, HandleTaskErrorTyped, GentleIsTransitive
    DEF RequestTypes
  <2> QED
    BY <1>0, <1>1, <2>4, <2>5 DEF ParentResult, RequestTypes
<1>2. CASE Dies(p)
  <2> DEFINE n == [World EXCEPT !.kid[p] = "dead"]
  <2>1. Gentle(World, n)
    BY <1>0 DEF Gentle, UnderMark, NoNewRuns, WorldType, Kid
  <2>2. Becomes(n)
    BY <1>2 DEF Dies, Becomes, World
  <2> QED
    BY <1>0, <1>2, <2>1, <2>2 DEF Dies, RequestTypes
<1>3. CASE Closes(p)
  <2> DEFINE b == [World EXCEPT !.kid[p] = "closed"]
             m == [World EXCEPT !.kid[p] = "closed", !.claude[p] = Resting]
             l == [m EXCEPT !.live = None]
  <2>1. Gentle(World, b)
    BY <1>0 DEF Gentle, UnderMark, NoNewRuns, WorldType, Kid
  <2>2. Resting \in Claude /\ Resting.doing = {}
    BY DEF Resting, Claude
  <2>3. m = [b EXCEPT !.claude[p] = Resting] /\ b \in WorldType
    BY <2>1 DEF World, Gentle
  <2> HIDE DEF b, m
  <2>4. Gentle(World, m) /\ m \in WorldType
    BY <2>1, <2>2, <2>3, ClaudeTyped, GentleIsTransitive DEF Gentle
  <2>5. Gentle(m, l) /\ l \in WorldType
    BY <2>4, FlagsTyped DEF Gentle
  <2>6. [m EXCEPT !.live = None, !.row.pid = None] = [l EXCEPT !.row.pid = None]
    BY <2>4 DEF WorldType
  <2>7. PICK n : /\ Becomes(n)
                 /\ n \in {[m EXCEPT !.live = None, !.row.pid = None], m,
                            [m EXCEPT !.row.pid = None], HandleTaskError(m),
                            HandleLostLiveSession(m)}
    BY <1>3 DEF Closes, m
  <2> HIDE DEF l
  <2>8. Gentle(m, n)
    <3>1. Gentle(m, [l EXCEPT !.row.pid = None])
      BY <2>5, FlagsTyped, GentleIsTransitive
    <3>2. Gentle(m, m) /\ Gentle(m, [m EXCEPT !.row.pid = None])
      BY <2>4, GentleIsReflexive, FlagsTyped
    <3>3. Gentle(m, HandleTaskError(m)) /\ Gentle(m, HandleLostLiveSession(m))
      BY <2>4, HandleTaskErrorTyped, HandleLostLiveSessionTyped
    <3> QED
      BY <2>6, <2>7, <3>1, <3>2, <3>3
  <2> QED
    BY <1>0, <1>3, <2>4, <2>7, <2>8, GentleIsTransitive DEF Closes, RequestTypes
<1> QED
  BY <1>1, <1>2, <1>3

\* Agents come and go in the logs, and on the books of the session in the map.
LEMMA AgentKeeps ==
    ASSUME SessionInv, NEW p \in Pids, NEW a \in Agents, AgentStarts(p, a) \/ AgentEnds(p, a)
    PROVE  SessionInv'
<1>0. World \in WorldType /\ RequestTypes
  BY DEF SessionInv
<1>1. CASE AgentStarts(p, a)
  <2> DEFINE c == [claude[p] EXCEPT !.doing = @ \cup {a}]
             d == [c EXCEPT !.unwatched = @ \cup {a}]
             m == [World EXCEPT !.claude[p].doing = @ \cup {a}]
             u == [m EXCEPT !.claude[p].unwatched = @ \cup {a}]
             b == [m EXCEPT !.entry[live].agents = @ \cup {a}]
  <2>1. /\ c \in Claude /\ d \in Claude
        /\ c.doing \cap Runs \subseteq claude[p].doing
        /\ d.doing = c.doing
    BY <1>0, WorldIsTyped, SessionAssumption DEF Claude, Work
  <2>2. /\ m = [World EXCEPT !.claude[p] = c] /\ u = [m EXCEPT !.claude[p] = d]
        /\ World.claude[p] = claude[p] /\ m.entry = entry /\ m.claude[p] = c
    <3>1. World.claude = claude /\ World.entry = entry
      BY DEF World
    <3>2. m = [World EXCEPT !.claude[p] = c]
      BY <3>1
    <3>3. m.claude[p] = c /\ m.entry = entry
      BY <1>0, <3>1, <3>2 DEF WorldType
    <3> HIDE DEF c, m
    <3>4. u = [m EXCEPT !.claude[p] = d]
      BY <3>3
    <3> QED
      BY <3>1, <3>2, <3>3, <3>4
  <2> HIDE DEF c, d, m, u
  <2>3. Gentle(World, m) /\ Gentle(World, u)
    <3>1. Gentle(World, m)
      BY <1>0, <2>1, <2>2, ClaudeTyped
    <3>2. Gentle(m, u)
      BY <2>1, <2>2, <3>1, ClaudeTyped DEF Gentle
    <3> QED
      BY <3>1, <3>2, GentleIsTransitive
  <2>4. ASSUME live # None
        PROVE  Gentle(World, Busy(b))
    <3>1. live \in Pids /\ entry[live].agents \cup {a} \in SUBSET Agents
      BY <1>0, <2>4, WorldIsTyped DEF Entry
    <3>2. b = [m EXCEPT !.entry[live].agents = entry[live].agents \cup {a}]
      BY <2>2, <2>3, <3>1 DEF Gentle, WorldType
    <3> HIDE DEF b
    <3>3. Gentle(m, b)
      BY <2>3, <3>1, <3>2, AgentsTyped DEF Gentle
    <3> QED
      BY <2>3, <3>3, BusyTyped, GentleIsTransitive DEF Gentle
  <2>5. PICK n : Becomes(n) /\ (n = u \/ n = m \/ (live # None /\ n = Busy(b)))
    BY <1>1 DEF AgentStarts, m, u
  <2>6. RequestTypes' /\ todo' \subseteq todo
    BY <1>0, <1>1 DEF AgentStarts, RequestTypes
  <2> QED
    BY <1>1, <2>3, <2>4, <2>5, <2>6, MethodKeeps DEF AgentStarts, KillAhead
<1>2. CASE AgentEnds(p, a)
  <2> DEFINE c == [claude[p] EXCEPT !.doing = @ \ {a}, !.owes = TRUE, !.unwatched = @ \ {a}]
             m == [World EXCEPT !.claude[p].doing = @ \ {a}, !.claude[p].owes = TRUE,
                                !.claude[p].unwatched = @ \ {a}]
             b == [m EXCEPT !.entry[live].agents = @ \ {a}]
  <2>1. c \in Claude /\ c.doing \cap Runs \subseteq claude[p].doing
    BY <1>0, WorldIsTyped DEF Claude
  <2>2. /\ m = [World EXCEPT !.claude[p] = c]
        /\ World.claude[p] = claude[p] /\ m.entry = entry
    BY <1>0, WorldIsTyped DEF World
  <2> HIDE DEF c, m
  <2>3. Gentle(World, m)
    BY <1>0, <2>1, <2>2, ClaudeTyped
  <2>4. ASSUME live # None
        PROVE  Gentle(World, Busy(b)) /\ Gentle(World, StorePid(Busy(b), live))
    <3>1. live \in Pids /\ entry[live].agents \ {a} \in SUBSET Agents
      BY <1>0, <2>4, WorldIsTyped DEF Entry
    <3>2. b = [m EXCEPT !.entry[live].agents = entry[live].agents \ {a}]
      BY <2>2, <2>3, <3>1 DEF Gentle, WorldType
    <3> HIDE DEF b
    <3>3. Gentle(m, b)
      BY <2>3, <3>1, <3>2, AgentsTyped DEF Gentle
    <3>4. Gentle(World, Busy(b))
      BY <2>3, <3>3, BusyTyped, GentleIsTransitive DEF Gentle
    <3>5. Gentle(Busy(b), StorePid(Busy(b), live))
      BY <3>1, <3>4, StorePidTyped DEF Gentle
    <3> QED
      BY <3>4, <3>5, GentleIsTransitive
  <2>5. PICK n : /\ Becomes(n)
                 /\ \/ n = m
                    \/ live # None /\ n \in {Busy(b), StorePid(Busy(b), live)}
    BY <1>2 DEF AgentEnds, m
  <2>6. RequestTypes' /\ todo' \subseteq todo
    BY <1>0, <1>2 DEF AgentEnds, RequestTypes
  <2> QED
    BY <1>2, <2>3, <2>4, <2>5, <2>6, MethodKeeps DEF AgentEnds, KillAhead
<1> QED
  BY <1>1, <1>2

\* A step that changes the books, what Claude does, and of the row the status only.
LEMMA BooksKeep ==
    ASSUME SessionInv, row' \in Row, row'.mark = row.mark, row'.pid = row.pid,
           UNCHANGED <<live, waiting, kid, kill>>,
           entry' \in [Pids -> Entry], claude' \in [Pids -> Claude],
           RequestTypes', BooksDisjoint', Unlaunched'
    PROVE  SessionInv'
<1>1. World' \in WorldType
  BY WorldIsTyped DEF SessionInv, World, WorldType
<1>2. MarkIsHeld'
  BY DEF SessionInv, MarkIsHeld, Clear, KillAhead
<1> QED
  BY <1>1, <1>2 DEF SessionInv

LEMMA BusyRow ==
    ASSUME NEW m \in WorldType
    PROVE  /\ Busy(m).row \in Row /\ Busy(m).row.mark = m.row.mark
           /\ Busy(m).row.pid = m.row.pid
           /\ Busy(m).live = m.live /\ Busy(m).waiting = m.waiting /\ Busy(m).kid = m.kid
           /\ Busy(m).entry = m.entry /\ Busy(m).claude = m.claude
BY DEF Busy, StatusSet, WorldType, Row, Status

LEMMA LaunchKeeps ==
    ASSUME SessionInv, NEW p \in Pids, NEW w \in Runs, RunLaunched(p, w)
    PROVE  SessionInv'
<1> DEFINE c == [claude[p] EXCEPT !.doing = @ \cup {w}]
           d == [c EXCEPT !.unwatched = @ \cup {w}]
           e == [entry[live] EXCEPT !.runs = @ \cup {w}, !.pending = FALSE]
           m == [World EXCEPT !.claude[p].doing = @ \cup {w}]
           u == [m EXCEPT !.claude[p].unwatched = @ \cup {w}]
           b == [m EXCEPT !.entry[live].runs = @ \cup {w}, !.entry[live].pending = FALSE]
<1>0. World \in WorldType /\ RequestTypes
  BY DEF SessionInv
<1>1. row \in Row /\ entry \in [Pids -> Entry] /\ claude \in [Pids -> Claude]
  BY <1>0, WorldIsTyped
<1>2. c \in Claude /\ d \in Claude /\ d.doing = c.doing /\ c.doing = claude[p].doing \cup {w}
  BY <1>1 DEF Claude, Work
<1>3. CASE row.mark \/ live = None
  <2>1. Becomes(u) /\ run' = [run EXCEPT ![w].at = "failed"] /\ todo' = todo \ {w}
    BY <1>3 DEF RunLaunched
  <2>2. /\ UNCHANGED <<row, live, waiting, kid, entry>>
        /\ claude' = [claude EXCEPT ![p] = d]
    <3>1. /\ m = [World EXCEPT !.claude = [claude EXCEPT ![p] = c]]
          /\ m.claude = [claude EXCEPT ![p] = c] /\ m.claude[p] = c
      BY <1>1 DEF World
    <3>2. /\ m.row = row /\ m.live = live /\ m.waiting = waiting /\ m.kid = kid
          /\ m.entry = entry
      BY DEF World
    <3> HIDE DEF c, m
    <3>3. u.claude = [m.claude EXCEPT ![p] = d]
      BY <3>1 DEF World
    <3>4. [m.claude EXCEPT ![p] = d] = [claude EXCEPT ![p] = d]
      BY <1>1, <3>1
    <3> QED
      BY <2>1, <3>2, <3>3, <3>4 DEF Becomes
  <2> HIDE DEF c, d, u, m
  <2>3. claude' \in [Pids -> Claude]
    BY <1>1, <1>2, <2>2
  <2>4. RequestTypes' /\ kill' = kill
    BY <1>0, <2>1 DEF RunLaunched, RequestTypes, RunState
  <2>5. BooksDisjoint' /\ Unlaunched'
    BY <1>1, <1>2, <2>1, <2>2 DEF SessionInv, BooksDisjoint, Unlaunched
  <2> QED
    BY <1>1, <2>2, <2>3, <2>4, <2>5, BooksKeep
<1>4. CASE ~row.mark /\ live # None
  <2>1. live \in Pids
    BY <1>0, <1>4, WorldIsTyped
  <2>2. /\ Becomes(Busy(b)) /\ todo' = todo \ {w} /\ w \in todo
        /\ run' = [run EXCEPT ![w] = [at |-> "opening", owner |-> live]]
    BY <1>4 DEF RunLaunched
  <2>3. /\ e \in Entry /\ e.runs = entry[live].runs \cup {w}
        /\ e.terminalizing = entry[live].terminalizing
    BY <1>1, <2>1 DEF Entry
  <2>4. /\ b.row = row /\ b.live = live /\ b.waiting = waiting /\ b.kid = kid
        /\ b.entry = [entry EXCEPT ![live] = e] /\ b.claude = [claude EXCEPT ![p] = c]
    BY <1>1, <2>1 DEF World
  <2>5. b \in WorldType
    <3>1. b = [World EXCEPT !.claude = [claude EXCEPT ![p] = c],
                            !.entry = [entry EXCEPT ![live] = e]]
      BY <1>1, <2>1 DEF World
    <3> HIDE DEF b, c, e
    <3> QED
      BY <1>0, <1>1, <1>2, <2>1, <2>3, <3>1 DEF WorldType
  <2> HIDE DEF b, c, e
  <2>6. /\ row' \in Row /\ row'.mark = row.mark /\ row'.pid = row.pid
        /\ UNCHANGED <<live, waiting, kid>>
        /\ entry' = [entry EXCEPT ![live] = e] /\ claude' = [claude EXCEPT ![p] = c]
    BY <2>2, <2>4, <2>5, BusyRow DEF Becomes
  <2>7. entry' \in [Pids -> Entry] /\ claude' \in [Pids -> Claude]
    BY <1>1, <1>2, <2>1, <2>3, <2>6
  <2>8. RequestTypes' /\ kill' = kill
    BY <1>0, <2>1, <2>2 DEF RunLaunched, RequestTypes, RunState
  <2>9. BooksDisjoint' /\ Unlaunched'
    BY <1>1, <1>2, <2>1, <2>2, <2>3, <2>6 DEF SessionInv, BooksDisjoint, Unlaunched
  <2> QED
    BY <2>6, <2>7, <2>8, <2>9, BooksKeep
<1> QED
  BY <1>3, <1>4

\* The run is at work until its end, hence launched, and may be terminalizing from then on.
LEMMA RunEndKeeps ==
    ASSUME SessionInv, NEW p \in Pids, NEW w \in Runs, RunEnds(p, w)
    PROVE  SessionInv'
<1> DEFINE c == [claude[p] EXCEPT !.doing = @ \ {w}, !.owes = TRUE, !.unwatched = @ \ {w}]
           known == run[w].at \in {"observed", "finalizing", "terminal"}
           e == RunIsOver(entry[live], w, known)
           m == [World EXCEPT !.claude[p].doing = @ \ {w}, !.claude[p].owes = TRUE,
                              !.claude[p].unwatched = @ \ {w}]
           b == [m EXCEPT !.entry[live] = RunIsOver(@, w, known)]
<1>0. World \in WorldType /\ RequestTypes
  BY DEF SessionInv
<1>1. row \in Row /\ entry \in [Pids -> Entry] /\ claude \in [Pids -> Claude]
  BY <1>0, WorldIsTyped
<1>2. c \in Claude /\ c.doing = claude[p].doing \ {w} /\ w \in claude[p].doing
  BY <1>1 DEF Claude, RunEnds
<1>3. w \notin todo
  BY <1>2 DEF SessionInv, Unlaunched
<1>4. RequestTypes' /\ kill' = kill /\ todo' = todo
  BY <1>0 DEF RunEnds, RequestTypes, RunState
<1>5. CASE Becomes(m)
  <2>1. /\ UNCHANGED <<row, live, waiting, kid, entry>>
        /\ claude' = [claude EXCEPT ![p] = c]
    BY <1>1, <1>5 DEF Becomes, World
  <2> HIDE DEF c, m
  <2>2. claude' \in [Pids -> Claude]
    BY <1>1, <1>2, <2>1
  <2>3. BooksDisjoint' /\ Unlaunched'
    BY <1>1, <1>2, <1>4, <2>1 DEF SessionInv, BooksDisjoint, Unlaunched
  <2> QED
    BY <1>1, <1>4, <2>1, <2>2, <2>3, BooksKeep
<1>6. CASE live # None /\ Becomes(Busy(b))
  <2>1. live \in Pids
    BY <1>0, <1>6, WorldIsTyped
  <2>2. /\ e \in Entry /\ e.runs = entry[live].runs \ {w}
        /\ e.terminalizing \subseteq entry[live].terminalizing \cup {w}
    BY <1>1, <2>1 DEF Entry, RunIsOver
  <2> HIDE DEF known
  <2>3. /\ b.row = row /\ b.live = live /\ b.waiting = waiting /\ b.kid = kid
        /\ b.entry = [entry EXCEPT ![live] = e] /\ b.claude = [claude EXCEPT ![p] = c]
    BY <1>1, <2>1 DEF World
  <2>4. b \in WorldType
    <3>1. b = [World EXCEPT !.claude = [claude EXCEPT ![p] = c],
                            !.entry = [entry EXCEPT ![live] = e]]
      BY <1>1, <2>1 DEF World
    <3> HIDE DEF b, c, e
    <3> QED
      BY <1>0, <1>1, <1>2, <2>1, <2>2, <3>1 DEF WorldType
  <2> HIDE DEF b, c, e
  <2>5. /\ row' \in Row /\ row'.mark = row.mark /\ row'.pid = row.pid
        /\ UNCHANGED <<live, waiting, kid>>
        /\ entry' = [entry EXCEPT ![live] = e] /\ claude' = [claude EXCEPT ![p] = c]
    BY <1>6, <2>3, <2>4, BusyRow DEF Becomes
  <2>6. entry' \in [Pids -> Entry] /\ claude' \in [Pids -> Claude]
    BY <1>1, <1>2, <2>1, <2>2, <2>5
  <2>7. BooksDisjoint' /\ Unlaunched'
    BY <1>1, <1>2, <1>3, <1>4, <2>1, <2>2, <2>5 DEF SessionInv, BooksDisjoint, Unlaunched
  <2> QED
    BY <1>4, <2>5, <2>6, <2>7, BooksKeep
<1> QED
  BY <1>5, <1>6 DEF RunEnds

LEMMA JournalKeeps ==
    ASSUME SessionInv, NEW w \in Runs, JournalOpened(w) \/ JournalFails(w) \/ JournalFinal(w)
    PROVE  SessionInv'
<1>0. World \in WorldType /\ RequestTypes
  BY DEF SessionInv
<1>1. row \in Row /\ entry \in [Pids -> Entry] /\ claude \in [Pids -> Claude]
  BY <1>0, WorldIsTyped
<1>2. RequestTypes' /\ kill' = kill /\ todo' = todo
  <2>1. run' \in [Runs -> RunState]
    <3>1. [at |-> "observed", owner |-> None] \in RunState
          /\ [at |-> "failed", owner |-> None] \in RunState
          /\ [run[w] EXCEPT !.at = "terminal"] \in RunState
      BY <1>0 DEF RequestTypes, RunState
    <3>2. \E x \in RunState : run' = [run EXCEPT ![w] = x]
      BY <3>1 DEF JournalOpened, JournalFails, JournalFinal
    <3> QED
      BY <1>0, <3>2 DEF RequestTypes
  <2> QED
    BY <1>0, <2>1 DEF JournalOpened, JournalFails, JournalFinal, RequestTypes
<1>3. CASE JournalOpened(w)
  BY <1>1, <1>2, <1>3, RowKeeps DEF JournalOpened, KillAhead
<1>4. CASE JournalFails(w)
  <2> DEFINE o == run[w].owner
             e == [entry[o] EXCEPT !.runs = @ \ {w}]
  <2>1. entry' = [entry EXCEPT ![o] = e]
    BY <1>4 DEF JournalFails
  <2>2. o \in Pids => /\ e \in Entry /\ e.runs \subseteq entry[o].runs
                      /\ e.terminalizing = entry[o].terminalizing
    BY <1>1 DEF Entry
  <2> HIDE DEF o, e
  <2>3. /\ entry' \in [Pids -> Entry]
        /\ \A p \in Pids : /\ entry'[p].runs \subseteq entry[p].runs
                          /\ entry'[p].terminalizing = entry[p].terminalizing
    BY <1>1, <2>1, <2>2
  <2>4. /\ claude' \in [Pids -> Claude]
        /\ \A p \in Pids : claude'[p].doing = claude[p].doing
    BY <1>1, <1>4 DEF JournalFails, Claude, Work
  <2>5. BooksDisjoint' /\ Unlaunched'
    BY <1>2, <2>3, <2>4 DEF SessionInv, BooksDisjoint, Unlaunched
  <2> QED
    BY <1>1, <1>2, <1>4, <2>3, <2>4, <2>5, BooksKeep DEF JournalFails
<1>5. CASE JournalFinal(w)
  <2> DEFINE s == SessionUnder(HostTaskId)
             e == [entry[s] EXCEPT !.runs = @ \ {w}, !.terminalizing = @ \ {w}]
             m == [World EXCEPT !.entry[s].runs = @ \ {w}, !.entry[s].terminalizing = @ \ {w}]
  <2>1. PICK n : /\ Becomes(n)
                 /\ \/ n = World
                    \/ s # None /\ n \in {HandleTurnComplete(m, FALSE), Busy(m)}
    BY <1>5 DEF JournalFinal
  <2>2. ASSUME s # None
        PROVE  Gentle(World, m) /\ m \in WorldType
    <3>1. s \in Pids
      BY <1>0, <2>2, WorldIsTyped DEF SessionUnder
    <3>2. /\ e \in Entry /\ e.runs \subseteq entry[s].runs
          /\ e.terminalizing \subseteq entry[s].terminalizing
      BY <1>1, <3>1 DEF Entry
    <3>3. m = [World EXCEPT !.entry[s] = e] /\ World.entry[s] = entry[s]
      BY <1>1, <3>1 DEF World
    <3> HIDE DEF e, m, s
    <3> QED
      BY <1>0, <3>1, <3>2, <3>3, EntryTyped DEF Gentle
  <2> HIDE DEF m, s
  <2>3. Gentle(World, n)
    <3>1. CASE n = World
      BY <1>0, <3>1, GentleIsReflexive
    <3>2. CASE s # None /\ n \in {HandleTurnComplete(m, FALSE), Busy(m)}
      <4>1. Gentle(m, n)
        BY <1>0, <2>2, <3>2, HandleTurnCompleteTyped, BusyTyped DEF RequestTypes
      <4> QED
        BY <2>2, <3>2, <4>1, GentleIsTransitive
    <3> QED
      BY <2>1, <3>1, <3>2
  <2> QED
    BY <1>2, <2>1, <2>3, MethodKeeps DEF KillAhead
<1> QED
  BY <1>3, <1>4, <1>5

LEMMA ReapKeeps ==
    ASSUME SessionInv, Reap
    PROVE  SessionInv'
<1>0. World \in WorldType /\ RequestTypes
  BY DEF SessionInv
<1>1. row \in Row /\ World.row = row
  BY <1>0, WorldIsTyped DEF World
<1>2. RequestTypes' /\ kill' = kill /\ todo' = todo
  BY <1>0 DEF Reap, RequestTypes
<1>3. CASE Stuck /\ ~HasActiveSession
  <2> DEFINE t == Terminated(World, row.pid)
             r == StatusSet(t, "review", row.pid # None)
  <2>1. Gentle(World, t)
    BY <1>0, <1>1, TerminatedTyped DEF Row
  <2>2. Gentle(t, r)
    BY <2>1, StatusSetTyped DEF Gentle, Status
  <2>3. Gentle(r, [r EXCEPT !.row.pid = None])
    BY <2>2, FlagsTyped DEF Gentle
  <2>4. Becomes([r EXCEPT !.row.pid = None])
    BY <1>3 DEF Reap
  <2> QED
    BY <1>2, <2>1, <2>2, <2>3, <2>4, GentleIsTransitive, MethodKeeps DEF KillAhead
<1>4. CASE ~(Stuck /\ ~HasActiveSession)
  <2>1. KeepsWorld /\ (row' = row \/ row' = [row EXCEPT !.pid = None])
    BY <1>4 DEF Reap
  <2>2. row' \in Row /\ row'.mark = row.mark /\ row'.pid \in {row.pid, None}
    BY <1>1, <2>1 DEF Row
  <2> QED
    BY <1>2, <2>1, <2>2, RowKeeps DEF KillAhead
<1> QED
  BY <1>3, <1>4

LEMMA InvNext == SessionInv /\ [Next]_vars => SessionInv'
<1> SUFFICES ASSUME SessionInv, [Next]_vars PROVE SessionInv'
  OBVIOUS
<1>1. CASE Next
  BY <1>1, StartKeeps, ReplyKeeps, KillKeeps, ClaudeKeeps, AgentKeeps, LaunchKeeps, RunEndKeeps,
     JournalKeeps, ReapKeeps DEF Next
<1>2. CASE UNCHANGED vars
  BY <1>2 DEF vars, SessionInv, World, RequestTypes, BooksDisjoint, Unlaunched, MarkIsHeld,
              Clear, KillAhead
<1> QED
  BY <1>1, <1>2

-----------------------------------------------------------------------------
\* The invariant of the proofs: the mark of a stop is held by a kill that is to come or has
\* failed, or the session and the recorded process are gone.
THEOREM SessionInvariant == Spec => []SessionInv
BY InvInit, InvNext, PTL DEF Spec

\* The books of every session, the requests and the processes keep their types; in
\* particular no workflow run is active and terminalizing at once.
THEOREM SessionTypes == Spec => []TypeOK
BY SessionInvariant, InvTypes, PTL

\* Once a stop has succeeded, and until the user asks for more, the task has no session and
\* no recorded process: for any number of processes, and whatever replies, starts, late
\* events and other kills were under way (cancelTask and killSession).
THEOREM StopIsFinal == Spec => []StoppedHasNoSession
<1>1. SessionInv => StoppedHasNoSession
  BY DEF SessionInv, MarkIsHeld, KillAhead, Clear, StoppedHasNoSession
<1> QED
  BY <1>1, SessionInvariant, PTL

-----------------------------------------------------------------------------
(***************************************************************************)
(* What the end of a turn waits for                                        *)
(***************************************************************************)

\* A piece of work is done once, by one process.
WorkOnce ==
    /\ \A p, q \in Pids : p # q => claude[p].doing \cap claude[q].doing = {}
    /\ \A p \in Pids : claude[p].doing \cap todo = {}

\* The books of the session have every agent and every run of its own turn that the logs
\* and the journals show as unfinished.
Watched ==
    live # None =>
        /\ OwnWork(live) \cap openAgents \subseteq entry[live].agents
        /\ \A w \in Runs \cap OwnWork(live) : run[w].at # "terminal" => w \in entry[live].runs

TurnInv == SessionInv /\ WorkOnce /\ Watched

\* A step that takes the session's turn to the user, and what it must have waited for.
EndsTurn == /\ live # None /\ live' = live /\ row.status = "running"
            /\ row'.status = "review" /\ row'.needsInput
WaitsForWork ==
    EndsTurn => /\ OwnWork(live)' \cap openAgents' = {}
                /\ \A w \in Runs \cap OwnWork(live)' : run'[w].at = "terminal"

\* A method sets nothing going; where it leaves a session, the session's turn is new or
\* its books still have what they had, except for agents that the logs show as finished.
Own(m, p) == m.claude[p].doing \ m.claude[p].unwatched
Minds(m, n) ==
    /\ \A p \in Pids : n.claude[p].doing \subseteq m.claude[p].doing
    /\ \/ n.live = None
       \/ Own(n, n.live) = {}
       \/ /\ n.live = m.live
          /\ Own(n, n.live) \subseteq Own(m, n.live)
          /\ m.entry[n.live].agents \cap openAgents \subseteq n.entry[n.live].agents
          /\ m.entry[n.live].runs \subseteq n.entry[n.live].runs

\* It does not end the turn of a session that stays.
NoEnd(m, n) == n.live = None \/ n.row.status \in {m.row.status, "running"}

LEMMA MindsIsReflexive ==
    ASSUME NEW m
    PROVE  Minds(m, m)
BY DEF Minds

LEMMA MindsIsTransitive ==
    ASSUME NEW l, NEW m, NEW n, Minds(l, m), Minds(m, n)
    PROVE  Minds(l, n)
BY DEF Minds

LEMMA TerminatedMinds ==
    ASSUME NEW m \in WorldType, NEW p \in Pids \cup {None}
    PROVE  /\ Minds(m, Terminated(m, p))
           /\ Terminated(m, p).row = m.row /\ Terminated(m, p).live = m.live
BY DEF Terminated, Minds, Own, WorldType

LEMMA StorePidMinds ==
    ASSUME NEW m \in WorldType, NEW p \in Pids \cup {None}
    PROVE  /\ Minds(m, StorePid(m, p))
           /\ StorePid(m, p).row.status = m.row.status /\ StorePid(m, p).live = m.live
BY DEF StorePid, Minds, Own, WorldType, Row

LEMMA StatusSetMinds ==
    ASSUME NEW m \in WorldType, NEW s \in Status, NEW b \in BOOLEAN
    PROVE  /\ Minds(m, StatusSet(m, s, b))
           /\ StatusSet(m, s, b).row.status = s /\ StatusSet(m, s, b).live = m.live
BY DEF StatusSet, Minds, Own, WorldType, Row

LEMMA WaitingMinds ==
    ASSUME NEW m \in WorldType, NEW b \in BOOLEAN
    PROVE  Minds(m, [m EXCEPT !.waiting = b])
BY DEF Minds, Own, WorldType

\* The methods that end the session.
Quits(m, n) == n.claude = m.claude /\ n.live = None

LEMMA QuitsMinds ==
    ASSUME NEW m, NEW n, Quits(m, n)
    PROVE  Minds(m, n) /\ NoEnd(m, n)
BY DEF Quits, Minds, NoEnd

LEMMA LiveClosedQuits ==
    ASSUME NEW m \in WorldType
    PROVE  Quits(m, LiveClosed(m)) /\ LiveClosed(m).row = m.row
<1>1. CASE m.live = None
  BY <1>1 DEF LiveClosed, Quits
<1>2. CASE m.live # None
  <2> DEFINE c == [m EXCEPT !.entry[m.live].closing = TRUE]
             t == Terminated(c, m.live)
  <2>1. c.claude = m.claude /\ c.row = m.row /\ c \in WorldType
    BY <1>2, ClosingTyped DEF WorldType, Gentle
  <2> HIDE DEF c
  <2>2. t.claude = m.claude /\ t.row = m.row /\ t \in WorldType
    BY <2>1, <1>2, TerminatedTyped DEF Terminated, WorldType, Gentle
  <2>3. LiveClosed(m) = [t EXCEPT !.live = None]
    BY <1>2 DEF LiveClosed, c
  <2> HIDE DEF t
  <2> QED
    BY <2>2, <2>3 DEF Quits, WorldType
<1> QED
  BY <1>1, <1>2

LEMMA StopSessionQuits ==
    ASSUME NEW m \in WorldType
    PROVE  Quits(m, StopSession(m)) /\ StopSession(m).row.status = m.row.status
<1>1. LiveClosed(m) \in WorldType
  BY LiveClosedTyped DEF Gentle
<1> QED
  BY <1>1, LiveClosedQuits DEF StopSession, Quits, WorldType, Row

LEMMA HandleTaskErrorQuits ==
    ASSUME NEW m \in WorldType
    PROVE  HandleTaskError(m) = m \/ Quits(m, HandleTaskError(m))
<1> DEFINE s == StatusSet(m, "review", TRUE)
<1>1. s \in WorldType /\ s.claude = m.claude
  BY StatusSetTyped DEF StatusSet, Status, WorldType, Gentle
<1> HIDE DEF s
<1>2. Quits(s, StopSession(s)) /\ StopSession(s) \in WorldType
  BY <1>1, StopSessionQuits, StopSessionTyped DEF Gentle
<1> QED
  BY <1>1, <1>2 DEF HandleTaskError, Quits, WorldType, s

LEMMA HandleLostLiveSessionQuits ==
    ASSUME NEW m \in WorldType
    PROVE  HandleLostLiveSession(m) = m \/ Quits(m, HandleLostLiveSession(m))
<1>1. LiveClosed(m) \in WorldType /\ Quits(m, LiveClosed(m))
  BY LiveClosedTyped, LiveClosedQuits DEF Gentle
<1> QED
  BY <1>1 DEF HandleLostLiveSession, StatusSet, Quits, WorldType, Row

\* A message begins a turn: what the process was doing is an earlier turn's.
LEMMA NextTurnMinds ==
    ASSUME NEW m \in WorldType, NEW p \in Pids, m.live = p
    PROVE  Minds(m, NextTurn(m, p)) /\ NextTurn(m, p).row = m.row
           /\ NextTurn(m, p).live = p
<1> DEFINE b == CleanBooks(m, p)
           n == NextTurn(m, p)
<1>1. b \in WorldType /\ b.claude = m.claude /\ b.row = m.row /\ b.live = m.live
  BY CleanBooksTyped DEF CleanBooks, WorldType, Gentle
<1> HIDE DEF b
<1>2. n = [b EXCEPT !.claude[p].owes = TRUE, !.claude[p].unwatched = m.claude[p].doing]
  BY DEF NextTurn, b
<1>3. /\ n.claude[p].doing = m.claude[p].doing
      /\ n.claude[p].unwatched = m.claude[p].doing
      /\ \A q \in Pids : q # p => n.claude[q] = m.claude[q]
      /\ n.row = m.row /\ n.live = p
  BY <1>1, <1>2 DEF WorldType, Claude
<1> QED
  BY <1>3 DEF Minds, Own

LEMMA SpawnMinds ==
    ASSUME NEW m \in WorldType, NEW n \in SpawnClaudeTurn(m)
    PROVE  Minds(m, n) /\ NoEnd(m, n)
<1> DEFINE unused  == {p \in Pids : m.kid[p] = "unused"}
           p       == CHOOSE q \in unused : TRUE
           up      == [m EXCEPT !.live = p, !.kid[p] = "up"]
           turn    == NextTurn(up, p)
           started == StorePid(turn, p)
<1>1. CASE n = m
  BY <1>1, MindsIsReflexive DEF NoEnd
<1>2. CASE n = HandleTaskError(m)
  BY <1>1, <1>2, HandleTaskErrorQuits, QuitsMinds
<1>3. CASE /\ SpawnAllowed(m) /\ unused # {}
           /\ n \in {started, HandleLostLiveSession(started)}
  <2>1. p \in Pids
    BY <1>3
  <2> HIDE DEF p
  <2>2. /\ up \in WorldType /\ up.live = p /\ up.row = m.row /\ up.claude = m.claude
    BY <2>1 DEF WorldType, Kid
  <2> HIDE DEF up
  <2>3. turn \in WorldType /\ turn.live = p /\ turn.row = m.row
    BY <2>1, <2>2, NextTurnTyped, NextTurnMinds DEF Gentle
  <2>4. /\ \A q \in Pids : turn.claude[q].doing \subseteq m.claude[q].doing
        /\ Own(turn, p) = {}
    <3> DEFINE b == CleanBooks(up, p)
    <3>1. b \in WorldType /\ b.claude = m.claude
      BY <2>1, <2>2, CleanBooksTyped DEF CleanBooks, WorldType, Gentle
    <3> HIDE DEF b
    <3>2. turn = [b EXCEPT !.claude[p].owes = TRUE, !.claude[p].unwatched = m.claude[p].doing]
      BY <2>2 DEF NextTurn, b
    <3> QED
      BY <2>1, <3>1, <3>2 DEF Own, WorldType, Claude
  <2> HIDE DEF turn
  <2>5. /\ started \in WorldType /\ started.live = p /\ started.row.status = m.row.status
        /\ started.claude = turn.claude
    BY <2>1, <2>3, StorePidTyped DEF StorePid, WorldType, Row, Gentle
  <2> HIDE DEF started
  <2>6. Minds(m, started) /\ NoEnd(m, started)
    BY <2>4, <2>5 DEF Minds, NoEnd, Own
  <2>7. CASE n = started
    BY <2>6, <2>7
  <2>8. CASE n = HandleLostLiveSession(started)
    BY <2>5, <2>6, <2>8, HandleLostLiveSessionQuits, QuitsMinds, MindsIsTransitive DEF Quits, NoEnd
  <2> QED
    BY <1>3, <2>7, <2>8
<1> QED
  BY <1>1, <1>2, <1>3 DEF SpawnClaudeTurn

LEMMA AimedMinds ==
    ASSUME NEW m \in WorldType
    PROVE  Minds(m, Aimed(m)) /\ Aimed(m).row = m.row
<1> DEFINE c == IF m.live = None THEN m ELSE [m EXCEPT !.entry[m.live].closing = TRUE]
           t == TargetOf(m)
<1>1. t \in Pids \cup {None} /\ Aimed(m) = Terminated(c, t)
  BY AimedTyped DEF TargetOf, Aimed
<1>2. c \in WorldType /\ Minds(m, c) /\ c.row = m.row
  <2>1. CASE m.live = None
    BY <2>1, MindsIsReflexive
  <2>2. CASE m.live # None
    <3>1. m.live \in Pids /\ c = [m EXCEPT !.entry[m.live].closing = TRUE]
      BY <2>2 DEF WorldType
    <3>2. c \in WorldType
      BY <3>1, ClosingTyped DEF Gentle
    <3>3. /\ c.claude = m.claude /\ c.live = m.live /\ c.row = m.row
          /\ c.entry[m.live].agents = m.entry[m.live].agents
          /\ c.entry[m.live].runs = m.entry[m.live].runs
      BY <3>1 DEF WorldType, Entry
    <3> HIDE DEF c
    <3> QED
      BY <3>2, <3>3 DEF Minds, Own
  <2> QED
    BY <2>1, <2>2
<1> HIDE DEF c, t
<1> QED
  BY <1>1, <1>2, TerminatedMinds, MindsIsTransitive

\* handleTurnComplete ends the turn of a session that stays only if its books are empty;
\* or they had agents, and the logs show none of them as unfinished.
NothingPending(m) ==
    /\ m.entry[m.live].runs = {}
    /\ m.entry[m.live].agents = {} \/ openAgents = {}

LEMMA HandleTurnCompleteMinds ==
    ASSUME NEW m \in WorldType, NEW question \in BOOLEAN, openAgents \subseteq Agents
    PROVE  LET n == HandleTurnComplete(m, question)
           IN  /\ Minds(m, n) /\ n.claude = m.claude
               /\ NoEnd(m, n) \/ (n.live = m.live /\ NothingPending(m))
<1> DEFINE s       == m.live
           n       == HandleTurnComplete(m, question)
           agents  == IF s # None /\ m.entry[s].agents # {} THEN openAgents ELSE {}
           checked == IF s = None THEN m ELSE [m EXCEPT !.entry[s].agents = agents]
           settled == IF s = None THEN m
                      ELSE [checked EXCEPT !.entry[s].deferred = FALSE, !.entry[s].pending = FALSE]
           waits   == /\ m.entry[s].runs = {}
                      /\ m.entry[s].terminalizing # {}
                      /\ agents = {}
           put     == [checked EXCEPT !.entry[s].deferred = TRUE, !.entry[s].pending = waits]
           pending == s # None /\ PendingWork(checked.entry[s]) # {}
           Like(c) == /\ c \in WorldType /\ Minds(m, c)
                      /\ c.claude = m.claude /\ c.row = m.row /\ c.live = m.live
<1>1. s \in Pids \cup {None}
  BY DEF WorldType
<1>2. agents \subseteq Agents
  OBVIOUS
<1>3. CASE m.row.mark
  BY <1>3, MindsIsReflexive DEF HandleTurnComplete, NoEnd
<1>4. CASE ~m.row.mark /\ m.row.status = "done"
  <2>1. n = StopSession(m)
    BY <1>4 DEF HandleTurnComplete
  <2> QED
    BY <2>1, StopSessionQuits, QuitsMinds DEF Quits
<1>5. /\ Like(checked)
      /\ s # None => /\ checked.entry[s].runs = m.entry[s].runs
                     /\ checked.entry[s].agents = agents
  <2>1. CASE s = None
    BY <2>1, MindsIsReflexive
  <2>2. CASE s # None
    <3>1. checked \in WorldType
      BY <1>1, <1>2, <2>2, AgentsTyped DEF Gentle
    <3>2. /\ checked.claude = m.claude /\ checked.row = m.row /\ checked.live = m.live
          /\ checked.entry[s].runs = m.entry[s].runs
          /\ checked.entry[s].agents = agents
      BY <1>1, <2>2 DEF WorldType, Entry
    <3>3. m.entry[s].agents \cap openAgents \subseteq agents
      BY <2>2
    <3> HIDE DEF checked, agents
    <3> QED
      BY <2>2, <3>1, <3>2, <3>3 DEF Minds, Own
  <2> QED
    BY <2>1, <2>2
<1>6. ASSUME s # None, NEW b \in BOOLEAN, NEW c \in BOOLEAN
      PROVE  Like([checked EXCEPT !.entry[s].deferred = b, !.entry[s].pending = c])
  <2> DEFINE d == [checked EXCEPT !.entry[s].deferred = b, !.entry[s].pending = c]
  <2> HIDE DEF checked
  <2>1. d \in WorldType
    BY <1>1, <1>5, <1>6, DeferralTyped DEF Gentle
  <2>2. /\ d.claude = checked.claude /\ d.row = checked.row /\ d.live = checked.live
        /\ d.entry[s].runs = checked.entry[s].runs
        /\ d.entry[s].agents = checked.entry[s].agents
    BY <1>1, <1>5, <1>6 DEF WorldType, Entry
  <2> HIDE DEF d
  <2>3. Minds(checked, d)
    BY <1>5, <2>2 DEF Minds, Own
  <2>4. Minds(m, d)
    BY <1>5, <2>3, MindsIsTransitive
  <2> QED
    BY <1>5, <2>1, <2>2, <2>4 DEF d
<1>7. Like(settled)
  <2>1. CASE s = None
    BY <2>1, MindsIsReflexive
  <2>2. CASE s # None
    BY <1>6, <2>2
  <2> QED
    BY <2>1, <2>2
<1>8. CASE ~m.row.mark /\ m.row.status # "done" /\ pending
  <2> DEFINE r == StatusSet(put, "running", FALSE)
  <2>1. n = StorePid(r, s)
    BY <1>8 DEF HandleTurnComplete
  <2>2. Like(put)
    <3>1. waits \in BOOLEAN
      OBVIOUS
    <3> HIDE DEF waits, checked
    <3> QED
      BY <1>6, <1>8, <3>1
  <2> HIDE DEF put
  <2>3. r \in WorldType /\ Minds(put, r) /\ r.row.status = "running" /\ r.claude = m.claude
    BY <2>2, StatusSetMinds, StatusSetTyped DEF Gentle, Status, StatusSet, WorldType
  <2> HIDE DEF r
  <2>4. Minds(r, n) /\ n.row.status = "running" /\ n.claude = m.claude
    BY <1>1, <2>1, <2>3, StorePidMinds DEF StorePid, WorldType
  <2> QED
    BY <2>2, <2>3, <2>4, MindsIsTransitive DEF NoEnd
<1>9. CASE ~m.row.mark /\ m.row.status # "done" /\ ~pending
  <2>1. s = None \/ NothingPending(m)
    <3>1. CASE s # None
      <4>1. checked.entry[s].agents = {} /\ checked.entry[s].runs = {}
        BY <1>9, <3>1 DEF PendingWork
      <4> QED
        BY <1>5, <3>1, <4>1 DEF NothingPending
    <3> QED
      BY <3>1
  <2>2. n = IF ~subtask
            THEN StorePid([StatusSet(settled, "review", TRUE) EXCEPT !.waiting = TRUE], s)
            ELSE IF question /\ s # None
            THEN StorePid([settled EXCEPT !.row.needsInput = TRUE, !.waiting = TRUE], s)
            ELSE StopSession(StatusSet(settled, "review", TRUE))
    BY <1>9 DEF HandleTurnComplete
  <2> HIDE DEF settled, n
  <2> DEFINE r == StatusSet(settled, "review", TRUE)
  <2>3. r \in WorldType /\ Minds(m, r) /\ r.claude = m.claude /\ r.live = s
    BY <1>7, StatusSetMinds, StatusSetTyped, MindsIsTransitive
    DEF Gentle, Status, StatusSet, WorldType
  <2>4. CASE ~subtask
    <3> DEFINE w == [r EXCEPT !.waiting = TRUE]
    <3>1. n = StorePid(w, s)
      BY <2>2, <2>4
    <3> HIDE DEF r
    <3>2. w \in WorldType /\ w.claude = m.claude /\ w.live = s
      BY <2>3 DEF WorldType
    <3>3. Minds(r, w)
      BY <2>3, WaitingMinds
    <3> HIDE DEF w
    <3>4. Minds(w, n) /\ n.claude = m.claude /\ n.live = s
      BY <1>1, <3>1, <3>2, StorePidMinds DEF StorePid, WorldType
    <3> QED
      BY <2>1, <2>3, <3>3, <3>4, MindsIsTransitive DEF NoEnd, n
  <2>5. CASE subtask /\ question /\ s # None
    <3> DEFINE w == [settled EXCEPT !.row.needsInput = TRUE, !.waiting = TRUE]
    <3>1. n = StorePid(w, s)
      BY <2>2, <2>5
    <3>2. /\ w \in WorldType /\ w.claude = m.claude /\ w.live = s
          /\ w.row.status = m.row.status /\ Minds(m, w)
      <4>1. /\ w \in WorldType /\ w.claude = settled.claude /\ w.live = settled.live
            /\ w.row.status = settled.row.status /\ w.entry = settled.entry
        BY <1>7 DEF WorldType, Row
      <4> HIDE DEF w
      <4>2. Minds(settled, w)
        BY <4>1 DEF Minds, Own
      <4> QED
        BY <1>7, <4>1, <4>2, MindsIsTransitive
    <3> HIDE DEF w
    <3>3. Minds(w, n) /\ n.claude = m.claude /\ n.row.status = m.row.status
      BY <1>1, <3>1, <3>2, StorePidMinds DEF StorePid, WorldType
    <3> QED
      BY <3>2, <3>3, MindsIsTransitive DEF NoEnd, n
  <2>6. CASE subtask /\ ~(question /\ s # None)
    <3> HIDE DEF r
    <3>1. n = StopSession(r)
      BY <2>2, <2>6 DEF r
    <3>2. Quits(r, n)
      BY <2>3, <3>1, StopSessionQuits
    <3>3. n.claude = m.claude /\ n.live = None /\ Minds(r, n)
      BY <2>3, <3>2, QuitsMinds DEF Quits
    <3> QED
      BY <2>3, <3>3, MindsIsTransitive DEF NoEnd, n
  <2> QED
    BY <2>4, <2>5, <2>6
<1> QED
  BY <1>3, <1>4, <1>8, <1>9

\* What a method leaves of the invariant, and that it waits for the session's work, when
\* no more agents are shown as unfinished and no journal is reopened.  The method may work
\* on books from which the runs whose journal becomes final have been removed.
LEMMA BooksMind ==
    ASSUME TurnInv, NEW m, NEW n, Becomes(n), Minds(m, n),
           m.claude = claude, m.live = live, m.row = row,
           \A p \in Pids :
               /\ m.entry[p].agents = entry[p].agents
               /\ \A w \in entry[p].runs : w \in m.entry[p].runs \/ run'[w].at = "terminal",
           openAgents' \subseteq openAgents, todo' \subseteq todo, live \in Pids \cup {None},
           \A w \in Runs : run[w].at = "terminal" => run'[w].at = "terminal"
    PROVE  /\ WorkOnce' /\ Watched'
           /\ NoEnd(m, n) => WaitsForWork
<1>1. /\ claude' = n.claude /\ live' = n.live /\ entry' = n.entry /\ row' = n.row
  BY DEF Becomes
<1>2. WorkOnce'
  BY <1>1 DEF TurnInv, WorkOnce, Minds
<1>3. Watched'
  BY <1>1 DEF TurnInv, Watched, Minds, Own, OwnWork
<1>4. NoEnd(m, n) => ~EndsTurn
  BY <1>1 DEF NoEnd, EndsTurn
<1> QED
  BY <1>2, <1>3, <1>4 DEF WaitsForWork

LEMMA MethodMinds ==
    ASSUME TurnInv, NEW n, Becomes(n), Minds(World, n),
           openAgents' \subseteq openAgents, todo' \subseteq todo,
           \A w \in Runs : run[w].at = "terminal" => run'[w].at = "terminal"
    PROVE  /\ WorkOnce' /\ Watched'
           /\ NoEnd(World, n) => WaitsForWork
<1>1. /\ World.claude = claude /\ World.live = live /\ World.entry = entry /\ World.row = row
      /\ live \in Pids \cup {None}
  BY WorldIsTyped DEF World, TurnInv, SessionInv
<1> QED
  BY <1>1, BooksMind

\* A step that leaves the sessions alone.
LEMMA RowMinds ==
    ASSUME TurnInv, KeepsWorld, row'.status \in {row.status, "running", "queued", "done"}
                                \/ ~row'.needsInput,
           openAgents' \subseteq openAgents, todo' \subseteq todo,
           \A w \in Runs : run[w].at = "terminal" => run'[w].at = "terminal"
    PROVE  WorkOnce' /\ Watched' /\ WaitsForWork
<1>1. WorkOnce'
  BY DEF KeepsWorld, TurnInv, WorkOnce
<1>2. Watched'
  BY DEF KeepsWorld, TurnInv, Watched, OwnWork
<1>3. ~EndsTurn
  BY DEF KeepsWorld, EndsTurn
<1> QED
  BY <1>1, <1>2, <1>3 DEF WaitsForWork

TurnKept == WorkOnce' /\ Watched' /\ WaitsForWork

\* Nothing pending, by the session's books and the logs: then nothing is unfinished.
LEMMA EndWaits ==
    ASSUME TurnInv, live # None, OwnWork(live)' = OwnWork(live), openAgents' = openAgents,
           entry[live].agents = {} \/ openAgents = {},
           \A w \in Runs : run[w].at = "terminal" => run'[w].at = "terminal",
           \A w \in entry[live].runs : run'[w].at = "terminal"
    PROVE  WaitsForWork
BY DEF TurnInv, Watched, WaitsForWork

\* Steps that change neither the books nor what Claude does, or take the session away.
LEMMA WatchKept ==
    ASSUME TurnInv, UNCHANGED <<row, live, entry, claude>>,
           openAgents' \subseteq openAgents, todo' \subseteq todo,
           \A w \in Runs : run[w].at = "terminal" => run'[w].at = "terminal"
    PROVE  TurnKept
BY DEF TurnInv, WorkOnce, Watched, OwnWork, TurnKept, WaitsForWork, EndsTurn

LEMMA QuitKept ==
    ASSUME TurnInv, live' = None, claude' = claude, todo' \subseteq todo
    PROVE  TurnKept
BY DEF TurnInv, WorkOnce, Watched, TurnKept, WaitsForWork, EndsTurn

LEMMA StartMinds ==
    ASSUME TurnInv, Queue \/ ExecuteClaims \/ ExecuteSpawns \/ ExecuteFails
    PROVE  TurnKept
<1>0. World \in WorldType /\ row \in Row
  BY WorldIsTyped DEF TurnInv, SessionInv
<1>1. CASE Queue
  BY <1>0, <1>1, RowMinds DEF Queue, KeepsWorld, Row, TurnKept
<1>2. CASE ExecuteClaims
  BY <1>0, <1>2, RowMinds DEF ExecuteClaims, KeepsWorld, Row, TurnKept
<1>3. CASE ExecuteSpawns
  <2>1. PICK n \in SpawnClaudeTurn(World) : Becomes(n)
    BY <1>3 DEF ExecuteSpawns
  <2> QED
    BY <1>0, <1>3, <2>1, SpawnMinds, MethodMinds DEF ExecuteSpawns, TurnKept
<1>4. CASE ExecuteFails
  <2> DEFINE n == HandleTaskError(World)
  <2>1. Minds(World, n) /\ NoEnd(World, n)
    BY <1>0, HandleTaskErrorQuits, QuitsMinds, MindsIsReflexive DEF NoEnd
  <2> QED
    BY <1>4, <2>1, MethodMinds DEF ExecuteFails, TurnKept
<1> QED
  BY <1>1, <1>2, <1>3, <1>4

LEMMA ReplyMinds ==
    ASSUME TurnInv, NEW r \in Replies, ReplyArrives(r) \/ ReplyStep(r)
    PROVE  TurnKept
<1>0. World \in WorldType /\ row \in Row /\ live \in Pids \cup {None}
      /\ World.live = live /\ World.row = row
  BY WorldIsTyped DEF TurnInv, SessionInv, World
<1>1. openAgents' = openAgents /\ run' = run /\ todo' \subseteq todo
  BY DEF ReplyArrives, ReplyStep, ReplyClears, ReplyRefused, ReplyAccepted, ReplySent,
         ReplyRestarts, ReplyResumes, ReplyContinues
<1>2. CASE ReplyArrives(r) \/ ReplyRefused(r)
  BY <1>1, <1>2, RowMinds DEF ReplyArrives, ReplyRefused, TurnKept
<1>3. CASE ReplyClears(r) \/ ReplyAccepted(r)
  BY <1>0, <1>1, <1>3, RowMinds DEF ReplyClears, ReplyAccepted, Row, TurnKept
<1>4. CASE ReplySent(r)
  <2>1. CASE /\ live # None
             /\ Becomes(StorePid([NextTurn(World, live) EXCEPT !.waiting = FALSE], live))
    <3> DEFINE t == NextTurn(World, live)
               w == [t EXCEPT !.waiting = FALSE]
               n == StorePid(w, live)
    <3>1. t \in WorldType /\ Minds(World, t) /\ t.row = row
      BY <1>0, <2>1, NextTurnTyped, NextTurnMinds DEF Gentle
    <3> HIDE DEF t
    <3>2. w \in WorldType /\ Minds(t, w) /\ w.row = row
      BY <3>1, WaitingMinds DEF WorldType
    <3> HIDE DEF w
    <3>3. Minds(w, n) /\ n.row.status = row.status
      BY <1>0, <3>2, StorePidMinds
    <3>4. Minds(World, n) /\ NoEnd(World, n)
      BY <1>0, <3>1, <3>2, <3>3, MindsIsTransitive DEF NoEnd
    <3>5. Becomes(n)
      BY <2>1 DEF t, w
    <3> QED
      BY <1>1, <3>4, <3>5, MethodMinds DEF TurnKept
  <2>2. CASE live # None /\ Becomes(StopSession(CleanBooks(World, live)))
    <3> DEFINE b == CleanBooks(World, live)
               n == StopSession(b)
    <3>1. b \in WorldType /\ b.claude = World.claude
      BY <1>0, <2>2, CleanBooksTyped DEF CleanBooks, Gentle, WorldType
    <3> HIDE DEF b
    <3>2. Quits(World, n)
      BY <3>1, StopSessionQuits DEF Quits
    <3> QED
      BY <1>1, <2>2, <3>2, QuitsMinds, MethodMinds DEF TurnKept, b
  <2>3. CASE UNCHANGED row /\ KeepsWorld
    BY <1>1, <2>3, RowMinds DEF TurnKept
  <2> QED
    BY <1>4, <2>1, <2>2, <2>3 DEF ReplySent
<1>5. ASSUME NEW m, m \in {StopSession(World), [World EXCEPT !.waiting = FALSE]},
             \E n \in SpawnClaudeTurn(m) : Becomes(n)
      PROVE  TurnKept
  <2>1. PICK n \in SpawnClaudeTurn(m) : Becomes(n)
    BY <1>5
  <2>2. m \in WorldType /\ Minds(World, m) /\ m.row.status = row.status
    <3>1. CASE m = StopSession(World)
      BY <1>0, <3>1, StopSessionTyped, StopSessionQuits, QuitsMinds DEF Gentle
    <3>2. CASE m = [World EXCEPT !.waiting = FALSE]
      <4>1. m.row = World.row /\ m \in WorldType
        BY <1>0, <3>2 DEF WorldType
      <4> QED
        BY <1>0, <3>2, <4>1, WaitingMinds
    <3> QED
      BY <1>5, <3>1, <3>2
  <2>3. Minds(m, n) /\ NoEnd(m, n)
    BY <2>1, <2>2, SpawnMinds
  <2>4. Minds(World, n) /\ NoEnd(World, n)
    BY <1>0, <2>2, <2>3, MindsIsTransitive DEF NoEnd
  <2> QED
    BY <1>1, <2>1, <2>4, MethodMinds DEF TurnKept
<1>6. CASE ReplyRestarts(r)
  BY <1>5, <1>6 DEF ReplyRestarts
<1>7. CASE ReplyContinues(r)
  BY <1>5, <1>7 DEF ReplyContinues
<1>8. CASE ReplyResumes(r)
  <2>1. CASE row.mark
    BY <1>1, <1>8, <2>1, WatchKept DEF ReplyResumes
  <2>2. CASE ~row.mark
    BY <1>5, <1>8, <2>2 DEF ReplyResumes
  <2> QED
    BY <2>1, <2>2
<1> QED
  BY <1>2, <1>3, <1>4, <1>6, <1>7, <1>8 DEF ReplyStep

LEMMA KillMinds ==
    ASSUME TurnInv, NEW k \in Kills, StopMarks(k) \/ MarkDone(k) \/ KillStep(k)
    PROVE  TurnKept
<1>0. /\ World \in WorldType /\ row \in Row /\ run \in [Runs -> RunState]
      /\ World.live = live /\ World.row = row
  BY WorldIsTyped DEF TurnInv, SessionInv, RequestTypes, World
<1>1. CASE StopMarks(k)
  BY <1>0, <1>1, RowMinds DEF StopMarks, RunState, Row, TurnKept
<1>2. CASE StopKills(k)
  BY <1>0, <1>2, AimedMinds, MethodMinds DEF StopKills, NoEnd, TurnKept
<1>3. CASE MarkDone(k)
  <2> DEFINE m == StatusSet(World, "done", FALSE)
  <2>1. /\ m \in WorldType /\ Minds(World, m) /\ m.row.status = "done"
    BY <1>0, StatusSetTyped, StatusSetMinds DEF Gentle, Status
  <2>2. PICK n \in {m, Aimed(m)} : Becomes(n)
    BY <1>3 DEF MarkDone
  <2> HIDE DEF m
  <2>3. Minds(World, n) /\ n.row.status = "done"
    BY <2>1, <2>2, AimedMinds, MindsIsTransitive
  <2>4. ~EndsTurn
    BY <2>2, <2>3 DEF EndsTurn, Becomes
  <2>5. openAgents' = openAgents /\ run' = run /\ todo' \subseteq todo
    BY <1>3 DEF MarkDone
  <2> QED
    BY <2>2, <2>3, <2>4, <2>5, MethodMinds DEF WaitsForWork, TurnKept
<1>4. CASE KillSucceeds(k)
  BY <1>4, QuitKept DEF KillSucceeds
<1>5. CASE KillFails(k)
  BY <1>0, <1>5, RowMinds DEF KillFails, Row, TurnKept
<1>6. CASE StopFinishes(k)
  BY <1>0, <1>6, RowMinds DEF StopFinishes, Row, TurnKept
<1> QED
  BY <1>1, <1>2, <1>3, <1>4, <1>5, <1>6 DEF KillStep

\* A result of the parent, its question, its end.
LEMMA ClaudeMinds ==
    ASSUME TurnInv, NEW p \in Pids, ParentResult(p) \/ Question(p) \/ Dies(p) \/ Closes(p)
    PROVE  TurnKept
<1>0. /\ World \in WorldType /\ row \in Row /\ openAgents \subseteq Agents
      /\ claude \in [Pids -> Claude] /\ entry \in [Pids -> Entry]
      /\ live \in Pids \cup {None} /\ World.live = live /\ World.row = row
      /\ World.claude = claude /\ World.entry = entry
  BY WorldIsTyped DEF TurnInv, SessionInv, RequestTypes, World
<1>1. openAgents' = openAgents /\ run' = run /\ todo' = todo
  BY DEF ParentResult, Question, Dies, Closes
<1>2. CASE Question(p)
  BY <1>0, <1>1, <1>2, RowMinds DEF Question, Row, TurnKept
<1>3. CASE Dies(p)
  BY <1>1, <1>3, WatchKept DEF Dies
<1>4. CASE ParentResult(p)
  <2> DEFINE q == [World EXCEPT !.claude[p].owes = FALSE]
             heard == [World EXCEPT !.claude[p].owes = FALSE, !.entry[p].completed = TRUE]
             Like(m) == /\ m \in WorldType /\ m.live = live /\ m.row = row
                        /\ \A x \in Pids : /\ m.claude[x].doing = claude[x].doing
                                           /\ m.claude[x].unwatched = claude[x].unwatched
                                           /\ m.entry[x].agents = entry[x].agents
                                           /\ m.entry[x].runs = entry[x].runs
  <2>1. Like(q) /\ q.entry = entry
    <3> DEFINE c == [claude[p] EXCEPT !.owes = FALSE]
    <3>1. c \in Claude /\ c.doing = claude[p].doing /\ c.unwatched = claude[p].unwatched
      BY <1>0 DEF Claude
    <3>2. q = [World EXCEPT !.claude = [claude EXCEPT ![p] = c]]
      BY <1>0
    <3> HIDE DEF c, q
    <3> QED
      BY <1>0, <3>1, <3>2 DEF WorldType
  <2>2. Like(heard)
    <3> DEFINE e == [entry[p] EXCEPT !.completed = TRUE]
    <3>1. e \in Entry /\ e.agents = entry[p].agents /\ e.runs = entry[p].runs
      BY <1>0 DEF Entry
    <3>2. heard = [q EXCEPT !.entry = [entry EXCEPT ![p] = e]]
      BY <1>0
    <3> HIDE DEF e, q, heard
    <3> QED
      BY <1>0, <2>1, <3>1, <3>2 DEF WorldType
  <2>3. PICK n : /\ Becomes(n)
                 /\ \/ n = q
                    \/ \E question \in BOOLEAN : n = HandleTurnComplete(heard, question)
                    \/ n = HandleTaskError(heard)
    BY <1>4 DEF ParentResult
  <2> HIDE DEF q, heard
  <2>4. ASSUME NEW m, Like(m)
        PROVE  Minds(World, m)
    BY <1>0, <2>4 DEF Minds, Own
  <2>5. CASE n = q
    BY <1>0, <1>1, <2>1, <2>3, <2>4, <2>5, MethodMinds DEF NoEnd, TurnKept
  <2>6. CASE n = HandleTaskError(heard)
    <3>1. Minds(heard, n) /\ NoEnd(heard, n)
      BY <2>2, <2>6, HandleTaskErrorQuits, QuitsMinds, MindsIsReflexive DEF NoEnd
    <3>2. Minds(World, n) /\ NoEnd(World, n)
      BY <1>0, <2>2, <2>4, <3>1, MindsIsTransitive DEF NoEnd
    <3> QED
      BY <1>1, <2>3, <3>2, MethodMinds DEF TurnKept
  <2>7. ASSUME NEW question \in BOOLEAN, n = HandleTurnComplete(heard, question)
        PROVE  TurnKept
    <3>1. /\ Minds(heard, n) /\ n.claude = heard.claude
          /\ NoEnd(heard, n) \/ (n.live = live /\ NothingPending(heard))
      BY <1>0, <2>2, <2>7, HandleTurnCompleteMinds
    <3>2. Minds(World, n)
      BY <2>2, <2>4, <3>1, MindsIsTransitive
    <3>3. WorkOnce' /\ Watched' /\ (NoEnd(World, n) => WaitsForWork)
      BY <1>1, <2>3, <3>2, MethodMinds
    <3>4. ASSUME EndsTurn, NothingPending(heard)
          PROVE  WaitsForWork
      <4>1. live \in Pids /\ live' = live
        BY <1>0, <3>4 DEF EndsTurn
      <4>2. OwnWork(live)' = OwnWork(live)
        BY <2>2, <2>3, <3>1, <4>1 DEF OwnWork, Becomes
      <4>3. entry[live].runs = {} /\ (entry[live].agents = {} \/ openAgents = {})
        BY <2>2, <3>4, <4>1 DEF NothingPending
      <4> QED
        BY <1>1, <3>4, <4>2, <4>3, EndWaits DEF EndsTurn
    <3> QED
      BY <1>0, <2>2, <3>1, <3>3, <3>4 DEF NoEnd, WaitsForWork, TurnKept
  <2> QED
    BY <2>3, <2>5, <2>6, <2>7
<1>5. CASE Closes(p)
  <2> DEFINE m == [World EXCEPT !.kid[p] = "closed", !.claude[p] = Resting]
  <2>1. /\ m \in WorldType /\ m.row = row /\ m.live = live /\ m.entry = entry
        /\ m.claude = [claude EXCEPT ![p] = Resting]
    BY <1>0 DEF WorldType, Kid, Claude, Resting
  <2>2. PICK n : /\ Becomes(n)
                 /\ \/ n = [m EXCEPT !.live = None, !.row.pid = None]
                    \/ n = m
                    \/ n = [m EXCEPT !.row.pid = None]
                    \/ n = HandleTaskError(m)
                    \/ n = HandleLostLiveSession(m)
    BY <1>5 DEF Closes
  <2> HIDE DEF m
  <2>3. Minds(World, m)
    BY <1>0, <2>1 DEF Minds, Own, Resting
  <2>4. Minds(m, n) /\ NoEnd(m, n)
    <3>1. CASE n = [m EXCEPT !.live = None, !.row.pid = None]
      <4>1. Quits(m, n)
        BY <2>1, <3>1 DEF Quits, WorldType
      <4> QED
        BY <4>1, QuitsMinds
    <3>2. CASE n = [m EXCEPT !.row.pid = None]
      <4>1. /\ n.claude = m.claude /\ n.live = m.live /\ n.entry = m.entry
            /\ n.row.status = m.row.status
        BY <2>1, <3>2 DEF WorldType, Row
      <4> QED
        BY <4>1 DEF Minds, Own, NoEnd
    <3>3. CASE n \in {m, HandleTaskError(m), HandleLostLiveSession(m)}
      BY <2>1, <3>3, HandleTaskErrorQuits, HandleLostLiveSessionQuits, QuitsMinds,
         MindsIsReflexive DEF NoEnd
    <3> QED
      BY <2>2, <3>1, <3>2, <3>3
  <2>5. Minds(World, n) /\ NoEnd(World, n)
    BY <1>0, <2>1, <2>3, <2>4, MindsIsTransitive DEF NoEnd
  <2> QED
    BY <1>1, <2>2, <2>5, MethodMinds DEF TurnKept
<1> QED
  BY <1>2, <1>3, <1>4, <1>5

LEMMA ReapMinds ==
    ASSUME TurnInv, Reap
    PROVE  TurnKept
<1>0. World \in WorldType /\ row \in Row /\ World.live = live /\ World.row = row
  BY WorldIsTyped DEF TurnInv, SessionInv, World
<1>1. openAgents' = openAgents /\ run' = run /\ todo' = todo
  BY DEF Reap
<1>2. CASE Stuck /\ ~HasActiveSession
  <2> DEFINE t == Terminated(World, row.pid)
             r == StatusSet(t, "review", row.pid # None)
             n == [r EXCEPT !.row.pid = None]
  <2>1. t \in WorldType /\ t.claude = World.claude /\ t.live = World.live
    BY <1>0, TerminatedTyped DEF Terminated, Row, WorldType, Gentle
  <2>2. Becomes(n)
    BY <1>2 DEF Reap
  <2> HIDE DEF t
  <2>3. n.claude = World.claude /\ n.live = World.live
    BY <2>1 DEF StatusSet, WorldType, Row
  <2>4. live = None
    BY <1>2 DEF HasActiveSession
  <2> HIDE DEF n
  <2>5. Quits(World, n)
    BY <1>0, <2>3, <2>4 DEF Quits
  <2> QED
    BY <1>1, <2>2, <2>5, QuitsMinds, MethodMinds DEF TurnKept
<1>3. CASE ~(Stuck /\ ~HasActiveSession)
  BY <1>0, <1>1, <1>3, RowMinds DEF Reap, Row, TurnKept
<1> QED
  BY <1>2, <1>3

\* What the methods work on, with a part of it replaced.
LEMMA WorldFields ==
    ASSUME TurnInv
    PROVE  /\ World.row = row /\ World.live = live
           /\ World.entry = entry /\ World.claude = claude
           /\ row \in Row /\ live \in Pids \cup {None}
           /\ entry \in [Pids -> Entry] /\ claude \in [Pids -> Claude]
           /\ World \in WorldType /\ RequestTypes
BY WorldIsTyped DEF TurnInv, SessionInv, World

\* Process p sets x going, and the books of the session have it if the session is p's.
LEMMA BeginKept ==
    ASSUME TurnInv, NEW p \in Pids, NEW x \in Work, x \in todo, todo' = todo \ {x},
           live' = live, row'.status \in {row.status, "running"},
           claude' \in [Pids -> Claude],
           \A q \in Pids \ {p} : claude'[q] = claude[q],
           claude'[p].doing = claude[p].doing \cup {x},
           claude[p].unwatched \subseteq claude'[p].unwatched,
           openAgents' \subseteq openAgents \cup {x},
           \A w \in Runs \ {x} : run[w].at = "terminal" => run'[w].at = "terminal",
           live # None => /\ entry[live].agents \subseteq entry'[live].agents
                          /\ entry[live].runs \subseteq entry'[live].runs,
           live = p /\ x \notin claude'[p].unwatched =>
               /\ x \in openAgents' => x \in entry'[live].agents
               /\ x \in Runs => x \in entry'[live].runs
    PROVE  TurnKept
<1>1. WorkOnce'
  BY DEF TurnInv, WorkOnce
<1>2. Watched'
  <2> SUFFICES ASSUME live # None
               PROVE  /\ OwnWork(live)' \cap openAgents' \subseteq entry'[live].agents
                      /\ \A w \in Runs \cap OwnWork(live)' :
                             run'[w].at # "terminal" => w \in entry'[live].runs
    BY DEF Watched
  <2>1. /\ live \in Pids
        /\ \A q \in Pids : x \notin claude[q].doing
    BY WorldFields DEF TurnInv, WorkOnce
  <2>2. OwnWork(live)' \subseteq OwnWork(live) \cup (IF live = p THEN {x} ELSE {})
    BY <2>1 DEF OwnWork
  <2>3. live # p => x \notin OwnWork(live)'
    BY <2>1, <2>2 DEF OwnWork
  <2>4. x \in OwnWork(live)' => x \notin claude'[live].unwatched
    BY DEF OwnWork
  <2> QED
    BY <2>1, <2>2, <2>3, <2>4 DEF TurnInv, Watched
<1>3. ~EndsTurn
  BY DEF EndsTurn
<1> QED
  BY <1>1, <1>2, <1>3 DEF TurnKept, WaitsForWork

\* x is over: no process does it any longer, whatever the books say of it.
LEMMA OverKept ==
    ASSUME TurnInv, NEW p \in Pids, NEW x \in claude[p].doing, todo' = todo,
           live' = live, row'.status \in {row.status, "running"},
           claude' \in [Pids -> Claude],
           \A q \in Pids \ {p} : claude'[q] = claude[q],
           claude'[p].doing = claude[p].doing \ {x},
           claude'[p].unwatched = claude[p].unwatched \ {x},
           openAgents' \subseteq openAgents,
           \A w \in Runs : run[w].at = "terminal" => run'[w].at = "terminal",
           live # None => /\ entry[live].agents \ {x} \subseteq entry'[live].agents
                          /\ entry[live].runs \ {x} \subseteq entry'[live].runs
    PROVE  TurnKept
<1>1. WorkOnce'
  BY DEF TurnInv, WorkOnce
<1>2. Watched'
  <2> SUFFICES ASSUME live # None
               PROVE  /\ OwnWork(live)' \cap openAgents' \subseteq entry'[live].agents
                      /\ \A w \in Runs \cap OwnWork(live)' :
                             run'[w].at # "terminal" => w \in entry'[live].runs
    BY DEF Watched
  <2>1. live \in Pids
    BY WorldFields
  <2>2. OwnWork(live)' \subseteq OwnWork(live) \ {x}
    BY <2>1 DEF OwnWork, TurnInv, WorkOnce
  <2> QED
    BY <2>2 DEF TurnInv, Watched
<1>3. ~EndsTurn
  BY DEF EndsTurn
<1> QED
  BY <1>1, <1>2, <1>3 DEF TurnKept, WaitsForWork

LEMMA AgentMinds ==
    ASSUME TurnInv, NEW p \in Pids, NEW a \in Agents, AgentStarts(p, a) \/ AgentEnds(p, a)
    PROVE  TurnKept
<1>0. a \in Work /\ a \notin Runs
  BY SessionAssumption DEF Work
<1>1. CASE AgentStarts(p, a)
  <2> DEFINE c == [claude[p] EXCEPT !.doing = @ \cup {a}]
             d == [c EXCEPT !.unwatched = @ \cup {a}]
             e == [entry[live] EXCEPT !.agents = @ \cup {a}]
             m == [World EXCEPT !.claude[p].doing = @ \cup {a}]
             u == [m EXCEPT !.claude[p].unwatched = @ \cup {a}]
             b == [m EXCEPT !.entry[live].agents = @ \cup {a}]
  <2>1. /\ c \in Claude /\ c.doing = claude[p].doing \cup {a}
        /\ c.unwatched = claude[p].unwatched
        /\ d \in Claude /\ d.doing = c.doing /\ d.unwatched = claude[p].unwatched \cup {a}
    BY <1>0, WorldFields DEF Claude
  <2>2. /\ m.row = row /\ m.live = live /\ m.entry = entry
        /\ m.claude = [claude EXCEPT ![p] = c] /\ m \in WorldType
    <3>1. m = [World EXCEPT !.claude = [claude EXCEPT ![p] = c]]
      BY WorldFields
    <3> HIDE DEF c, m
    <3> QED
      BY <2>1, <3>1, WorldFields DEF WorldType
  <2>3. /\ u.row = row /\ u.live = live /\ u.entry = entry
        /\ u.claude = [claude EXCEPT ![p] = d]
    <3>1. m.claude[p] = c
      BY <2>2, WorldFields
    <3> HIDE DEF c, m
    <3>2. u.claude = [m.claude EXCEPT ![p] = d] /\ u.row = m.row /\ u.live = m.live
          /\ u.entry = m.entry
      BY <2>2, <3>1 DEF WorldType
    <3> HIDE DEF d, u
    <3> QED
      BY <2>2, <3>2, WorldFields
  <2>4. live # None => /\ b.row = row /\ b.live = live /\ b.claude = m.claude
                       /\ b.entry = [entry EXCEPT ![live] = e]
                       /\ e.agents = entry[live].agents \cup {a} /\ e.runs = entry[live].runs
                       /\ b \in WorldType
    <3> SUFFICES ASSUME live # None
                 PROVE  /\ b = [m EXCEPT !.entry = [entry EXCEPT ![live] = e]] /\ e \in Entry
                        /\ e.agents = entry[live].agents \cup {a} /\ e.runs = entry[live].runs
      <4> HIDE DEF m, e, b
      <4> QED
        BY <2>2, WorldFields DEF WorldType
    <3> HIDE DEF m
    <3>1. b = [m EXCEPT !.entry = [entry EXCEPT ![live] = e]]
      BY <2>2, WorldFields DEF WorldType
    <3> QED
      BY <3>1, WorldFields DEF Entry
  <2>5. /\ a \in todo /\ todo' = todo \ {a} /\ run' = run
        /\ openAgents' \subseteq openAgents \cup {a}
    BY <1>1 DEF AgentStarts
  <2>6. \/ Becomes(u) /\ openAgents' = openAgents
        \/ Becomes(m) /\ (live = None \/ a \in entry[live].agents)
        \/ Becomes(Busy(b)) /\ live # None
    BY <1>1, <2>2 DEF AgentStarts, m
  <2> HIDE DEF c, d, e, m, u, b
  <2>7. CASE Becomes(u)
    <3>1. /\ row' = row /\ live' = live /\ entry' = entry
          /\ claude' = [claude EXCEPT ![p] = d]
      BY <2>3, <2>7 DEF Becomes
    <3> QED
      BY <1>0, <2>1, <2>5, <3>1, WorldFields, BeginKept
  <2>8. CASE Becomes(m) /\ (live = None \/ a \in entry[live].agents)
    <3>1. /\ row' = row /\ live' = live /\ entry' = entry
          /\ claude' = [claude EXCEPT ![p] = c]
      BY <2>2, <2>8 DEF Becomes
    <3> QED
      BY <1>0, <2>1, <2>5, <2>8, <3>1, SessionAssumption, WorldFields, BeginKept
  <2>9. CASE Becomes(Busy(b)) /\ live # None
    <3>1. /\ Busy(b).row.status = "running" /\ Busy(b).live = live
          /\ Busy(b).entry = b.entry /\ Busy(b).claude = b.claude
      BY <2>4, <2>9 DEF Busy, StatusSet, WorldType, Row
    <3>2. /\ row'.status = "running" /\ live' = live /\ entry' = [entry EXCEPT ![live] = e]
          /\ claude' = [claude EXCEPT ![p] = c]
      BY <2>2, <2>4, <2>9, <3>1 DEF Becomes
    <3> QED
      BY <1>0, <2>1, <2>4, <2>5, <2>9, <3>2, WorldFields, BeginKept
  <2> QED
    BY <2>6, <2>7, <2>8, <2>9
<1>2. CASE AgentEnds(p, a)
  <2> DEFINE c == [claude[p] EXCEPT !.doing = @ \ {a}, !.owes = TRUE, !.unwatched = @ \ {a}]
             e == [entry[live] EXCEPT !.agents = @ \ {a}]
             m == [World EXCEPT !.claude[p].doing = @ \ {a}, !.claude[p].owes = TRUE,
                                !.claude[p].unwatched = @ \ {a}]
             b == [m EXCEPT !.entry[live].agents = @ \ {a}]
  <2>1. /\ c \in Claude /\ c.doing = claude[p].doing \ {a}
        /\ c.unwatched = claude[p].unwatched \ {a}
    BY WorldFields DEF Claude
  <2>2. /\ m.row = row /\ m.live = live /\ m.entry = entry
        /\ m.claude = [claude EXCEPT ![p] = c] /\ m \in WorldType
    <3>1. m = [World EXCEPT !.claude = [claude EXCEPT ![p] = c]]
      BY WorldFields
    <3> HIDE DEF c, m
    <3> QED
      BY <2>1, <3>1, WorldFields DEF WorldType
  <2>3. live # None => /\ b.row = row /\ b.live = live /\ b.claude = m.claude
                       /\ b.entry = [entry EXCEPT ![live] = e]
                       /\ e.agents = entry[live].agents \ {a} /\ e.runs = entry[live].runs
                       /\ b \in WorldType
    <3> SUFFICES ASSUME live # None
                 PROVE  /\ b = [m EXCEPT !.entry = [entry EXCEPT ![live] = e]] /\ e \in Entry
                        /\ e.agents = entry[live].agents \ {a} /\ e.runs = entry[live].runs
      <4> HIDE DEF m, e, b
      <4> QED
        BY <2>2, WorldFields DEF WorldType
    <3> HIDE DEF m
    <3>1. b = [m EXCEPT !.entry = [entry EXCEPT ![live] = e]]
      BY <2>2, WorldFields DEF WorldType
    <3> QED
      BY <3>1, WorldFields DEF Entry
  <2>4. /\ a \in claude[p].doing /\ todo' = todo /\ run' = run
        /\ openAgents' \subseteq openAgents
    BY <1>2 DEF AgentEnds
  <2>5. \/ Becomes(m)
        \/ live # None /\ (Becomes(Busy(b)) \/ Becomes(StorePid(Busy(b), live)))
    BY <1>2, <2>2 DEF AgentEnds, m
  <2> HIDE DEF c, e, m, b
  <2>6. CASE Becomes(m)
    <3>1. /\ row' = row /\ live' = live /\ entry' = entry
          /\ claude' = [claude EXCEPT ![p] = c]
      BY <2>2, <2>6 DEF Becomes
    <3> QED
      BY <2>1, <2>4, <3>1, WorldFields, OverKept
  <2>7. CASE live # None /\ (Becomes(Busy(b)) \/ Becomes(StorePid(Busy(b), live)))
    <3>1. /\ Busy(b).row.status = "running" /\ Busy(b).live = live
          /\ Busy(b).entry = b.entry /\ Busy(b).claude = b.claude /\ Busy(b) \in WorldType
      BY <2>3, <2>7, BusyTyped DEF Busy, StatusSet, Gentle, WorldType, Row
    <3>2. /\ row'.status = "running" /\ live' = live /\ entry' = b.entry /\ claude' = b.claude
      <4>1. CASE Becomes(Busy(b))
        BY <3>1, <4>1 DEF Becomes
      <4>2. CASE Becomes(StorePid(Busy(b), live))
        BY <3>1, <4>2 DEF Becomes, StorePid, WorldType, Row
      <4> QED
        BY <2>7, <4>1, <4>2
    <3>3. /\ entry' = [entry EXCEPT ![live] = e] /\ claude' = [claude EXCEPT ![p] = c]
          /\ e.agents = entry[live].agents \ {a} /\ e.runs = entry[live].runs
      BY <2>2, <2>3, <2>7, <3>2
    <3>4. /\ entry[live].agents \ {a} \subseteq entry'[live].agents
          /\ entry[live].runs \ {a} \subseteq entry'[live].runs
      BY <2>7, <3>3, WorldFields
    <3>5. /\ claude' \in [Pids -> Claude]
          /\ \A q \in Pids \ {p} : claude'[q] = claude[q]
          /\ claude'[p].doing = claude[p].doing \ {a}
          /\ claude'[p].unwatched = claude[p].unwatched \ {a}
      BY <2>1, <3>3, WorldFields
    <3> QED
      BY <2>4, <3>2, <3>4, <3>5, OverKept
  <2> QED
    BY <2>5, <2>6, <2>7
<1> QED
  BY <1>1, <1>2

LEMMA LaunchMinds ==
    ASSUME TurnInv, NEW p \in Pids, NEW w \in Runs, RunLaunched(p, w)
    PROVE  TurnKept
<1> DEFINE c == [claude[p] EXCEPT !.doing = @ \cup {w}]
           d == [c EXCEPT !.unwatched = @ \cup {w}]
           e == [entry[live] EXCEPT !.runs = @ \cup {w}, !.pending = FALSE]
           m == [World EXCEPT !.claude[p].doing = @ \cup {w}]
           u == [m EXCEPT !.claude[p].unwatched = @ \cup {w}]
           b == [m EXCEPT !.entry[live].runs = @ \cup {w}, !.entry[live].pending = FALSE]
<1>0. w \in Work /\ w \notin Agents
  BY SessionAssumption DEF Work
<1>1. /\ c \in Claude /\ c.doing = claude[p].doing \cup {w}
      /\ c.unwatched = claude[p].unwatched
      /\ d \in Claude /\ d.doing = c.doing /\ d.unwatched = claude[p].unwatched \cup {w}
  BY <1>0, WorldFields DEF Claude
<1>2. /\ m.row = row /\ m.live = live /\ m.entry = entry
      /\ m.claude = [claude EXCEPT ![p] = c] /\ m \in WorldType
  <2>1. m = [World EXCEPT !.claude = [claude EXCEPT ![p] = c]]
    BY WorldFields
  <2> HIDE DEF c, m
  <2> QED
    BY <1>1, <2>1, WorldFields DEF WorldType
<1>3. w \in todo /\ todo' = todo \ {w} /\ openAgents' = openAgents
  BY DEF RunLaunched
<1>4. \A v \in Runs \ {w} : run'[v] = run[v]
  BY WorldFields DEF RunLaunched, RequestTypes
<1>5. CASE row.mark \/ live = None
  <2>1. Becomes(u)
    BY <1>5 DEF RunLaunched
  <2>2. u.row = row /\ u.live = live /\ u.entry = entry /\ u.claude = [claude EXCEPT ![p] = d]
    <3>1. m.claude[p] = c
      BY <1>2, WorldFields
    <3> HIDE DEF c, m
    <3>2. u.claude = [m.claude EXCEPT ![p] = d] /\ u.row = m.row /\ u.live = m.live
          /\ u.entry = m.entry
      BY <1>2, <3>1 DEF WorldType
    <3> HIDE DEF d, u
    <3> QED
      BY <1>2, <3>2, WorldFields
  <2> HIDE DEF c, d, m, u
  <2>3. row' = row /\ live' = live /\ entry' = entry /\ claude' = [claude EXCEPT ![p] = d]
    BY <2>1, <2>2 DEF Becomes
  <2> QED
    BY <1>0, <1>1, <1>3, <1>4, <2>3, WorldFields, BeginKept
<1>6. CASE ~row.mark /\ live # None
  <2>1. Becomes(Busy(b))
    BY <1>6 DEF RunLaunched
  <2>2. /\ b.row = row /\ b.live = live /\ b.claude = m.claude
        /\ b.entry = [entry EXCEPT ![live] = e]
        /\ e.agents = entry[live].agents /\ e.runs = entry[live].runs \cup {w}
        /\ b \in WorldType
    <3> SUFFICES /\ b = [m EXCEPT !.entry = [entry EXCEPT ![live] = e]] /\ e \in Entry
                 /\ e.agents = entry[live].agents /\ e.runs = entry[live].runs \cup {w}
      <4> HIDE DEF m, e, b
      <4> QED
        BY <1>2, <1>6, WorldFields DEF WorldType
    <3> HIDE DEF m
    <3>1. b = [m EXCEPT !.entry = [entry EXCEPT ![live] = e]]
      BY <1>2, <1>6, WorldFields DEF WorldType
    <3> QED
      BY <1>6, <3>1, WorldFields DEF Entry
  <2> HIDE DEF c, e, m, b
  <2>3. /\ Busy(b).row.status = "running" /\ Busy(b).live = live
        /\ Busy(b).entry = b.entry /\ Busy(b).claude = b.claude
    BY <2>2 DEF Busy, StatusSet, WorldType, Row
  <2>4. /\ row'.status = "running" /\ live' = live /\ entry' = [entry EXCEPT ![live] = e]
        /\ claude' = [claude EXCEPT ![p] = c]
    BY <1>2, <2>1, <2>2, <2>3 DEF Becomes
  <2>5. /\ live \in Pids /\ entry'[live] = e
    BY <1>6, <2>4, WorldFields
  <2>6. /\ entry[live].agents \subseteq entry'[live].agents
        /\ entry[live].runs \subseteq entry'[live].runs /\ w \in entry'[live].runs
    BY <2>2, <2>5
  <2>7. /\ claude' \in [Pids -> Claude]
        /\ \A q \in Pids \ {p} : claude'[q] = claude[q]
        /\ claude'[p].doing = claude[p].doing \cup {w}
        /\ claude[p].unwatched \subseteq claude'[p].unwatched
    BY <1>1, <2>4, WorldFields
  <2>8. w \notin openAgents' /\ openAgents' \subseteq openAgents \cup {w}
    BY <1>0, <1>3, WorldFields DEF RequestTypes
  <2>9. \A v \in Runs \ {w} : run[v].at = "terminal" => run'[v].at = "terminal"
    BY <1>4
  <2> QED
    BY <1>0, <1>3, <2>4, <2>6, <2>7, <2>8, <2>9, BeginKept
<1> QED
  BY <1>5, <1>6

LEMMA RunEndMinds ==
    ASSUME TurnInv, NEW p \in Pids, NEW w \in Runs, RunEnds(p, w)
    PROVE  TurnKept
<1> DEFINE known == run[w].at \in {"observed", "finalizing", "terminal"}
           c == [claude[p] EXCEPT !.doing = @ \ {w}, !.owes = TRUE, !.unwatched = @ \ {w}]
           e == RunIsOver(entry[live], w, known)
           m == [World EXCEPT !.claude[p].doing = @ \ {w}, !.claude[p].owes = TRUE,
                              !.claude[p].unwatched = @ \ {w}]
           b == [m EXCEPT !.entry[live] = RunIsOver(@, w, known)]
<1>1. /\ c \in Claude /\ c.doing = claude[p].doing \ {w}
      /\ c.unwatched = claude[p].unwatched \ {w}
  BY WorldFields DEF Claude
<1>2. /\ m.row = row /\ m.live = live /\ m.entry = entry
      /\ m.claude = [claude EXCEPT ![p] = c] /\ m \in WorldType
  <2>1. m = [World EXCEPT !.claude = [claude EXCEPT ![p] = c]]
    BY WorldFields
  <2> HIDE DEF c, m
  <2> QED
    BY <1>1, <2>1, WorldFields DEF WorldType
<1>3. w \in claude[p].doing /\ todo' = todo /\ openAgents' = openAgents
  BY DEF RunEnds
<1>4. \A v \in Runs : run[v].at = "terminal" => run'[v].at = "terminal"
  BY WorldFields DEF RunEnds, RequestTypes, RunState
<1>5. ASSUME live' = live, row'.status \in {row.status, "running"},
             claude' = [claude EXCEPT ![p] = c],
             live # None => /\ entry'[live].agents = entry[live].agents
                            /\ entry'[live].runs = entry[live].runs \ {w}
                      \/ entry' = entry
      PROVE  TurnKept
  <2> HIDE DEF c
  <2>1. /\ claude' \in [Pids -> Claude]
        /\ \A q \in Pids \ {p} : claude'[q] = claude[q]
        /\ claude'[p].doing = claude[p].doing \ {w}
        /\ claude'[p].unwatched = claude[p].unwatched \ {w}
    BY <1>1, <1>5, WorldFields
  <2> QED
    BY <1>3, <1>4, <1>5, <2>1, OverKept
<1>6. \/ Becomes(m)
      \/ live # None /\ Becomes(Busy(b))
  BY DEF RunEnds
<1>7. CASE Becomes(m)
  <2> HIDE DEF c, m
  <2>1. row' = row /\ live' = live /\ entry' = entry /\ claude' = [claude EXCEPT ![p] = c]
    BY <1>2, <1>7 DEF Becomes
  <2> QED
    BY <1>5, <2>1
<1>8. CASE live # None /\ Becomes(Busy(b))
  <2>1. /\ b.row = row /\ b.live = live /\ b.claude = m.claude
        /\ b.entry = [entry EXCEPT ![live] = e]
        /\ e.agents = entry[live].agents /\ e.runs = entry[live].runs \ {w}
        /\ b \in WorldType
    <3> SUFFICES /\ b = [m EXCEPT !.entry = [entry EXCEPT ![live] = e]] /\ e \in Entry
                 /\ e.agents = entry[live].agents /\ e.runs = entry[live].runs \ {w}
      <4> HIDE DEF m, e, b
      <4> QED
        BY <1>2, <1>8, WorldFields DEF WorldType
    <3> HIDE DEF m, known
    <3>1. b = [m EXCEPT !.entry = [entry EXCEPT ![live] = e]]
      BY <1>2, <1>8, WorldFields DEF WorldType
    <3> QED
      BY <1>8, <3>1, WorldFields DEF Entry, RunIsOver
  <2> HIDE DEF c, e, m, b
  <2>2. /\ Busy(b).row.status = "running" /\ Busy(b).live = live
        /\ Busy(b).entry = b.entry /\ Busy(b).claude = b.claude
    BY <2>1 DEF Busy, StatusSet, WorldType, Row
  <2>3. /\ row'.status = "running" /\ live' = live /\ entry' = [entry EXCEPT ![live] = e]
        /\ claude' = [claude EXCEPT ![p] = c]
    BY <1>2, <1>8, <2>1, <2>2 DEF Becomes
  <2>4. entry'[live] = e
    BY <1>8, <2>3, WorldFields
  <2> QED
    BY <1>5, <2>1, <2>3, <2>4
<1> QED
  BY <1>6, <1>7, <1>8

\* A journal found, given up on (its run is then nobody's to wait for), or read to its end.
LEMMA JournalMinds ==
    ASSUME TurnInv, NEW w \in Runs, JournalOpened(w) \/ JournalFails(w) \/ JournalFinal(w)
    PROVE  TurnKept
<1>1. openAgents' = openAgents /\ todo' = todo
  BY DEF JournalOpened, JournalFails, JournalFinal
<1>2. \A v \in Runs : run[v].at = "terminal" => run'[v].at = "terminal"
  BY WorldFields DEF JournalOpened, JournalFails, JournalFinal, RequestTypes, RunState
<1>3. CASE JournalOpened(w)
  BY <1>1, <1>2, <1>3, WatchKept DEF JournalOpened, KeepsWorld
<1>4. CASE JournalFails(w)
  <2>1. row' = row /\ live' = live
    BY <1>4 DEF JournalFails
  <2>2. \A p \in Pids : /\ claude'[p].doing = claude[p].doing
                        /\ claude'[p].unwatched
                               = claude[p].unwatched \cup ({w} \cap claude[p].doing)
    BY <1>4, WorldFields DEF JournalFails, Claude
  <2>3. \A p \in Pids : /\ entry'[p].agents = entry[p].agents
                        /\ entry[p].runs \ {w} \subseteq entry'[p].runs
    <3> DEFINE o == run[w].owner
               e == [entry[o] EXCEPT !.runs = @ \ {w}]
    <3>1. entry' = [entry EXCEPT ![o] = e]
      BY <1>4 DEF JournalFails
    <3>2. o \in Pids => e.agents = entry[o].agents /\ e.runs = entry[o].runs \ {w}
      BY WorldFields DEF Entry
    <3> HIDE DEF o, e
    <3> QED
      BY <3>1, <3>2, WorldFields
  <2>4. WorkOnce'
    BY <1>1, <2>2 DEF TurnInv, WorkOnce
  <2>5. Watched'
    BY <1>1, <1>2, <2>1, <2>2, <2>3, WorldFields DEF TurnInv, Watched, OwnWork
  <2> QED
    BY <2>1, <2>4, <2>5 DEF TurnKept, WaitsForWork, EndsTurn
<1>5. CASE JournalFinal(w)
  <2> DEFINE s == SessionUnder(HostTaskId)
             e == [entry[s] EXCEPT !.runs = @ \ {w}, !.terminalizing = @ \ {w}]
             m == [World EXCEPT !.entry[s].runs = @ \ {w}, !.entry[s].terminalizing = @ \ {w}]
  <2>1. PICK n : /\ Becomes(n)
                 /\ \/ n = World
                    \/ s # None /\ n \in {HandleTurnComplete(m, FALSE), Busy(m)}
    BY <1>5 DEF JournalFinal
  <2>2. run'[w].at = "terminal"
    BY <1>5, WorldFields DEF JournalFinal, RequestTypes, RunState
  <2>3. CASE n = World
    BY <1>1, <1>2, <2>1, <2>3, MindsIsReflexive, MethodMinds DEF NoEnd, TurnKept
  <2>4. CASE s # None /\ n \in {HandleTurnComplete(m, FALSE), Busy(m)}
    <3>1. s = live /\ live \in Pids
      BY <2>4, WorldFields DEF SessionUnder
    <3>2. e \in Entry /\ e.agents = entry[s].agents /\ e.runs = entry[s].runs \ {w}
      BY <3>1, WorldFields DEF Entry
    <3>3. /\ m \in WorldType /\ m.row = row /\ m.live = live /\ m.claude = claude
          /\ m.entry = [entry EXCEPT ![s] = e]
      <4>1. m = [World EXCEPT !.entry = [entry EXCEPT ![s] = e]]
        BY <3>1, WorldFields
      <4> HIDE DEF m, e, s
      <4> QED
        BY <3>1, <3>2, <4>1, WorldFields DEF WorldType
    <3> HIDE DEF m, e, s
    <3>4. \A p \in Pids :
              /\ m.entry[p].agents = entry[p].agents
              /\ \A v \in entry[p].runs : v \in m.entry[p].runs \/ run'[v].at = "terminal"
      BY <2>2, <3>1, <3>2, <3>3, WorldFields
    <3>5. CASE n = Busy(m)
      <4>1. Minds(m, n) /\ NoEnd(m, n)
        BY <3>3, <3>5, StatusSetMinds DEF Busy, NoEnd, Status
      <4> QED
        BY <1>1, <1>2, <2>1, <3>1, <3>3, <3>4, <4>1, BooksMind DEF TurnKept
    <3>6. CASE n = HandleTurnComplete(m, FALSE)
      <4>1. /\ Minds(m, n) /\ n.claude = m.claude
            /\ NoEnd(m, n) \/ (n.live = m.live /\ NothingPending(m))
        BY <3>3, <3>6, WorldFields, HandleTurnCompleteMinds DEF RequestTypes
      <4>2. WorkOnce' /\ Watched' /\ (NoEnd(m, n) => WaitsForWork)
        BY <1>1, <1>2, <2>1, <3>1, <3>3, <3>4, <4>1, BooksMind
      <4>3. ASSUME EndsTurn, NothingPending(m)
            PROVE  WaitsForWork
        <5>1. OwnWork(live)' = OwnWork(live)
          BY <2>1, <3>3, <4>1, <4>3 DEF OwnWork, Becomes, EndsTurn
        <5>2. entry[live].agents = {} \/ openAgents = {}
          BY <3>1, <3>3, <3>4, <4>3 DEF NothingPending
        <5>3. \A v \in entry[live].runs : run'[v].at = "terminal"
          BY <3>1, <3>3, <3>4, <4>3 DEF NothingPending
        <5> QED
          BY <1>1, <1>2, <4>3, <5>1, <5>2, <5>3, EndWaits DEF EndsTurn
      <4> QED
        BY <4>1, <4>2, <4>3 DEF WaitsForWork, TurnKept
    <3> QED
      BY <2>4, <3>5, <3>6
  <2> QED
    BY <2>1, <2>3, <2>4
<1> QED
  BY <1>3, <1>4, <1>5

LEMMA TurnInvInit == Init => TurnInv
<1> SUFFICES ASSUME Init PROVE TurnInv
  OBVIOUS
<1>1. WorkOnce
  BY DEF Init, WorkOnce, Resting
<1>2. Watched
  BY DEF Init, Watched
<1> QED
  BY <1>1, <1>2, InvInit DEF TurnInv

LEMMA TurnInvNext == TurnInv /\ [Next]_vars => TurnInv' /\ WaitsForWork
<1> SUFFICES ASSUME TurnInv, [Next]_vars PROVE TurnInv' /\ WaitsForWork
  OBVIOUS
<1>1. SessionInv'
  BY InvNext DEF TurnInv
<1>2. TurnKept
  <2>1. CASE Next
    BY <2>1, StartMinds, ReplyMinds, KillMinds, ClaudeMinds, AgentMinds, LaunchMinds,
       RunEndMinds, JournalMinds, ReapMinds DEF Next
  <2>2. CASE UNCHANGED vars
    BY <2>2, WatchKept DEF vars
  <2> QED
    BY <2>1, <2>2
<1> QED
  BY <1>1, <1>2 DEF TurnInv, TurnKept

\* The end of a turn takes the task to the user only when everything that the turn has set
\* going, and that the manager was told of, is over by the logs and the journals
\* (handleTurnComplete): for any number of agents, workflow runs, late results of replaced
\* processes, replies and stops.
THEOREM TurnWaitsForItsWork == Spec => GoalWaitsForItsWork
<1>1. TurnInv /\ [Next]_vars =>
          [live # None /\ live' = live /\ row.status = "running"
           /\ row'.status = "review" /\ row'.needsInput
             => /\ OwnWork(live)' \cap openAgents' = {}
                /\ \A w \in Runs \cap OwnWork(live)' : run'[w].at = "terminal"]_vars
  BY TurnInvNext DEF WaitsForWork, EndsTurn
<1> QED
  BY <1>1, TurnInvInit, TurnInvNext, PTL DEF Spec, GoalWaitsForItsWork
=============================================================================
