-------------------------------- MODULE Chat --------------------------------
(***************************************************************************)
(* The group chat of internal/sim/cohort.go and what cmd/populace does to  *)
(* it: a script, canned or written by the model, released one turn a tick  *)
(* as its speakers hear the story, while handlers break stories, reset the *)
(* world and reroll the friends, and a goroutine per story goes to fetch   *)
(* the model's dialogue and installs it if it is not too late.             *)
(*                                                                         *)
(* Everything but the wait for the model runs under the server's mutex, so *)
(* each tick, each handler and each locked part of the goroutine is one    *)
(* action.  A persona is told apart only by whether it has heard (its      *)
(* contagion state is not Unaware), and a text by who wrote it, for whom   *)
(* and as which turn.  Indices and message ids start at 1, and 0 is the    *)
(* code's -1.  Every speaker is in range: both authors see to it, and all  *)
(* cohorts have the same size.                                             *)
(***************************************************************************)
EXTENDS Naturals, Integers, FiniteSets, Sequences, SequencesExt

CONSTANTS
  People,
  Size,         \* friends in a cohort; the code draws six
  Cohorts,      \* the draws a cohort can come from: sequences of people
  Stories,
  StallLimit,   \* scriptStallLimit
  MaxHistory,   \* Cohort.maxHistory
  Nobody,       \* no story; a diff baseline not taken yet
  MaxTangents,  \* bound: turns that wander off; the code adds one or two
  MaxTurns,     \* bound: turns in a dialogue of the model
  MaxActs,      \* bound: handlers called
  MaxChatter    \* bound: the last message id at which opinions still move

ASSUME ChatAssumption ==
  /\ Cohorts # {} /\ Cohorts \subseteq Seq(People)
  /\ \A c \in Cohorts : Len(c) = Size /\ IsInjective(c)
  /\ Size \in Nat \ {0}
  /\ StallLimit \in Nat \ {0} /\ MaxHistory \in Nat \ {0}
  /\ MaxTangents \in Nat /\ MaxTurns \in Nat

VARIABLES
  friends,    \* Cohort.Friends
  heard,      \* personas that are not Unaware
  spreading,  \* a story broke since the world was last at rest
  prev,       \* Cohort.prevState: who had heard at the last tick
  script, author, cursor,   \* the script, who wrote it for whom, next turn
  waited,     \* ticks the cursor has been stuck, -1 if it is not
  landed,     \* Cohort.scriptMsgID
  messages, nextMsgID,
  story,      \* server.story
  warm,       \* warm[a]: the goroutine that the event numbered a started
  acts        \* handlers called so far

scriptVars  == <<script, author, cursor, waited, landed>>
messageVars == <<messages, nextMsgID>>
worldVars   == <<friends, heard, spreading, prev>>
vars == <<worldVars, scriptVars, messageVars, story, warm, acts>>

Turn(speaker, replyTo) == [speaker |-> speaker, replyTo |-> replyTo]

(* Who wrote a script: nobody or the canned writer (0) or the goroutine of  *)
(* an event, at which act the story was told, and for which friends.        *)
Author(by, telling, for) == [by |-> by, telling |-> telling, for |-> for]

(* buildCannedScript: in some order everybody speaks, the first opening the *)
(* thread and each other answering any turn before; then one or two turns   *)
(* wander off from the one before.                                          *)
Openings ==
  {[i \in 1..Size |-> Turn(order[i], to[i])] :
     order \in {o \in [1..Size -> 1..Size] : IsInjective(o)},
     to \in {t \in [1..Size -> 0..(Size - 1)] :
               t[1] = 0 /\ \A i \in 2..Size : t[i] \in 1..(i - 1)}}

Tangents(k) ==
  {[i \in 1..k |-> Turn(s[i], Size + i - 1)] : s \in [1..k -> 1..Size]}

CannedScripts ==
  {b \o t : b \in Openings, t \in UNION {Tangents(k) : k \in 1..MaxTangents}}

(* What parseDialogue lets through: known speakers, answers to an earlier   *)
(* turn or to none, at least one turn.                                      *)
Dialogues ==
  UNION {{d \in [1..k -> {Turn(s, r) : s \in 1..Size, r \in 0..(k - 1)}] :
            \A i \in 1..k : d[i].replyTo < i} : k \in 1..MaxTurns}

-----------------------------------------------------------------------------

(* scriptMsgID is made afresh for the turns it is for. *)
NotReallocated(turns) == landed

Unlanded(turns) == [i \in 1..Len(turns) |-> 0]

NewCohort(c) ==
  /\ friends' = c
  /\ prev' = Nobody
  /\ script' = <<>> /\ landed' = <<>>
  /\ author' = Author(0, 0, c)
  /\ cursor' = 1 /\ waited' = -1
  /\ messages' = <<>> /\ nextMsgID' = 1

Init ==
  /\ friends \in Cohorts
  /\ heard = {} /\ spreading = FALSE /\ prev = Nobody
  /\ script = <<>> /\ landed = <<>>
  /\ author = Author(0, 0, friends)
  /\ cursor = 1 /\ waited = -1
  /\ messages = <<>> /\ nextMsgID = 1
  /\ story = Nobody
  /\ warm = <<>>
  /\ acts = 0

Called == acts < MaxActs /\ acts' = acts + 1

(* The goroutine an event starts: warming the reaction cache, then asking   *)
(* for a dialogue of the members it read, then over.                        *)
Goroutine(pc, s, members) == [pc |-> pc, story |-> s, members |-> members]
Over == Goroutine("over", Nobody, <<>>)

(* POST /api/event: the story is seeded on top of whatever has been heard,  *)
(* the chat gets a canned script, and the warm-up starts.                   *)
Event(s, seeded, turns) ==
  /\ Called
  /\ heard' = heard \cup seeded
  /\ spreading' = TRUE
  /\ script' = turns /\ landed' = Unlanded(turns)
  /\ author' = Author(0, acts', friends)
  /\ cursor' = 1 /\ waited' = -1
  /\ story' = s
  /\ warm' = Append(warm, Goroutine("warming", s, <<>>))
  /\ UNCHANGED <<friends, prev, messageVars>>

(* Mutant: the conversation survives the world it was about. *)
KeptMessages == messages

ResetMessages == <<>>

(* POST /api/control {reset}: the same people, nothing heard, nothing said; *)
(* message ids go on, and server.story stays.                               *)
Reset ==
  /\ Called
  /\ heard' = {} /\ spreading' = FALSE /\ prev' = Nobody
  /\ script' = <<>> /\ landed' = <<>>
  /\ author' = Author(0, 0, friends)
  /\ cursor' = 1 /\ waited' = -1
  /\ messages' = ResetMessages
  /\ warm' = Append(warm, Over)
  /\ UNCHANGED <<friends, nextMsgID, story>>

(* POST /api/cohort: another draw, with no conversation of its own yet.     *)
Reroll(c) ==
  /\ Called
  /\ NewCohort(c)
  /\ warm' = Append(warm, Over)
  /\ UNCHANGED <<heard, spreading, story>>

(* POST /api/generate, as far as the chat can tell.                         *)
Generate(s) ==
  /\ Called
  /\ story' = s
  /\ warm' = Append(warm, Over)
  /\ UNCHANGED <<worldVars, scriptVars, messageVars>>

-----------------------------------------------------------------------------
(* The goroutine *)

(* The warm-up's Run has returned, refused or not.  With the story still    *)
(* current the friends are read and the model is asked for a dialogue.      *)
Ask(a) ==
  /\ warm[a].pc = "warming"
  /\ warm' = [warm EXCEPT ![a] =
       IF story = @.story THEN Goroutine("asking", @.story, friends) ELSE Over]
  /\ UNCHANGED <<worldVars, scriptVars, messageVars, story, acts>>

NoDialogue(a) ==
  /\ warm[a].pc = "asking"
  /\ warm' = [warm EXCEPT ![a] = Over]
  /\ UNCHANGED <<worldVars, scriptVars, messageVars, story, acts>>

(* Mutant: the script is replaced whatever has been said. *)
AnyTime == TRUE

NotStarted == cursor = 1

(* InstallModelScript, behind the second check of the story. *)
Install(a, turns) ==
  /\ warm[a].pc = "asking"
  /\ warm' = [warm EXCEPT ![a] = Over]
  /\ IF story = warm[a].story /\ NotStarted
     THEN /\ script' = turns /\ landed' = Unlanded(turns)
          /\ author' = Author(a, author.telling, warm[a].members)
          /\ waited' = -1
     ELSE UNCHANGED <<script, landed, author, waited>>
  /\ UNCHANGED <<worldVars, cursor, messageVars, story, acts>>

-----------------------------------------------------------------------------
(* The tick *)

Message(id, from, reply, by, turn) ==
  [id |-> id, from |-> from, reply |-> reply, by |-> by, turn |-> turn]

(* Mutant: an id is the message's place in the history. *)
PlaceInHistory == Len(messages) + 1

FreshID == nextMsgID

(* append, for several messages: ids in order, and the history trimmed to   *)
(* the last MaxHistory.                                                     *)
Said(new) ==
  LET all == messages \o new
  IN  /\ messages' = SubSeq(all, IF Len(all) > MaxHistory
                                 THEN Len(all) - MaxHistory + 1 ELSE 1, Len(all))
      /\ nextMsgID' = nextMsgID + Len(new)

(* A friend's own line, which answers nothing and belongs to no script.     *)
Unscripted == Author(-1, 0, <<>>)

(* Those of a list who are among some people, in its order. *)
Among(list, some) ==
  LET first[n \in 0..Len(list)] ==
        IF n = 0 THEN <<>>
        ELSE IF list[n] \in some THEN Append(first[n - 1], list[n]) ELSE first[n - 1]
  IN  first[Len(list)]

(* The friends with something to say this tick: those who have just heard,  *)
(* and some of the others, whose opinion moved or who tired of the story.   *)
OwnLines(now, moved) ==
  LET speakers == Among(friends, (now \ prev) \cup moved)
  IN  [i \in 1..Len(speakers) |->
         Message(FreshID + i - 1, speakers[i], 0, Unscripted, 0)]

Ready(k, now) ==
  /\ friends[script[k].speaker] \in now
  /\ script[k].replyTo = 0 \/ landed[script[k].replyTo] > 0

(* Mutant: every tick starts the wait anew. *)
StartsAnew == 0

(* Ticks the turn at the cursor has waited, if it waits in this one too. *)
WaitedNow == waited + 1

GivesUp(now) ==
  /\ cursor <= Len(script) /\ ~Ready(cursor, now)
  /\ WaitedNow >= StallLimit

(* releaseScript: a turn stuck for too long is passed over, and the turn    *)
(* the cursor is then at is said if it is ready.  One turn a tick.          *)
ReleaseScript(now, own) ==
  LET at   == IF GivesUp(now) THEN cursor + 1 ELSE cursor
      id   == FreshID + Len(own)
      turn == script[at]
      line == Message(id, friends[turn.speaker],
                IF turn.replyTo = 0 THEN 0 ELSE landed[turn.replyTo], author, at)
  IN  IF at <= Len(script) /\ Ready(at, now)
      THEN /\ landed' = [landed EXCEPT ![at] = id]
           /\ cursor' = at + 1 /\ waited' = -1
           /\ Said(Append(own, line))
      ELSE /\ cursor' = at
           /\ waited' = IF at > Len(script) THEN -1
                        ELSE IF at = cursor THEN WaitedNow ELSE 0
           /\ Said(own)
           /\ UNCHANGED landed

(* Advance: the story reaches more people, and the chat observes it.  The   *)
(* first tick after a reset or a reroll only takes the baseline.            *)
Tick(reached, moved) ==
  LET now == heard \cup reached
  IN  /\ reached # {} => spreading
      /\ reached \cap heard = {}
      /\ heard' = now
      /\ prev' = now \cap ToSet(friends)
      /\ IF prev = Nobody
         THEN moved = {} /\ UNCHANGED <<scriptVars, messageVars>>
         ELSE /\ moved \subseteq prev
              /\ moved # {} => nextMsgID <= MaxChatter
              /\ ReleaseScript(now, OwnLines(prev', moved))
              /\ UNCHANGED <<script, author>>
      /\ UNCHANGED <<friends, spreading, story, warm, acts>>

-----------------------------------------------------------------------------

TickSome ==
  \E reached \in SUBSET People, moved \in SUBSET ToSet(friends) :
    Tick(reached, moved)

Next ==
  \/ \E s \in Stories, seeded \in SUBSET People, turns \in CannedScripts :
       Event(s, seeded, turns)
  \/ Reset
  \/ \E c \in Cohorts : Reroll(c)
  \/ \E s \in Stories : Generate(s)
  \/ \E a \in DOMAIN warm :
       \/ Ask(a) \/ NoDialogue(a)
       \/ \E turns \in Dialogues : Install(a, turns)
  \/ TickSome

(* The clock is running. *)
Spec == Init /\ [][Next]_vars
FairSpec == Spec /\ WF_vars(TickSome)

-----------------------------------------------------------------------------

TypeOK ==
  /\ friends \in Cohorts /\ heard \subseteq People
  /\ spreading \in BOOLEAN
  /\ prev = Nobody \/ prev \subseteq ToSet(friends)
  /\ cursor \in 1..(Len(script) + 1) /\ waited \in -1..(StallLimit - 1)
  /\ Len(landed) = Len(script)
  /\ Len(messages) <= MaxHistory
  /\ story \in Stories \cup {Nobody}
  /\ Len(warm) = acts

InHistory(id) == {i \in DOMAIN messages : messages[i].id = id}

(* A conversation stays threaded however much of it has scrolled away: ids  *)
(* grow along the history, a released turn of the script landed after the   *)
(* turns before it and after the one it replies to, nothing at or past the  *)
(* cursor has landed, and the message a reply names, if it is still there,  *)
(* is the turn it was written to answer and not a later arrival.            *)
Threaded ==
  /\ \A i, j \in DOMAIN messages : i < j => messages[i].id < messages[j].id
  /\ \A k \in DOMAIN landed :
       landed[k] > 0 =>
         /\ k < cursor /\ landed[k] < nextMsgID
         /\ \A j \in 1..(k - 1) : landed[j] < landed[k]
         /\ script[k].replyTo > 0 => landed[script[k].replyTo] > 0
         /\ \A i \in InHistory(landed[k]) :
              /\ messages[i].by = author /\ messages[i].turn = k
              /\ script[k].replyTo > 0 =>
                   \A j \in InHistory(messages[i].reply) :
                     messages[j].turn = script[k].replyTo

(* "Swapping its remaining turns for a different set would read as someone  *)
(* rewriting history": all the scripted lines of one telling of a story are *)
(* by one author, whichever goroutines came back in between.                *)
OneAuthor ==
  \A i, j \in DOMAIN messages :
    LET a == messages[i].by
        b == messages[j].by
    IN  (a.by >= 0 /\ b.by >= 0 /\ a.telling = b.telling) => a = b

(* The chat audits the cascade: nobody is on record as having spoken in a   *)
(* world where they have heard nothing, across resets, rerolls and late     *)
(* dialogues.  Hearing is not per story, here as in the code.               *)
SpeakersHaveHeard == \A i \in DOMAIN messages : messages[i].from \in heard

(* "A cursor stuck because its speaker never adopts would otherwise silence *)
(* everything behind it forever": with a running clock, an exchange that is *)
(* left alone comes to its end.                                             *)
ExchangeEnds == <>[](cursor > Len(script))

(* "It only ever fires on the genuine edge case -- a speaker the cascade    *)
(* never reaches": a tick does not pass over the turn of somebody who had   *)
(* already heard before it.                                                 *)
PassesOverOnlyTheUnreached ==
  [][\A k \in 1..Len(script) :
       (script' = script /\ cursor <= k /\ k < cursor' /\ landed'[k] = 0)
         => friends[script[k].speaker] \notin heard]_vars

(* "The current six are not carried forward": the model's lines in a chat   *)
(* were written for the people who say them.                                *)
SpeaksForThemselves ==
  \A i \in DOMAIN messages : messages[i].by.by > 0 => messages[i].by.for = friends

=============================================================================
