-------------------------- MODULE PendingApprovals --------------------------
(***************************************************************************)
(* The pending approval of a session: the question, put to a user by a     *)
(* button message or a text, whether an agent's action or a command may go *)
(* on (src/src/gateway/pending-approvals.ts, the button handlers of        *)
(* channels/slack/runtime.ts and channels/discord/runtime.ts, the approve  *)
(* command of gateway/text-channel-commands.ts).                           *)
(*                                                                         *)
(* A session has one entry, in memory and on disk; each function runs to   *)
(* its next await.  Setting a prompt awaits the old buttons between the    *)
(* removal of the old entry and the write of the new one; a button handler *)
(* claims the prompt, awaits, and gives it back when it throws.  Every     *)
(* access but a set reads the entries of the disk first, once per process. *)
(***************************************************************************)
EXTENDS Naturals

CONSTANTS Prompts,      \* prompts of one session, by approval id
          Commands,     \* those with a commandAction
          Discord,      \* those shown on Discord; the others are on Slack
          None,
          MaxRestarts   \* bound: restarts of the gateway

ASSUME ApprovalsAssumption ==
  /\ Commands \subseteq Prompts /\ Discord \subseteq Prompts
  /\ None \notin Prompts /\ MaxRestarts \in Nat

VARIABLES
  mem,       \* the entry of the session in memory
  disk,      \* the durable entry
  hydrated,  \* pendingApprovalsHydrated
  setting,   \* prompts whose setPendingApproval awaits the old buttons
  timer,     \* timer[p]: disableTimeout of p; "lost" when its process ended
  expired,   \* expired[p]: expiresAt is over
  handlers,  \* handlers[p]: button handlers of p, before and in the command
  acted,     \* auxiliary: how often p was answered to its end, 2 for more
  restarts

approvalsVars ==
  <<mem, disk, hydrated, setting, timer, expired, handlers, acted, restarts>>

NoEntry == [prompt |-> None, claimed |-> FALSE]
Open(p) == [prompt |-> p, claimed |-> FALSE]
InFlight(p) == handlers[p].claimed + handlers[p].turn

ApprovalsTypeOK ==
  /\ mem \in [prompt : Prompts \cup {None}, claimed : BOOLEAN]
  /\ disk \in [prompt : Prompts \cup {None}, claimed : BOOLEAN]
  /\ mem.prompt = None => mem = NoEntry
  /\ hydrated \in BOOLEAN /\ setting \subseteq Prompts
  /\ timer \in [Prompts -> {"none", "armed", "done", "lost"}]
  /\ expired \in [Prompts -> BOOLEAN]
  /\ handlers \in [Prompts -> [claimed : 0..2, turn : 0..2]]
  /\ acted \in [Prompts -> 0..2] /\ restarts \in 0..MaxRestarts

ApprovalsInit ==
  /\ mem = NoEntry /\ disk = NoEntry /\ hydrated = FALSE /\ setting = {}
  /\ timer = [p \in Prompts |-> "none"] /\ expired = [p \in Prompts |-> FALSE]
  /\ handlers = [p \in Prompts |-> [claimed |-> 0, turn |-> 0]]
  /\ acted = [p \in Prompts |-> 0] /\ restarts = 0

-----------------------------------------------------------------------------
(* The entry after rehydrateDurablePendingApprovals: a durable one wins. *)
Entry == IF hydrated \/ disk.prompt = None THEN mem ELSE disk

(* disposePendingApprovalEntry: its timer is cleared. *)
Disposed(timers, p) == IF p = None THEN timers ELSE [timers EXCEPT ![p] = "done"]

(* The entry is removed from memory and disk in one stretch, then disposed. *)
Cleared ==
  /\ mem' = NoEntry /\ disk' = NoEntry
  /\ timer' = Disposed(timer, Entry.prompt)

(* clearPendingApproval: whatever the session has. *)
Clear == hydrated' = TRUE /\ (IF Entry = NoEntry THEN mem' = Entry /\ UNCHANGED <<disk, timer>>
                              ELSE Cleared)

Written(p) == mem' = Open(p) /\ disk' = Open(p)

(* Mutant of SetStarts: the new timer is cleared in place of the old one. *)
SetStartsUntimed(p) ==
  IF mem = NoEntry
  THEN Written(p) /\ timer' = [timer EXCEPT ![p] = "armed"] /\ setting' = setting
  ELSE /\ mem' = NoEntry /\ disk' = NoEntry
       /\ timer' = [timer EXCEPT ![p] = "done"]
       /\ setting' = setting \cup {p}

(* rememberPendingApproval, setPendingApproval: the timer of p is armed first.
   An entry in memory is removed and its buttons are awaited; the disk is not
   read, an entry of the previous process is written over. *)
SetStarts(p) ==
  LET armed == [timer EXCEPT ![p] = "armed"]
  IN  IF mem = NoEntry
      THEN Written(p) /\ timer' = armed /\ setting' = setting
      ELSE /\ mem' = NoEntry /\ disk' = NoEntry
           /\ timer' = Disposed(armed, mem.prompt)
           /\ setting' = setting \cup {p}

Remember(p) ==
  /\ timer[p] = "none"
  /\ SetStarts(p)
  /\ UNCHANGED <<hydrated, expired, handlers, acted, restarts>>

(* The old buttons are disabled.  What another call has set meanwhile is
   replaced, and its timer goes on. *)
SetResumes(p) ==
  /\ p \in setting /\ setting' = setting \ {p}
  /\ Written(p)
  /\ UNCHANGED <<hydrated, timer, expired, handlers, acted, restarts>>

Expire(p) ==
  /\ timer[p] # "none" /\ ~expired[p]
  /\ expired' = [expired EXCEPT ![p] = TRUE]
  /\ UNCHANGED <<mem, disk, hydrated, setting, timer, handlers, acted, restarts>>

(* The timer of p clears the entry of its session, p or another one. *)
TimerFires(p) ==
  /\ timer[p] = "armed" /\ expired[p]
  /\ hydrated' = TRUE
  /\ mem' = NoEntry /\ disk' = (IF Entry = NoEntry THEN disk ELSE NoEntry)
  /\ timer' = Disposed([timer EXCEPT ![p] = "done"], Entry.prompt)
  /\ UNCHANGED <<setting, expired, handlers, acted, restarts>>

ExpiredEntry == Entry.prompt # None /\ expired[Entry.prompt]

(* cleanupExpiredPendingApprovals, listPendingApprovals and
   findPendingApprovalByApprovalId read the disk and drop what is over. *)
Sweep ==
  /\ hydrated' = TRUE
  /\ IF ExpiredEntry THEN Cleared ELSE mem' = Entry /\ UNCHANGED <<disk, timer>>
  /\ UNCHANGED <<setting, expired, handlers, acted, restarts>>

(* A turn of the session ends without a new prompt. *)
TurnClears ==
  /\ Clear
  /\ UNCHANGED <<setting, expired, handlers, acted, restarts>>

-----------------------------------------------------------------------------
Acted(p) == [acted EXCEPT ![p] = IF @ < 2 THEN @ + 1 ELSE @]

(* The approve command, typed, on a prompt of a command: the entry is removed
   before the command is run. *)
TextApproves(c) ==
  /\ Entry.prompt = c /\ ~expired[c]
  /\ hydrated' = TRUE /\ Cleared
  /\ acted' = Acted(c)
  /\ UNCHANGED <<setting, expired, handlers, restarts>>

(* Mutant of Click: a claim is not looked at. *)
ClickAgain(p) ==
  /\ Entry.prompt = p /\ ~expired[p]
  /\ hydrated' = TRUE
  /\ mem' = [Entry EXCEPT !.claimed = TRUE] /\ disk' = mem'
  /\ handlers' = [handlers EXCEPT ![p].claimed = IF @ < 2 THEN @ + 1 ELSE @]
  /\ UNCHANGED <<timer, setting, expired, acted, restarts>>

(* A button of p: claimPendingApprovalByApprovalId claims an open entry; an
   expired one is dropped (Sweep), a claimed one was already handled. *)
Click(p) ==
  /\ Entry = Open(p) /\ ~expired[p]
  /\ hydrated' = TRUE
  /\ mem' = [Entry EXCEPT !.claimed = TRUE] /\ disk' = mem'
  /\ handlers' = [handlers EXCEPT ![p].claimed = IF @ < 2 THEN @ + 1 ELSE @]
  /\ UNCHANGED <<timer, setting, expired, acted, restarts>>

(* Discord: deferReply throws before the try block, and the claim stays. *)
DeferFails(p) ==
  /\ p \in Discord /\ handlers[p].claimed > 0
  /\ handlers' = [handlers EXCEPT ![p].claimed = @ - 1]
  /\ UNCHANGED <<mem, disk, hydrated, timer, setting, expired, acted, restarts>>

(* Mutant of CommandStarts: the claim is not taken off. *)
CommandStartsKeeping(p) ==
  /\ handlers[p].claimed > 0
  /\ IF ExpiredEntry THEN Cleared ELSE UNCHANGED <<mem, disk, timer>>
  /\ handlers' = [handlers EXCEPT ![p].turn = @ + 1]
  /\ UNCHANGED <<hydrated, setting, expired, acted, restarts>>

(* The handler runs the approve command: what is over is swept.  A prompt of a
   command is removed before the command is run, claimed or not; another one
   that has come up meanwhile ends the handler ("No matching pending approval");
   without one the agent gets the answer as a turn. *)
CommandStarts(p) ==
  LET q == IF ExpiredEntry THEN None ELSE Entry.prompt
  IN  /\ handlers[p].claimed > 0
      /\ IF ExpiredEntry \/ (q = p /\ p \in Commands) THEN Cleared
         ELSE UNCHANGED <<mem, disk, timer>>
      /\ acted' = IF q = p /\ p \in Commands THEN Acted(p) ELSE acted
      /\ handlers' = [handlers EXCEPT ![p].claimed = @ - 1,
                                      ![p].turn = IF q \in Commands THEN @ ELSE @ + 1]
      /\ UNCHANGED <<hydrated, setting, expired, restarts>>

(* The turn ends: it clears the entry of the session, or asks the next question
   of the same turn. *)
TurnEnds(p) ==
  /\ handlers[p].turn > 0
  /\ handlers' = [handlers EXCEPT ![p].turn = @ - 1]
  /\ acted' = IF p \in Commands THEN acted ELSE Acted(p)
  /\ \/ Clear /\ UNCHANGED setting
     \/ \E q \in Prompts : timer[q] = "none" /\ SetStarts(q) /\ UNCHANGED hydrated
  /\ UNCHANGED <<expired, restarts>>

(* The turn ends with an error status: the reply says so, the claim stays. *)
TurnFails(p) ==
  /\ handlers[p].turn > 0
  /\ handlers' = [handlers EXCEPT ![p].turn = @ - 1]
  /\ UNCHANGED <<mem, disk, hydrated, timer, setting, expired, acted, restarts>>

(* Mutant of Rollback: the entry is opened whosever it is, in memory only. *)
RollbackAny(p) ==
  IF mem.prompt # None THEN mem' = [mem EXCEPT !.claimed = FALSE] /\ disk' = disk
  ELSE UNCHANGED <<mem, disk>>

(* The claim is given back if the entry is still that of p: on Slack by
   rollbackPendingApprovalClaim, on Discord in memory only. *)
Rollback(p) ==
  IF mem = [prompt |-> p, claimed |-> TRUE]
  THEN mem' = Open(p) /\ disk' = (IF p \in Discord THEN disk ELSE Open(p))
  ELSE UNCHANGED <<mem, disk>>

(* The handler throws: the name of the user, the reply or the message on the
   channel failed. *)
HandlerThrows(p) ==
  /\ \/ handlers[p].claimed > 0 /\ handlers' = [handlers EXCEPT ![p].claimed = @ - 1]
     \/ handlers[p].turn > 0 /\ handlers' = [handlers EXCEPT ![p].turn = @ - 1]
  /\ Rollback(p)
  /\ UNCHANGED <<hydrated, timer, setting, expired, acted, restarts>>

(* A crash or a shutdown: the disk stays. *)
Restart ==
  /\ restarts < MaxRestarts /\ restarts' = restarts + 1
  /\ mem' = NoEntry /\ hydrated' = FALSE /\ setting' = {}
  /\ timer' = [p \in Prompts |-> IF timer[p] = "none" THEN "none" ELSE "lost"]
  /\ handlers' = [p \in Prompts |-> [claimed |-> 0, turn |-> 0]]
  /\ UNCHANGED <<disk, expired, acted>>

ApprovalsNext ==
  \/ \E p \in Prompts : Remember(p) \/ SetResumes(p) \/ Expire(p) \/ TimerFires(p)
  \/ \E c \in Commands : TextApproves(c)
  \/ \E p \in Prompts : \/ Click(p) \/ DeferFails(p) \/ CommandStarts(p)
                        \/ TurnEnds(p) \/ TurnFails(p) \/ HandlerThrows(p)
  \/ Sweep \/ TurnClears \/ Restart

(* Time goes on and timers fire.  Users, turns and restarts are not fair. *)
ApprovalsFairness ==
  \A p \in Prompts : WF_approvalsVars(Expire(p)) /\ WF_approvalsVars(TimerFires(p))

ApprovalsSpec == ApprovalsInit /\ [][ApprovalsNext]_approvalsVars /\ ApprovalsFairness

-----------------------------------------------------------------------------
(* A prompt is acted on once: a command is run at most once, two clicks are
   never under way together, and nothing is once it was answered to its end,
   whatever was set, rolled back or reloaded in between. *)
PromptActsOnce ==
  /\ \A c \in Commands : acted[c] <= 1
  /\ \A p \in Prompts : InFlight(p) <= 1
  /\ \A p \in Prompts \ Commands : acted[p] > 0 => InFlight(p) = 0

(* A restart finds the entry that memory had, claimed if it was claimed; only
   what Discord gave back comes up claimed again. *)
DurableMirrorsMemory ==
  hydrated =>
    /\ disk.prompt = mem.prompt
    /\ mem.claimed => disk.claimed
    /\ disk.claimed /\ ~mem.claimed => mem.prompt \in Discord

(* An open prompt of this process ends: no set, claim, rollback or sweep leaves
   it without its timer. *)
OpenPromptEnds ==
  \A p \in Prompts :
    mem.prompt = p /\ timer[p] # "lost" /\ ~expired[p] ~> mem.prompt # p
=============================================================================
