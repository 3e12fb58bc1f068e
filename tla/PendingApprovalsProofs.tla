----------------------- MODULE PendingApprovalsProofs -----------------------
(***************************************************************************)
(* Safety of the pending approvals, for every number of prompts and        *)
(* restarts.                                                               *)
(*                                                                         *)
(* A prompt is written once: it is fresh until then, and once its entry is *)
(* removed no set, rollback or reload brings it back.  While a handler of  *)
(* the prompt is under way its entry is claimed or gone, in the memory of  *)
(* this process and on disk.                                               *)
(***************************************************************************)
EXTENDS PendingApprovals, TLAPS

Entries == [prompt : Prompts \cup {None}, claimed : BOOLEAN]
Counts == [claimed : 0..2, turn : 0..2]

NoDurableNone == disk.prompt = None => disk = NoEntry

(* Before the disk is read, memory is empty or was just written with it. *)
UnhydratedIsDisk ==
  ~hydrated => /\ mem = NoEntry \/ mem = disk
               /\ \A p \in Prompts : InFlight(p) = 0

UnsetIsFresh ==
  \A p \in Prompts :
    /\ timer[p] = "none" => p \notin setting
    /\ timer[p] = "none" \/ p \in setting =>
         mem.prompt # p /\ disk.prompt # p /\ InFlight(p) = 0 /\ acted[p] = 0

ActedIsGone == \A p \in Prompts : acted[p] > 0 => mem.prompt # p /\ disk.prompt # p

OpenIsIdle == \A p \in Prompts : Entry = Open(p) => InFlight(p) = 0

ApprovalsInv ==
  /\ ApprovalsTypeOK /\ NoDurableNone /\ UnhydratedIsDisk /\ UnsetIsFresh /\ ActedIsGone
  /\ OpenIsIdle /\ PromptActsOnce /\ DurableMirrorsMemory

-----------------------------------------------------------------------------
(* Nothing is pending when the gateway is first started. *)
LEMMA ApprovalsInitInv == ApprovalsInit => ApprovalsInv
<1> SUFFICES ASSUME ApprovalsInit PROVE ApprovalsInv
  OBVIOUS
<1>1. /\ mem = NoEntry /\ disk = NoEntry /\ hydrated = FALSE /\ setting = {}
      /\ NoEntry \in Entries /\ NoEntry.prompt = None
  BY DEF ApprovalsInit, Entries, NoEntry
<1>2. \A p \in Prompts : timer[p] = "none" /\ InFlight(p) = 0 /\ acted[p] = 0
  <2>1. \A p \in Prompts : handlers[p].claimed = 0 /\ handlers[p].turn = 0
    BY DEF ApprovalsInit
  <2>2. ASSUME NEW p \in Prompts PROVE InFlight(p) = 0
    <3>1. InFlight(p) = 0 + 0
      BY <2>1 DEF InFlight
    <3> QED
      BY <3>1
  <2> QED
    BY <2>2 DEF ApprovalsInit
<1>3. \A p \in Prompts : p # None
  BY ApprovalsAssumption
<1>4. ApprovalsTypeOK
  <2>1. restarts \in 0..MaxRestarts
    BY ApprovalsAssumption DEF ApprovalsInit
  <2>2. handlers \in [Prompts -> Counts]
    BY DEF ApprovalsInit, Counts
  <2> QED
    BY <1>1, <2>1, <2>2 DEF ApprovalsInit, ApprovalsTypeOK, Entries, Counts
<1>5. NoDurableNone /\ UnhydratedIsDisk /\ UnsetIsFresh /\ ActedIsGone /\ DurableMirrorsMemory
  BY <1>1, <1>2, <1>3
  DEF NoDurableNone, UnhydratedIsDisk, UnsetIsFresh, ActedIsGone, DurableMirrorsMemory
<1>6. OpenIsIdle /\ PromptActsOnce
  BY <1>2, ApprovalsAssumption DEF OpenIsIdle, PromptActsOnce
<1> QED
  BY <1>4, <1>5, <1>6 DEF ApprovalsInv

(* What rehydrateDurablePendingApprovals leaves: the entry of the disk, the
   claim taken from memory once it was read. *)
LEMMA EntryFacts ==
  ASSUME ApprovalsInv
  PROVE  /\ Entry \in Entries /\ disk \in Entries /\ mem \in Entries
         /\ Entry.prompt = disk.prompt
         /\ Entry.prompt = None => Entry = NoEntry /\ disk = NoEntry /\ mem = NoEntry
         /\ Entry.claimed => disk.claimed
         /\ disk.claimed /\ ~Entry.claimed => Entry.prompt \in Discord
         /\ hydrated => Entry = mem
         /\ mem = NoEntry \/ mem = Entry
  BY DEF ApprovalsInv, ApprovalsTypeOK, NoDurableNone, UnhydratedIsDisk,
         DurableMirrorsMemory, Entry, Entries, NoEntry

(* A button handler is under way only in a process that has read the disk. *)
LEMMA HandlerHydrated ==
  ASSUME ApprovalsInv, NEW p \in Prompts, InFlight(p) > 0
  PROVE  hydrated /\ Entry = mem
  BY EntryFacts DEF ApprovalsInv, UnhydratedIsDisk

HandlersKept ==
  /\ handlers' \in [Prompts -> Counts]
  /\ \A p \in Prompts : InFlight(p)' <= InFlight(p)

(* A prompt is answered to its end: it was not before, and its entry is gone. *)
ActedKept ==
  /\ acted' \in [Prompts -> 0..2]
  /\ \A p \in Prompts :
       \/ acted'[p] = acted[p]
       \/ /\ acted[p] = 0 /\ acted'[p] = 1
          /\ mem'.prompt # p /\ disk'.prompt # p /\ timer[p] # "none" /\ p \notin setting
          /\ p \notin Commands => InFlight(p)' = 0

TimersKept ==
  /\ timer' \in [Prompts -> {"none", "armed", "done", "lost"}]
  /\ \A p \in Prompts : timer'[p] = "none" => timer[p] = "none"

(* A step that reads the entry or removes it, and starts no handler, keeps the
   invariant. *)
LEMMA DropKeeps ==
  ASSUME ApprovalsInv, HandlersKept, ActedKept, TimersKept,
         hydrated' = TRUE, setting' = setting,
         \/ mem' = Entry /\ disk' = disk
         \/ mem' = NoEntry /\ disk' = NoEntry,
         expired' \in [Prompts -> BOOLEAN], restarts' \in 0..MaxRestarts
  PROVE  ApprovalsInv'
<1>1. NoEntry \in Entries /\ NoEntry.prompt = None /\ ~NoEntry.claimed
  BY DEF NoEntry, Entries
<1>2. \A p \in Prompts : p # None
  BY ApprovalsAssumption
<1>3. /\ mem' \in Entries /\ disk' \in Entries
      /\ mem'.prompt = disk'.prompt
      /\ disk'.prompt = None => disk' = NoEntry /\ mem' = NoEntry
      /\ mem'.claimed => disk'.claimed
      /\ disk'.claimed /\ ~mem'.claimed => mem'.prompt \in Discord
      /\ \A p \in Prompts : disk'.prompt = p => disk.prompt = p
  BY <1>1, <1>2, EntryFacts
<1>4. ApprovalsTypeOK'
  BY <1>3
  DEF ApprovalsInv, ApprovalsTypeOK, Entries, Counts, HandlersKept, ActedKept, TimersKept
<1>5. NoDurableNone' /\ UnhydratedIsDisk' /\ DurableMirrorsMemory'
  BY <1>3 DEF NoDurableNone, UnhydratedIsDisk, DurableMirrorsMemory, NoEntry
<1>6. UnsetIsFresh'
  <2> SUFFICES ASSUME NEW p \in Prompts, timer'[p] = "none" \/ p \in setting
               PROVE  /\ timer'[p] = "none" => p \notin setting
                      /\ mem'.prompt # p /\ disk'.prompt # p
                      /\ InFlight(p)' = 0 /\ acted'[p] = 0
    BY DEF UnsetIsFresh
  <2>1. /\ timer[p] = "none" \/ p \in setting
        /\ timer'[p] = "none" => timer[p] = "none"
    BY DEF TimersKept
  <2>2. /\ disk.prompt # p /\ InFlight(p) = 0 /\ acted[p] = 0
        /\ timer[p] = "none" => p \notin setting
    BY <2>1 DEF ApprovalsInv, UnsetIsFresh
  <2>3. InFlight(p)' = 0
    BY <2>2 DEF HandlersKept, Counts, InFlight
  <2>4. acted'[p] = 0
    BY <2>1, <2>2 DEF ActedKept
  <2> QED
    BY <1>3, <2>1, <2>2, <2>3, <2>4
<1>7. ActedIsGone'
  BY <1>3 DEF ApprovalsInv, ActedIsGone, ActedKept
<1>8. OpenIsIdle'
  <2> SUFFICES ASSUME NEW p \in Prompts, mem' = Open(p)
               PROVE  InFlight(p)' = 0
    BY DEF OpenIsIdle, Entry
  <2>1. mem' = Entry
    BY <1>1, <1>2 DEF Open
  <2>2. InFlight(p) = 0
    BY <2>1 DEF ApprovalsInv, OpenIsIdle
  <2> QED
    BY <2>2 DEF HandlersKept, Counts, InFlight
<1>9. PromptActsOnce'
  <2>1. \A c \in Commands : acted'[c] <= 1
    BY ApprovalsAssumption DEF ApprovalsInv, PromptActsOnce, ActedKept
  <2>2. \A p \in Prompts : InFlight(p)' \in Nat /\ InFlight(p) \in Nat
    BY DEF HandlersKept, Counts, InFlight, ApprovalsInv, ApprovalsTypeOK
  <2>3. \A p \in Prompts : InFlight(p)' <= 1
    BY <2>2 DEF ApprovalsInv, PromptActsOnce, HandlersKept
  <2>4. \A p \in Prompts \ Commands : acted'[p] > 0 => InFlight(p)' = 0
    BY <2>2 DEF ApprovalsInv, PromptActsOnce, HandlersKept, ActedKept
  <2> QED
    BY <2>1, <2>3, <2>4 DEF PromptActsOnce
<1> QED
  BY <1>4, <1>5, <1>6, <1>7, <1>8, <1>9 DEF ApprovalsInv

(* A handler that goes on or ends: one fewer before or in the command. *)
LEMMA HandlerCounts ==
  ASSUME ApprovalsInv, NEW p \in Prompts,
         \/ /\ handlers[p].claimed > 0
            /\ handlers' = [handlers EXCEPT ![p].claimed = @ - 1]
         \/ /\ handlers[p].turn > 0
            /\ handlers' = [handlers EXCEPT ![p].turn = @ - 1]
         \/ /\ handlers[p].claimed > 0
            /\ handlers' = [handlers EXCEPT ![p].claimed = @ - 1, ![p].turn = @ + 1]
  PROVE  /\ HandlersKept /\ InFlight(p) = 1
         /\ handlers' = [handlers EXCEPT ![p].claimed = @ - 1, ![p].turn = @ + 1]
              \/ InFlight(p)' = 0
<1>1. /\ handlers[p].claimed \in 0..2 /\ handlers[p].turn \in 0..2
      /\ handlers \in [Prompts -> Counts]
  BY DEF ApprovalsInv, ApprovalsTypeOK, Counts
<1>2. handlers[p].claimed + handlers[p].turn = 1
  BY <1>1 DEF ApprovalsInv, PromptActsOnce, InFlight
<1>3. CASE /\ handlers[p].claimed > 0
           /\ handlers' = [handlers EXCEPT ![p].claimed = @ - 1]
  <2>1. handlers'[p].claimed = 0 /\ handlers'[p].turn = 0
    BY <1>1, <1>2, <1>3 DEF Counts
  <2> QED
    BY <1>1, <1>2, <1>3, <2>1 DEF HandlersKept, InFlight, Counts
<1>4. CASE /\ handlers[p].turn > 0
           /\ handlers' = [handlers EXCEPT ![p].turn = @ - 1]
  <2>1. handlers'[p].claimed = 0 /\ handlers'[p].turn = 0
    BY <1>1, <1>2, <1>4 DEF Counts
  <2> QED
    BY <1>1, <1>2, <1>4, <2>1 DEF HandlersKept, InFlight, Counts
<1>5. CASE /\ handlers[p].claimed > 0
           /\ handlers' = [handlers EXCEPT ![p].claimed = @ - 1, ![p].turn = @ + 1]
  <2>1. handlers'[p].claimed = 0 /\ handlers'[p].turn = 1
    BY <1>1, <1>2, <1>5 DEF Counts
  <2> QED
    BY <1>1, <1>2, <1>5, <2>1 DEF HandlersKept, InFlight, Counts
<1> QED
  BY <1>3, <1>4, <1>5

(* A step without effect on handlers, answers or timers. *)
LEMMA Unmoved ==
  ASSUME ApprovalsInv
  PROVE  /\ handlers' = handlers => HandlersKept
         /\ acted' = acted => ActedKept
         /\ timer' = timer => TimersKept
<1>1. \A p \in Prompts : InFlight(p) \in Nat
  BY DEF ApprovalsInv, ApprovalsTypeOK, InFlight
<1>2. handlers' = handlers => \A p \in Prompts : InFlight(p)' = InFlight(p)
  BY DEF InFlight
<1> QED
  BY <1>1, <1>2 DEF ApprovalsInv, ApprovalsTypeOK, HandlersKept, Counts, ActedKept, TimersKept

(* disposePendingApprovalEntry marks a timer as done, and arms none. *)
LEMMA DisposedKeeps ==
  ASSUME NEW timers \in [Prompts -> {"none", "armed", "done", "lost"}], NEW p
  PROVE  /\ Disposed(timers, p) \in [Prompts -> {"none", "armed", "done", "lost"}]
         /\ \A q \in Prompts : Disposed(timers, p)[q] \in {timers[q], "done"}
  BY DEF Disposed

(* The entry is read, or removed with its timer. *)
LEMMA ClearKeeps ==
  ASSUME ApprovalsInv, Clear \/ Cleared \/ (mem' = Entry /\ UNCHANGED <<disk, timer>>)
  PROVE  /\ TimersKept
         /\ \/ mem' = Entry /\ disk' = disk
            \/ mem' = NoEntry /\ disk' = NoEntry
<1>1. timer \in [Prompts -> {"none", "armed", "done", "lost"}]
  BY DEF ApprovalsInv, ApprovalsTypeOK
<1>2. timer' = timer \/ timer' = Disposed(timer, Entry.prompt)
  BY DEF Clear, Cleared
<1>3. TimersKept
  BY <1>1, <1>2, DisposedKeeps DEF TimersKept
<1> QED
  BY <1>3 DEF Clear, Cleared

-----------------------------------------------------------------------------
(* cleanupExpiredPendingApprovals, the end of a turn, a timer. *)
LEMMA SweepKeeps == ASSUME ApprovalsInv, Sweep \/ TurnClears PROVE ApprovalsInv'
<1>1. /\ hydrated' = TRUE /\ UNCHANGED <<setting, expired, handlers, acted, restarts>>
      /\ Clear \/ Cleared \/ (mem' = Entry /\ UNCHANGED <<disk, timer>>)
  BY DEF Sweep, TurnClears, Clear
<1> QED
  BY <1>1, ClearKeeps, Unmoved, DropKeeps DEF ApprovalsInv, ApprovalsTypeOK

(* The timer of a prompt fires: the entry it finds is dropped, whichever prompt
   that is. *)
LEMMA TimerKeeps ==
  ASSUME ApprovalsInv, NEW p \in Prompts, TimerFires(p)
  PROVE  ApprovalsInv'
<1>1. /\ hydrated' = TRUE /\ UNCHANGED <<setting, expired, handlers, acted, restarts>>
      /\ mem' = NoEntry /\ timer' = Disposed([timer EXCEPT ![p] = "done"], Entry.prompt)
      /\ disk' = (IF Entry = NoEntry THEN disk ELSE NoEntry)
  BY DEF TimerFires
<1>2. mem' = NoEntry /\ disk' = NoEntry
  <2>1. NoEntry.prompt = None
    BY DEF NoEntry
  <2> QED
    BY <1>1, <2>1, EntryFacts
<1>3. TimersKept
  <2> DEFINE timers == [timer EXCEPT ![p] = "done"]
  <2>1. /\ timers \in [Prompts -> {"none", "armed", "done", "lost"}]
        /\ \A q \in Prompts : timers[q] \in {timer[q], "done"}
    BY DEF ApprovalsInv, ApprovalsTypeOK
  <2>2. timer' = Disposed(timers, Entry.prompt)
    BY <1>1
  <2> HIDE DEF timers
  <2> QED
    BY <2>1, <2>2, DisposedKeeps DEF TimersKept
<1> QED
  BY <1>1, <1>2, <1>3, Unmoved, DropKeeps DEF ApprovalsInv, ApprovalsTypeOK

(* The clock. *)
LEMMA ExpireKeeps ==
  ASSUME ApprovalsInv, NEW p \in Prompts, Expire(p)
  PROVE  ApprovalsInv'
<1>1. /\ expired' \in [Prompts -> BOOLEAN]
      /\ UNCHANGED <<mem, disk, hydrated, setting, timer, handlers, acted, restarts>>
  BY DEF Expire, ApprovalsInv, ApprovalsTypeOK
<1> QED
  BY <1>1
  DEF ApprovalsInv, ApprovalsTypeOK, NoDurableNone, UnhydratedIsDisk, UnsetIsFresh,
      ActedIsGone, OpenIsIdle, PromptActsOnce, DurableMirrorsMemory, InFlight, Entry

(* A command that is answered by a text, while its button may be handled. *)
LEMMA TextKeeps ==
  ASSUME ApprovalsInv, NEW c \in Commands, TextApproves(c)
  PROVE  ApprovalsInv'
<1>1. /\ hydrated' = TRUE /\ UNCHANGED <<setting, expired, handlers, restarts>>
      /\ Entry.prompt = c /\ Cleared /\ acted' = Acted(c)
  BY DEF TextApproves
<1>2. c \in Prompts /\ c # None
  BY ApprovalsAssumption
<1>3. mem'.prompt # c /\ disk'.prompt # c
  BY <1>1, <1>2 DEF Cleared, NoEntry
<1>4. disk.prompt = c
  BY <1>1, EntryFacts
<1>5. acted \in [Prompts -> 0..2] /\ ~(acted[c] > 0) /\ timer[c] # "none" /\ c \notin setting
  BY <1>2, <1>4 DEF ApprovalsInv, ApprovalsTypeOK, ActedIsGone, UnsetIsFresh
<1>6. acted[c] = 0 /\ acted' = [acted EXCEPT ![c] = 1]
  <2>1. acted[c] = 0
    BY <1>2, <1>5
  <2> QED
    BY <1>1, <2>1 DEF Acted
<1>7. ActedKept
  BY <1>2, <1>3, <1>5, <1>6 DEF ActedKept
<1> QED
  BY <1>1, <1>7, ClearKeeps, Unmoved, DropKeeps DEF ApprovalsInv, ApprovalsTypeOK

(* A handler whose prompt is gone ends or goes on as a turn; the approve command
   of one whose prompt is there removes the entry and runs it. *)
LEMMA CommandKeeps ==
  ASSUME ApprovalsInv, NEW p \in Prompts, CommandStarts(p)
  PROVE  ApprovalsInv'
<1> DEFINE q == IF ExpiredEntry THEN None ELSE Entry.prompt
           hit == q = p /\ p \in Commands
<1>1. /\ handlers[p].claimed > 0
      /\ IF ExpiredEntry \/ hit THEN Cleared ELSE UNCHANGED <<mem, disk, timer>>
      /\ acted' = IF hit THEN Acted(p) ELSE acted
      /\ handlers' = [handlers EXCEPT ![p].claimed = @ - 1,
                                      ![p].turn = IF q \in Commands THEN @ ELSE @ + 1]
      /\ UNCHANGED <<hydrated, setting, expired, restarts>>
  BY DEF CommandStarts
<1>2. handlers \in [Prompts -> Counts] /\ acted \in [Prompts -> 0..2]
  BY DEF ApprovalsInv, ApprovalsTypeOK, Counts
<1>3. \/ handlers' = [handlers EXCEPT ![p].claimed = @ - 1]
      \/ handlers' = [handlers EXCEPT ![p].claimed = @ - 1, ![p].turn = @ + 1]
  BY <1>1, <1>2 DEF Counts
<1>4. HandlersKept /\ InFlight(p) = 1
  BY <1>1, <1>3, HandlerCounts
<1>5. hydrated /\ Entry = mem
  BY <1>4, HandlerHydrated
<1>6. hydrated' = TRUE
  BY <1>1, <1>5 DEF ApprovalsInv, ApprovalsTypeOK
<1>7. ActedKept
  <2>1. CASE ~hit
    BY <1>1, <2>1, Unmoved
  <2>2. CASE hit
    <3>1. p # None /\ Entry.prompt = p /\ p \in Commands
      BY <2>2, ApprovalsAssumption
    <3>2. mem'.prompt # p /\ disk'.prompt # p
      BY <1>1, <2>2, <3>1 DEF Cleared, NoEntry
    <3>3. disk.prompt = p
      BY <3>1, EntryFacts
    <3>4. ~(acted[p] > 0) /\ timer[p] # "none" /\ p \notin setting
      BY <3>3 DEF ApprovalsInv, ActedIsGone, UnsetIsFresh
    <3>5. acted[p] = 0
      BY <1>2, <3>4
    <3>6. acted' = [acted EXCEPT ![p] = 1]
      BY <1>1, <2>2, <3>5 DEF Acted
    <3> QED
      BY <1>2, <3>1, <3>2, <3>4, <3>5, <3>6 DEF ActedKept
  <2> QED
    BY <2>1, <2>2
<1>8. /\ TimersKept
      /\ \/ mem' = Entry /\ disk' = disk
         \/ mem' = NoEntry /\ disk' = NoEntry
  <2>1. Cleared \/ (mem' = Entry /\ UNCHANGED <<disk, timer>>)
    BY <1>1, <1>5
  <2> QED
    BY <2>1, ClearKeeps
<1> QED
  BY <1>1, <1>4, <1>6, <1>7, <1>8, DropKeeps DEF ApprovalsInv, ApprovalsTypeOK

(* A handler that ends with its claim. *)
LEMMA EndKeeps ==
  ASSUME ApprovalsInv, NEW p \in Prompts, DeferFails(p) \/ TurnFails(p)
  PROVE  ApprovalsInv'
<1>1. UNCHANGED <<mem, disk, hydrated, timer, setting, expired, acted, restarts>>
  BY DEF DeferFails, TurnFails
<1>2. HandlersKept /\ InFlight(p) = 1
  BY HandlerCounts DEF DeferFails, TurnFails
<1>3. hydrated' = TRUE /\ mem' = Entry
  BY <1>1, <1>2, HandlerHydrated DEF ApprovalsInv, ApprovalsTypeOK
<1> QED
  BY <1>1, <1>2, <1>3, Unmoved, DropKeeps DEF ApprovalsInv, ApprovalsTypeOK

(* A prompt that is fresh becomes the entry, or will be after the old buttons. *)
LEMMA WriteKeeps ==
  ASSUME ApprovalsInv, HandlersKept, ActedKept, TimersKept, hydrated' = hydrated,
         NEW q \in Prompts, InFlight(q) = 0, acted[q] = 0, timer'[q] # "none",
         mem' = disk', (mem' = Open(q) /\ q \notin setting') \/ mem' = NoEntry,
         setting' \subseteq setting \cup {q}, acted'[q] = 0,
         expired' \in [Prompts -> BOOLEAN], restarts' \in 0..MaxRestarts
  PROVE  ApprovalsInv'
<1>1. /\ NoEntry \in Entries /\ NoEntry.prompt = None /\ ~NoEntry.claimed
      /\ Open(q) \in Entries /\ Open(q).prompt = q /\ ~Open(q).claimed
  BY DEF NoEntry, Open, Entries
<1>2. \A p \in Prompts : p # None
  BY ApprovalsAssumption
<1>3. /\ mem' \in Entries /\ mem' = disk' /\ ~mem'.claimed
      /\ mem'.prompt = None => mem' = NoEntry
      /\ \A p \in Prompts : mem'.prompt = p => p = q /\ q \notin setting'
  BY <1>1, <1>2
<1>4. ApprovalsTypeOK'
  BY <1>3
  DEF ApprovalsInv, ApprovalsTypeOK, Entries, Counts, HandlersKept, ActedKept, TimersKept
<1>5. \A p \in Prompts : /\ InFlight(p) \in Nat /\ InFlight(p)' \in Nat
                         /\ InFlight(p)' <= InFlight(p)
  BY DEF HandlersKept, Counts, InFlight, ApprovalsInv, ApprovalsTypeOK
<1>6. NoDurableNone' /\ UnhydratedIsDisk' /\ DurableMirrorsMemory'
  BY <1>3, <1>5
  DEF NoDurableNone, UnhydratedIsDisk, DurableMirrorsMemory, NoEntry, ApprovalsInv
<1>7. UnsetIsFresh'
  <2> SUFFICES ASSUME NEW p \in Prompts, timer'[p] = "none" \/ p \in setting'
               PROVE  /\ timer'[p] = "none" => p \notin setting'
                      /\ mem'.prompt # p /\ disk'.prompt # p
                      /\ InFlight(p)' = 0 /\ acted'[p] = 0
    BY DEF UnsetIsFresh
  <2>1. CASE p = q
    BY <1>3, <1>5, <2>1
  <2>2. CASE p # q
    <3>1. /\ timer[p] = "none" \/ p \in setting
          /\ timer'[p] = "none" => timer[p] = "none"
      BY <2>2 DEF TimersKept
    <3>2. /\ InFlight(p) = 0 /\ acted[p] = 0
          /\ timer[p] = "none" => p \notin setting
      BY <3>1 DEF ApprovalsInv, UnsetIsFresh
    <3>3. acted'[p] = 0
      BY <3>1, <3>2 DEF ActedKept
    <3>4. InFlight(p)' = 0
      BY <1>5, <3>2
    <3> QED
      BY <1>3, <2>2, <3>1, <3>2, <3>3, <3>4
  <2> QED
    BY <2>1, <2>2
<1>8. ActedIsGone'
  <2> SUFFICES ASSUME NEW p \in Prompts, acted'[p] > 0
               PROVE  p # q
    BY <1>3 DEF ActedIsGone
  <2> QED
    OBVIOUS
<1>9. OpenIsIdle'
  <2> SUFFICES ASSUME NEW p \in Prompts, mem' = Open(p)
               PROVE  InFlight(p)' = 0
    BY <1>3 DEF OpenIsIdle, Entry
  <2>1. p = q
    BY <1>3 DEF Open
  <2> QED
    BY <1>5, <2>1
<1>10. PromptActsOnce'
  <2>1. \A c \in Commands : acted'[c] <= 1
    BY ApprovalsAssumption DEF ApprovalsInv, PromptActsOnce, ActedKept
  <2>2. \A p \in Prompts : InFlight(p)' <= 1
    BY <1>5 DEF ApprovalsInv, PromptActsOnce
  <2>3. \A p \in Prompts \ Commands : acted'[p] > 0 => InFlight(p)' = 0
    BY <1>5 DEF ApprovalsInv, PromptActsOnce, ActedKept
  <2> QED
    BY <2>1, <2>2, <2>3 DEF PromptActsOnce
<1> QED
  BY <1>4, <1>6, <1>7, <1>8, <1>9, <1>10 DEF ApprovalsInv

(* rememberPendingApproval: a prompt without a timer was never written. *)
LEMMA SetKeeps ==
  ASSUME ApprovalsInv, HandlersKept, ActedKept, hydrated' = hydrated,
         NEW q \in Prompts, timer[q] = "none", SetStarts(q),
         expired' \in [Prompts -> BOOLEAN], restarts' \in 0..MaxRestarts
  PROVE  ApprovalsInv'
<1> DEFINE armed == [timer EXCEPT ![q] = "armed"]
<1>1. /\ q \notin setting /\ mem.prompt # q /\ InFlight(q) = 0 /\ acted[q] = 0
  BY DEF ApprovalsInv, UnsetIsFresh
<1>2. acted'[q] = 0
  BY <1>1 DEF ActedKept
<1>3. /\ armed \in [Prompts -> {"none", "armed", "done", "lost"}]
      /\ armed[q] = "armed" /\ \A p \in Prompts \ {q} : armed[p] = timer[p]
  BY DEF ApprovalsInv, ApprovalsTypeOK
<1>4. \/ /\ mem' = Open(q) /\ disk' = Open(q) /\ timer' = armed /\ setting' = setting
      \/ /\ mem' = NoEntry /\ disk' = NoEntry /\ timer' = Disposed(armed, mem.prompt)
         /\ setting' = setting \cup {q}
  BY DEF SetStarts, Written
<1> HIDE DEF armed
<1>5. TimersKept /\ timer'[q] # "none"
  BY <1>3, <1>4, DisposedKeeps DEF TimersKept
<1> QED
  BY <1>1, <1>2, <1>4, <1>5, WriteKeeps

(* An agent's turn ends with a new prompt: the first half of setPendingApproval. *)
LEMMA RememberKeeps ==
  ASSUME ApprovalsInv, NEW p \in Prompts, Remember(p)
  PROVE  ApprovalsInv'
  BY SetKeeps, Unmoved DEF Remember, ApprovalsInv, ApprovalsTypeOK

(* The second half of setPendingApproval, after its await. *)
LEMMA ResumeKeeps ==
  ASSUME ApprovalsInv, NEW p \in Prompts, SetResumes(p)
  PROVE  ApprovalsInv'
<1>1. /\ p \in setting /\ setting' = setting \ {p} /\ mem' = Open(p) /\ disk' = Open(p)
      /\ UNCHANGED <<hydrated, timer, expired, handlers, acted, restarts>>
  BY DEF SetResumes, Written
<1>2. InFlight(p) = 0 /\ acted[p] = 0 /\ timer[p] # "none"
  BY <1>1 DEF ApprovalsInv, UnsetIsFresh
<1> QED
  BY <1>1, <1>2, Unmoved, WriteKeeps DEF ApprovalsInv, ApprovalsTypeOK

(* The end of a turn answers its prompt: nothing of it is left to answer. *)
LEMMA TurnKeeps ==
  ASSUME ApprovalsInv, NEW p \in Prompts, TurnEnds(p)
  PROVE  ApprovalsInv'
<1>1. /\ handlers[p].turn > 0 /\ handlers' = [handlers EXCEPT ![p].turn = @ - 1]
      /\ acted' = (IF p \in Commands THEN acted ELSE Acted(p))
      /\ UNCHANGED <<expired, restarts>>
      /\ \/ Clear /\ UNCHANGED setting
         \/ \E q \in Prompts : timer[q] = "none" /\ SetStarts(q) /\ UNCHANGED hydrated
  BY DEF TurnEnds
<1>2. HandlersKept /\ InFlight(p) = 1 /\ InFlight(p)' = 0
  <2>1. handlers' # [handlers EXCEPT ![p].claimed = @ - 1, ![p].turn = @ + 1]
    BY <1>1 DEF ApprovalsInv, ApprovalsTypeOK
  <2> QED
    BY <1>1, <2>1, HandlerCounts
<1>3. /\ hydrated /\ Entry = mem /\ p # None
      /\ timer[p] # "none" /\ p \notin setting
  BY <1>2, HandlerHydrated, ApprovalsAssumption DEF ApprovalsInv, UnsetIsFresh
<1>4. mem'.prompt # p /\ disk'.prompt # p
  <2>1. CASE Clear
    <3>1. Entry = NoEntry => disk.prompt = None
      BY EntryFacts DEF NoEntry
    <3> QED
      BY <1>3, <2>1, <3>1 DEF Clear, Cleared, NoEntry
  <2>2. ASSUME NEW q \in Prompts, timer[q] = "none", SetStarts(q)
        PROVE  mem'.prompt # p /\ disk'.prompt # p
    BY <1>3, <2>2 DEF SetStarts, Written, Open, NoEntry
  <2> QED
    BY <1>1, <2>1, <2>2
<1>5. ActedKept
  <2>1. CASE p \in Commands
    BY <1>1, <2>1, Unmoved
  <2>2. CASE p \notin Commands
    <3>1. acted \in [Prompts -> 0..2] /\ ~(acted[p] > 0)
      BY <1>2, <2>2 DEF ApprovalsInv, ApprovalsTypeOK, PromptActsOnce
    <3>2. acted[p] = 0
      BY <3>1
    <3>3. acted' = [acted EXCEPT ![p] = 1]
      BY <1>1, <2>2, <3>2 DEF Acted
    <3> QED
      BY <1>2, <1>3, <1>4, <3>1, <3>2, <3>3 DEF ActedKept
  <2> QED
    BY <2>1, <2>2
<1>6. CASE Clear /\ UNCHANGED setting
  <2>1. hydrated' = TRUE
    BY <1>6 DEF Clear
  <2> QED
    BY <1>1, <1>2, <1>5, <1>6, <2>1, ClearKeeps, DropKeeps DEF ApprovalsInv, ApprovalsTypeOK
<1>7. CASE \E q \in Prompts : timer[q] = "none" /\ SetStarts(q) /\ UNCHANGED hydrated
  BY <1>1, <1>2, <1>5, <1>7, SetKeeps DEF ApprovalsInv, ApprovalsTypeOK
<1> QED
  BY <1>1, <1>6, <1>7

(* A click claims an entry that no handler works on. *)
LEMMA ClickKeeps ==
  ASSUME ApprovalsInv, NEW p \in Prompts, Click(p)
  PROVE  ApprovalsInv'
<1> DEFINE claim == [prompt |-> p, claimed |-> TRUE]
<1>1. /\ Entry = Open(p) /\ hydrated' = TRUE /\ mem' = claim /\ disk' = claim
      /\ handlers' = [handlers EXCEPT ![p].claimed = IF @ < 2 THEN @ + 1 ELSE @]
      /\ UNCHANGED <<timer, setting, expired, acted, restarts>>
  BY DEF Click, Open
<1>2. InFlight(p) = 0 /\ handlers \in [Prompts -> Counts]
  BY <1>1 DEF ApprovalsInv, OpenIsIdle, ApprovalsTypeOK, Counts
<1>3. disk.prompt = p
  BY <1>1, EntryFacts DEF Open
<1>4. acted[p] \in 0..2 /\ ~(acted[p] > 0) /\ timer[p] # "none" /\ p \notin setting
  BY <1>3 DEF ApprovalsInv, ApprovalsTypeOK, ActedIsGone, UnsetIsFresh
<1>5. acted[p] = 0
  BY <1>4
<1>6. handlers[p].claimed = 0 /\ handlers[p].turn = 0
  BY <1>2 DEF InFlight, Counts
<1>7. handlers' = [handlers EXCEPT ![p].claimed = 1]
  BY <1>1, <1>6
<1>8. handlers' \in [Prompts -> Counts] /\ InFlight(p)' = 1
  <2>1. handlers'[p].claimed = 1 /\ handlers'[p].turn = 0
    BY <1>2, <1>6, <1>7 DEF Counts
  <2> QED
    BY <1>2, <1>7, <2>1 DEF Counts, InFlight
<1>9. \A o \in Prompts \ {p} : InFlight(o)' = InFlight(o)
  BY <1>2, <1>7 DEF InFlight
<1>10. claim \in Entries /\ claim.prompt = p /\ claim.claimed /\ p # None
  BY ApprovalsAssumption DEF Entries
<1> HIDE DEF claim
<1>11. ApprovalsTypeOK'
  BY <1>1, <1>8, <1>10 DEF ApprovalsInv, ApprovalsTypeOK, Entries, Counts
<1>12. NoDurableNone' /\ UnhydratedIsDisk' /\ DurableMirrorsMemory' /\ OpenIsIdle'
  BY <1>1, <1>10
  DEF NoDurableNone, UnhydratedIsDisk, DurableMirrorsMemory, OpenIsIdle, Entry, Open
<1>13. UnsetIsFresh' /\ ActedIsGone'
  BY <1>1, <1>4, <1>5, <1>9, <1>10 DEF ApprovalsInv, UnsetIsFresh, ActedIsGone
<1>14. PromptActsOnce'
  <2>1. \A o \in Prompts : InFlight(o)' <= 1
    BY <1>8, <1>9 DEF ApprovalsInv, PromptActsOnce
  <2>2. \A o \in Prompts \ Commands : acted[o] > 0 => InFlight(o)' = 0
    BY <1>4, <1>9 DEF ApprovalsInv, PromptActsOnce
  <2> QED
    BY <1>1, <2>1, <2>2 DEF ApprovalsInv, PromptActsOnce
<1> QED
  BY <1>11, <1>12, <1>13, <1>14 DEF ApprovalsInv

(* A handler that throws gives back the claim of its own prompt only. *)
LEMMA ThrowKeeps ==
  ASSUME ApprovalsInv, NEW p \in Prompts, HandlerThrows(p)
  PROVE  ApprovalsInv'
<1>1. /\ UNCHANGED <<hydrated, timer, setting, expired, acted, restarts>>
      /\ Rollback(p)
  BY DEF HandlerThrows
<1>2. HandlersKept /\ InFlight(p) = 1 /\ InFlight(p)' = 0
  <2>1. handlers' # [handlers EXCEPT ![p].claimed = @ - 1, ![p].turn = @ + 1]
    BY DEF HandlerThrows, ApprovalsInv, ApprovalsTypeOK
  <2> QED
    BY <2>1, HandlerCounts DEF HandlerThrows
<1>3. hydrated = TRUE /\ Entry = mem
  BY <1>2, HandlerHydrated DEF ApprovalsInv, ApprovalsTypeOK
<1>4. CASE mem # [prompt |-> p, claimed |-> TRUE]
  BY <1>1, <1>2, <1>3, <1>4, Unmoved, DropKeeps
  DEF Rollback, ApprovalsInv, ApprovalsTypeOK
<1>5. CASE mem = [prompt |-> p, claimed |-> TRUE]
  <2>1. /\ mem' = Open(p) /\ disk' = (IF p \in Discord THEN disk ELSE Open(p))
        /\ Open(p) \in Entries /\ Open(p).prompt = p /\ ~Open(p).claimed /\ p # None
    BY <1>1, <1>5, ApprovalsAssumption DEF Rollback, Open, Entries
  <2>2. disk \in Entries /\ disk.prompt = p
    BY <1>3, <1>5, EntryFacts
  <2>3. disk' \in Entries /\ disk'.prompt = p /\ (disk'.claimed => p \in Discord)
    BY <2>1, <2>2
  <2>4. \A o \in Prompts : /\ InFlight(o) \in Nat /\ InFlight(o)' \in Nat
                           /\ InFlight(o)' <= InFlight(o)
    BY <1>2 DEF HandlersKept, Counts, InFlight, ApprovalsInv, ApprovalsTypeOK
  <2>5. ApprovalsTypeOK'
    BY <1>1, <1>2, <2>1, <2>3 DEF ApprovalsInv, ApprovalsTypeOK, HandlersKept, Entries, Counts
  <2>6. NoDurableNone' /\ UnhydratedIsDisk' /\ DurableMirrorsMemory'
    BY <1>1, <1>3, <2>1, <2>3 DEF NoDurableNone, UnhydratedIsDisk, DurableMirrorsMemory
  <2>7. UnsetIsFresh' /\ ActedIsGone'
    BY <1>1, <1>5, <2>1, <2>2, <2>3, <2>4 DEF ApprovalsInv, UnsetIsFresh, ActedIsGone
  <2>8. OpenIsIdle'
    BY <1>1, <1>2, <1>3, <2>1 DEF OpenIsIdle, Entry, Open
  <2>9. PromptActsOnce'
    BY <1>1, <2>4 DEF ApprovalsInv, PromptActsOnce
  <2> QED
    BY <2>5, <2>6, <2>7, <2>8, <2>9 DEF ApprovalsInv
<1> QED
  BY <1>4, <1>5

(* A new process has no handler and an empty memory; the disk is read later. *)
LEMMA RestartKeeps ==
  ASSUME ApprovalsInv, Restart
  PROVE  ApprovalsInv'
<1>1. /\ mem' = NoEntry /\ hydrated' = FALSE /\ setting' = {}
      /\ timer' = [p \in Prompts |-> IF timer[p] = "none" THEN "none" ELSE "lost"]
      /\ handlers' = [p \in Prompts |-> [claimed |-> 0, turn |-> 0]]
      /\ UNCHANGED <<disk, expired, acted>>
  BY DEF Restart
<1>2. restarts' \in 0..MaxRestarts
  BY ApprovalsAssumption DEF Restart, ApprovalsInv, ApprovalsTypeOK
<1>3. handlers' \in [Prompts -> Counts]
  BY <1>1 DEF Counts
<1>4. ASSUME NEW p \in Prompts PROVE InFlight(p)' = 0
  <2>1. InFlight(p)' = 0 + 0
    BY <1>1 DEF InFlight
  <2> QED
    BY <2>1
<1>5. NoEntry \in Entries /\ NoEntry.prompt = None /\ \A p \in Prompts : p # None
  BY ApprovalsAssumption DEF NoEntry, Entries
<1>6. ApprovalsTypeOK'
  BY <1>1, <1>2, <1>3, <1>5 DEF ApprovalsInv, ApprovalsTypeOK, Entries, Counts
<1>7. NoDurableNone' /\ UnhydratedIsDisk' /\ DurableMirrorsMemory' /\ OpenIsIdle'
  BY <1>1, <1>4
  DEF ApprovalsInv, NoDurableNone, UnhydratedIsDisk, DurableMirrorsMemory, OpenIsIdle
<1>8. UnsetIsFresh' /\ ActedIsGone'
  BY <1>1, <1>4, <1>5 DEF ApprovalsInv, UnsetIsFresh, ActedIsGone
<1>9. PromptActsOnce'
  BY <1>1, <1>4 DEF ApprovalsInv, PromptActsOnce
<1> QED
  BY <1>6, <1>7, <1>8, <1>9 DEF ApprovalsInv

(* Every step of the prompts, their timers, handlers and the process. *)
LEMMA ApprovalsStepInv == ApprovalsInv /\ [ApprovalsNext]_approvalsVars => ApprovalsInv'
<1> SUFFICES ASSUME ApprovalsInv, [ApprovalsNext]_approvalsVars PROVE ApprovalsInv'
  OBVIOUS
<1>1. CASE UNCHANGED approvalsVars
  BY <1>1
  DEF approvalsVars, ApprovalsInv, ApprovalsTypeOK, NoDurableNone, UnhydratedIsDisk,
      UnsetIsFresh, ActedIsGone, OpenIsIdle, PromptActsOnce, DurableMirrorsMemory,
      InFlight, Entry
<1>2. ASSUME NEW p \in Prompts, Remember(p) \/ SetResumes(p) \/ Expire(p) \/ TimerFires(p)
      PROVE  ApprovalsInv'
  BY <1>2, RememberKeeps, ResumeKeeps, ExpireKeeps, TimerKeeps
<1>3. ASSUME NEW p \in Prompts,
             \/ Click(p) \/ DeferFails(p) \/ CommandStarts(p)
             \/ TurnEnds(p) \/ TurnFails(p) \/ HandlerThrows(p)
      PROVE  ApprovalsInv'
  BY <1>3, ClickKeeps, EndKeeps, CommandKeeps, TurnKeeps, ThrowKeeps
<1>4. CASE Sweep \/ TurnClears \/ Restart
  BY <1>4, SweepKeeps, RestartKeeps
<1> QED
  BY <1>1, <1>2, <1>3, <1>4, TextKeeps DEF ApprovalsNext

-----------------------------------------------------------------------------
(* The inductive invariant holds in every state of the pending approvals. *)
THEOREM ApprovalsInvariant == ApprovalsSpec => []ApprovalsInv
  BY ApprovalsInitInv, ApprovalsStepInv, PTL DEF ApprovalsSpec

(* The state keeps its shape; an entry of memory without a prompt is no entry. *)
THEOREM ApprovalsTypeCorrect == ApprovalsSpec => []ApprovalsTypeOK
<1>1. ApprovalsInv => ApprovalsTypeOK
  BY DEF ApprovalsInv
<1> QED
  BY <1>1, ApprovalsInvariant, PTL

(* A prompt is acted on once, whatever was set, rolled back or reloaded between
   two answers of a user. *)
THEOREM PromptsActOnce == ApprovalsSpec => []PromptActsOnce
<1>1. ApprovalsInv => PromptActsOnce
  BY DEF ApprovalsInv
<1> QED
  BY <1>1, ApprovalsInvariant, PTL

(* Once the disk was read it holds the entry of memory; a claim that is only on
   disk is one that Discord gave back in memory. *)
THEOREM DiskMirrorsMemory == ApprovalsSpec => []DurableMirrorsMemory
<1>1. ApprovalsInv => DurableMirrorsMemory
  BY DEF ApprovalsInv
<1> QED
  BY <1>1, ApprovalsInvariant, PTL

-----------------------------------------------------------------------------
(* The safety half of OpenPromptEnds. *)
OpenIsTimed ==
  \A p \in Prompts :
    (disk.prompt = p \/ p \in setting) /\ ~expired[p] => timer[p] \in {"armed", "lost"}

(* A step that removes the entry and disposes it leaves the timers of the prompts
   that wait for the old buttons. *)
LEMMA DropKeepsTimers ==
  ASSUME ApprovalsInv, OpenIsTimed, setting' = setting,
         \A p \in Prompts : ~expired'[p] => ~expired[p],
         \/ disk' = disk /\ timer' = timer
         \/ disk' = NoEntry /\ timer' = Disposed(timer, Entry.prompt)
         \/ disk'.prompt = disk.prompt /\ timer' = timer
  PROVE  OpenIsTimed'
<1> SUFFICES ASSUME NEW p \in Prompts, disk'.prompt = p \/ p \in setting, ~expired'[p]
             PROVE  timer'[p] \in {"armed", "lost"}
  BY DEF OpenIsTimed
<1>1. p # None /\ ~expired[p] /\ timer \in [Prompts -> {"none", "armed", "done", "lost"}]
  BY ApprovalsAssumption DEF ApprovalsInv, ApprovalsTypeOK
<1>2. CASE disk'.prompt = disk.prompt /\ timer' = timer
  BY <1>1, <1>2 DEF OpenIsTimed
<1>3. CASE disk' = NoEntry /\ timer' = Disposed(timer, Entry.prompt)
  <2>1. p \in setting /\ p # Entry.prompt
    BY <1>1, <1>3, EntryFacts DEF NoEntry, ApprovalsInv, UnsetIsFresh
  <2>2. timer'[p] = timer[p]
    BY <1>1, <1>3, <2>1 DEF Disposed
  <2> QED
    BY <1>1, <2>1, <2>2 DEF OpenIsTimed
<1> QED
  BY <1>2, <1>3

(* setPendingApproval arms the timer of its prompt before its first await. *)
LEMMA SetKeepsTimers ==
  ASSUME ApprovalsInv, OpenIsTimed, NEW q \in Prompts, SetStarts(q), timer[q] = "none",
         expired' = expired
  PROVE  OpenIsTimed'
<1> DEFINE armed == [timer EXCEPT ![q] = "armed"]
<1> SUFFICES ASSUME NEW p \in Prompts, disk'.prompt = p \/ p \in setting', ~expired[p]
             PROVE  timer'[p] \in {"armed", "lost"}
  BY DEF OpenIsTimed
<1>1. /\ p # None /\ timer \in [Prompts -> {"none", "armed", "done", "lost"}]
      /\ mem.prompt # q /\ q # None
      /\ p \in setting => mem.prompt # p
  BY ApprovalsAssumption DEF ApprovalsInv, ApprovalsTypeOK, UnsetIsFresh
<1>2. /\ armed[q] = "armed" /\ \A o \in Prompts \ {q} : armed[o] = timer[o]
      /\ \A o \in Prompts : o # mem.prompt => Disposed(armed, mem.prompt)[o] = armed[o]
  BY <1>1 DEF Disposed
<1>3. \/ disk'.prompt = q /\ timer' = armed /\ setting' = setting
      \/ /\ disk'.prompt = None /\ timer' = Disposed(armed, mem.prompt)
         /\ setting' = setting \cup {q}
  BY DEF SetStarts, Written, Open, NoEntry
<1> HIDE DEF armed
<1>4. p = q \/ p \in setting
  BY <1>1, <1>3
<1>5. timer'[p] = armed[p]
  BY <1>1, <1>2, <1>3, <1>4
<1> QED
  BY <1>2, <1>4, <1>5 DEF OpenIsTimed

(* Every step of the prompts leaves an open one with its timer. *)
LEMMA TimedStep ==
  ASSUME ApprovalsInv, OpenIsTimed, [ApprovalsNext]_approvalsVars
  PROVE  OpenIsTimed'
<1>1. CASE UNCHANGED approvalsVars
  BY <1>1 DEF approvalsVars, OpenIsTimed
<1>2. ASSUME NEW p \in Prompts, Remember(p)
      PROVE  OpenIsTimed'
  BY <1>2, SetKeepsTimers DEF Remember
<1>3. ASSUME NEW p \in Prompts, SetResumes(p)
      PROVE  OpenIsTimed'
  BY <1>3 DEF SetResumes, Written, Open, OpenIsTimed
<1>4. ASSUME NEW p \in Prompts, Expire(p)
      PROVE  OpenIsTimed'
  BY <1>4, DropKeepsTimers DEF Expire, ApprovalsInv, ApprovalsTypeOK
<1>5. ASSUME NEW p \in Prompts, TimerFires(p)
      PROVE  OpenIsTimed'
  <2> SUFFICES ASSUME NEW o \in Prompts, disk'.prompt = o \/ o \in setting', ~expired'[o]
               PROVE  timer'[o] \in {"armed", "lost"}
    BY DEF OpenIsTimed
  <2>0. Entry = NoEntry => disk = NoEntry
    BY EntryFacts DEF NoEntry
  <2>1. /\ expired[p] /\ expired' = expired /\ setting' = setting /\ disk' = NoEntry
        /\ timer' = Disposed([timer EXCEPT ![p] = "done"], Entry.prompt)
    BY <1>5, <2>0 DEF TimerFires
  <2>2. /\ o # None /\ o \in setting /\ o # p /\ o # Entry.prompt
        /\ timer \in [Prompts -> {"none", "armed", "done", "lost"}]
    BY <2>1, EntryFacts, ApprovalsAssumption
    DEF NoEntry, ApprovalsInv, ApprovalsTypeOK, UnsetIsFresh
  <2>3. timer'[o] = timer[o]
    BY <2>1, <2>2 DEF Disposed
  <2> QED
    BY <2>1, <2>2, <2>3 DEF OpenIsTimed
<1>6. ASSUME \/ \E p \in Prompts : \/ TextApproves(p) \/ DeferFails(p)
                                   \/ TurnFails(p) \/ CommandStarts(p)
             \/ Sweep \/ TurnClears
      PROVE  OpenIsTimed'
  <2>1. setting' = setting /\ expired' = expired
    BY <1>6 DEF TextApproves, DeferFails, TurnFails, CommandStarts, Sweep, TurnClears
  <2>2. \/ disk' = disk /\ timer' = timer
        \/ disk' = NoEntry /\ timer' = Disposed(timer, Entry.prompt)
    BY <1>6 DEF TextApproves, DeferFails, TurnFails, CommandStarts, Sweep, TurnClears,
                Clear, Cleared
  <2> QED
    BY <2>1, <2>2, DropKeepsTimers
<1>7. ASSUME NEW p \in Prompts, Click(p) \/ HandlerThrows(p)
      PROVE  OpenIsTimed'
  <2>1. setting' = setting /\ expired' = expired /\ timer' = timer
    BY <1>7 DEF Click, HandlerThrows
  <2>2. CASE Click(p)
    <3>1. disk'.prompt = disk.prompt
      BY <2>2, EntryFacts DEF Click, Open
    <3> QED
      BY <2>1, <3>1, DropKeepsTimers
  <2>3. CASE HandlerThrows(p)
    <3>1. hydrated /\ Entry = mem
      <4>1. InFlight(p) > 0
        BY <2>3 DEF HandlerThrows, InFlight, ApprovalsInv, ApprovalsTypeOK
      <4> QED
        BY <4>1, HandlerHydrated
    <3>2. disk'.prompt = disk.prompt
      BY <2>3, <3>1, EntryFacts DEF HandlerThrows, Rollback, Open
    <3> QED
      BY <2>1, <3>2, DropKeepsTimers
  <2> QED
    BY <1>7, <2>2, <2>3
<1>8. ASSUME NEW p \in Prompts, TurnEnds(p)
      PROVE  OpenIsTimed'
  <2>1. /\ expired' = expired
        /\ \/ Clear /\ UNCHANGED setting
           \/ \E q \in Prompts : timer[q] = "none" /\ SetStarts(q)
    BY <1>8 DEF TurnEnds
  <2>2. CASE Clear /\ UNCHANGED setting
    <3>1. \/ disk' = disk /\ timer' = timer
          \/ disk' = NoEntry /\ timer' = Disposed(timer, Entry.prompt)
      BY <2>2 DEF Clear, Cleared
    <3> QED
      BY <2>1, <2>2, <3>1, DropKeepsTimers
  <2> QED
    BY <2>1, <2>2, SetKeepsTimers
<1>9. CASE Restart
  <2>1. /\ disk' = disk /\ setting' = {} /\ expired' = expired
        /\ timer' = [p \in Prompts |-> IF timer[p] = "none" THEN "none" ELSE "lost"]
    BY <1>9 DEF Restart
  <2> QED
    BY <2>1 DEF OpenIsTimed
<1> QED
  BY <1>1, <1>2, <1>3, <1>4, <1>5, <1>6, <1>7, <1>8, <1>9, ApprovalsAssumption
  DEF ApprovalsNext

(* A prompt that is open on disk, or waits for the old buttons to be disabled,
   keeps the timer that ends it until its expiry: no disposal of another entry
   clears it (setPendingApproval, disposePendingApprovalEntry). *)
THEOREM OpenPromptsAreTimed == ApprovalsSpec => []OpenIsTimed
<1>1. ApprovalsInit => OpenIsTimed
  BY ApprovalsAssumption DEF ApprovalsInit, NoEntry, OpenIsTimed
<1> QED
  BY <1>1, TimedStep, ApprovalsInvariant, PTL DEF ApprovalsSpec
=============================================================================
