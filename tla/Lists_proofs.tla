---------------------------- MODULE Lists_proofs ----------------------------
(***************************************************************************)
(* What Lists.tla promises of the pushed lists, for any keys, people,      *)
(* edits and bounds: every one is as shown, and every reader accepts it.   *)
(***************************************************************************)
EXTENDS Lists, TLAPS

(* What makes the two inductive: a command knows what it is; the lists it  *)
(* showed hold the configured ones it pushes; and its checks are those of  *)
(* the manifest that it will replace.                                      *)
Knows(c) == c.pc # "idle" => c.op # "none"

Shows(c) ==
  c.pc \in {"confirm", "attempt", "push", "retry"} /\ c.op # "push" =>
    /\ c.cfg.participants # {} => c.told.participants = c.cfg.participants
    /\ c.cfg.admins # {} => c.told.admins = c.cfg.admins

KnowsOp == \A p \in Person : Knows(proc[p])
ShowsConfigured == \A p \in Person : Shows(proc[p])
Checked == \A p \in Person : At(p, "push") => MayPush(p)

ListsInv ==
  /\ TypeOK /\ KnowsOp /\ ShowsConfigured /\ Checked
  /\ ListsAsShown /\ NextIsAccepted

-----------------------------------------------------------------------------
\* Types of the operators.

LEMMA OrType ==
  ASSUME NEW S, NEW T, S \subseteq Key, T \subseteq Key
  PROVE  Or(S, T) \subseteq Key
BY DEF Or

LEMMA ListsOfType ==
  ASSUME TypeOK, NEW v \in 0..Len(log)
  PROVE  ListsOf(v) \in Lists
<1>1. CASE v = 0
  BY <1>1 DEF ListsOf, Lists, Unset
<1>2. CASE v # 0
  <2>1. log[v] \in Manifest
    BY <1>2 DEF TypeOK
  <2> QED
    BY <2>1, <1>2 DEF ListsOf, Lists, Manifest
<1> QED
  BY <1>1, <1>2

LEMMA ChangedType ==
  ASSUME TypeOK, NEW v \in 0..Len(log), NEW cfg \in Lists
  PROVE  Changed(cfg, v) \in Lists
BY ListsOfType, OrType DEF Changed, Lists

LEMMA PushedType ==
  ASSUME TypeOK, NEW p \in Person
  PROVE  Pushed(p) \in Lists
<1>1. proc[p] \in Command
  BY DEF TypeOK
<1>2. proc[p].view \in 0..Len(log) /\ proc[p].cfg \in Lists
  BY <1>1 DEF Command
<1>3. ListsOf(proc[p].view) \in Lists /\ Changed(proc[p].cfg, proc[p].view) \in Lists
  BY <1>2, ListsOfType, ChangedType
<1>4. {p} \subseteq Key
  BY KeyAssumption
<1>5. [proc[p].cfg EXCEPT !.admins = Or(@, {p})] \in Lists
  BY <1>2, <1>4, OrType DEF Lists
<1> QED
  BY <1>3, <1>5 DEF Pushed
-----------------------------------------------------------------------------
\* What stays true of a command that another's step leaves alone.

(* The branch only grows: manifests stay what they were.                   *)
Grows == log' \in Seq(Manifest) /\ Len(log) <= Len(log')
         /\ \A v \in 1..Len(log) : log'[v] = log[v]

LEMMA ListsOfStay ==
  ASSUME TypeOK, Grows, NEW v \in 0..Len(log)
  PROVE  ListsOf(v)' = ListsOf(v)
<1>1. CASE v = 0
  BY <1>1 DEF ListsOf
<1>2. CASE v # 0
  BY <1>2 DEF ListsOf, Grows
<1> QED
  BY <1>1, <1>2

LEMMA MayPushStays ==
  ASSUME TypeOK, Grows, NEW p \in Person,
         proc'[p].view = proc[p].view, proc'[p].cfg = proc[p].cfg, proc'[p].op = proc[p].op
  PROVE  MayPush(p)' = MayPush(p)
<1>1. proc[p].view \in 0..Len(log)
  BY DEF TypeOK, Command
<1>2. proc[p].view # 0 => log'[proc[p].view] = log[proc[p].view]
  BY <1>1 DEF Grows
<1> QED
  BY <1>2 DEF MayPush, Pushed, Changed, ListsOf, AdminsTakePart
-----------------------------------------------------------------------------
\* Steps that leave the branch alone.

LEMMA IdleType ==
  ASSUME TypeOK
  PROVE  Idle \in Command /\ Knows(Idle) /\ Shows(Idle) /\ Idle.pc = "idle"
<1>1. Len(log) \in Nat /\ PushAttempts \in Nat
  BY BoundAssumption DEF TypeOK
<1> QED
  BY <1>1 DEF Idle, Command, Unset, Lists, Knows, Shows

\* The rest of a next state, with the branch as it was.
OthersTyped ==
  /\ config' \in [Person -> Lists]
  /\ trust' \in [Person -> 0..Len(log)]
  /\ upsets' \in 0..MaxUpsets

LEMMA UnchangedTyped ==
  ASSUME TypeOK
  PROVE  /\ UNCHANGED config => config' \in [Person -> Lists]
         /\ UNCHANGED trust => trust' \in [Person -> 0..Len(log)]
         /\ UNCHANGED upsets => upsets' \in 0..MaxUpsets
BY DEF TypeOK

LEMMA ConnectTyped ==
  ASSUME TypeOK, NEW p \in Person, NEW cfg, Connect(p, cfg)
  PROVE  trust' \in [Person -> 0..Len(log)]
<1>1. Len(log) \in 0..Len(log)
  BY DEF TypeOK
<1> QED
  BY <1>1 DEF Connect, TypeOK

LEMMA SetTyped ==
  ASSUME TypeOK, NEW p \in Person, NEW list \in SUBSET Key, NEW next,
         SetParticipants(p, list, next)
  PROVE  /\ config' \in [Person -> Lists] /\ upsets' \in 0..MaxUpsets
         /\ \E c \in {next, Idle} : proc' = [proc EXCEPT ![p] = c]
<1>1. \A some \in SUBSET Key : [config EXCEPT ![p].participants = some] \in [Person -> Lists]
  BY DEF TypeOK, Lists
<1>2. upsets < MaxUpsets => upsets + 1 \in 0..MaxUpsets
  BY BoundAssumption DEF TypeOK
<1>3. upsets \in 0..MaxUpsets
  BY DEF TypeOK
<1>4. CASE upsets < MaxUpsets /\ upsets' = upsets + 1
           /\ (\E some \in SUBSET list : config' = [config EXCEPT ![p].participants = some])
           /\ proc' = [proc EXCEPT ![p] = Idle]
  <2>1. PICK some \in SUBSET list : config' = [config EXCEPT ![p].participants = some]
    BY <1>4
  <2>2. config' \in [Person -> Lists]
    BY <2>1, <1>1
  <2> QED
    BY <1>2, <1>4, <2>2
<1>5. CASE config' = [config EXCEPT ![p].participants = list]
           /\ proc' = [proc EXCEPT ![p] = next] /\ UNCHANGED upsets
  <2>1. config' \in [Person -> Lists]
    BY <1>1, <1>5
  <2> QED
    BY <1>3, <1>5, <2>1
<1> QED
  BY <1>4, <1>5, Zenon DEF SetParticipants

(* With the branch as it was and p's command replaced by c, what is to be  *)
(* shown is about c alone.                                                 *)
LEMMA OneMoves ==
  ASSUME ListsInv, NEW p \in Person, NEW c \in Command,
         log' = log, proc' = [proc EXCEPT ![p] = c],
         Knows(c), Shows(c), c.pc = "push" => MayPush(p)',
         OthersTyped
  PROVE  ListsInv'
<1>1. TypeOK /\ Command' = Command
  BY DEF ListsInv, Command
<1>2. proc' \in [Person -> Command]
  BY <1>1 DEF TypeOK
<1>3. \A q \in Person : proc'[q] = IF q = p THEN c ELSE proc[q]
  BY <1>1 DEF TypeOK
<1>4. KnowsOp' /\ ShowsConfigured'
  BY <1>3 DEF ListsInv, KnowsOp, ShowsConfigured, Knows, Shows
<1>5. Grows
  BY <1>1 DEF Grows, TypeOK
<1>6. Checked'
  <2> SUFFICES ASSUME NEW q \in Person, At(q, "push")'
               PROVE  MayPush(q)'
    BY DEF Checked
  <2>1. CASE q = p
    BY <2>1, <1>3 DEF At
  <2>2. CASE q # p
    <3>1. proc'[q] = proc[q]
      BY <2>2, <1>3
    <3>2. MayPush(q)
      BY <3>1 DEF ListsInv, Checked, At
    <3> QED
      BY <3>1, <3>2, <1>1, <1>5, MayPushStays
  <2> QED
    BY <2>1, <2>2
<1>7. ListsAsShown' /\ NextIsAccepted'
  BY DEF ListsInv, ListsAsShown, NextIsAccepted, ListsOf, Follows, AdminsTakePart
<1>8. TypeOK'
  BY <1>1, <1>2 DEF TypeOK, OthersTyped
<1> QED
  BY <1>4, <1>6, <1>7, <1>8 DEF ListsInv

LEMMA NoneMoves ==
  ASSUME ListsInv, log' = log, proc' = proc, OthersTyped
  PROVE  ListsInv'
<1>1. TypeOK /\ Command' = Command
  BY DEF ListsInv, Command
<1>2. proc' \in [Person -> Command]
  BY <1>1 DEF TypeOK
<1>3. KnowsOp' /\ ShowsConfigured'
  BY DEF ListsInv, KnowsOp, ShowsConfigured
<1>4. Grows
  BY <1>1 DEF Grows, TypeOK
<1>5. Checked'
  BY <1>1, <1>4, MayPushStays DEF ListsInv, Checked, At
<1>6. ListsAsShown' /\ NextIsAccepted'
  BY DEF ListsInv, ListsAsShown, NextIsAccepted, ListsOf, Follows, AdminsTakePart
<1>7. TypeOK'
  BY <1>1, <1>2 DEF TypeOK, OthersTyped
<1> QED
  BY <1>3, <1>5, <1>6, <1>7 DEF ListsInv
-----------------------------------------------------------------------------
\* Each action keeps the invariant.

LEMMA ListsInit == Init => ListsInv
<1> SUFFICES ASSUME Init PROVE ListsInv
  OBVIOUS
<1>1. log = <<>> /\ Len(log) = 0 /\ log \in Seq(Manifest)
  BY DEF Init
<1>2. TypeOK
  BY <1>1, BoundAssumption DEF Init, TypeOK, Idle, Command, Unset, Lists
<1>3. KnowsOp /\ ShowsConfigured /\ Checked
  BY DEF Init, Idle, KnowsOp, ShowsConfigured, Checked, Knows, Shows, At
<1>4. ListsAsShown /\ NextIsAccepted
  BY <1>1 DEF ListsAsShown, NextIsAccepted
<1> QED
  BY <1>2, <1>3, <1>4 DEF ListsInv

(* An edit of the configuration, then a command that knows what it is.     *)
LEMMA SetKeeps ==
  ASSUME ListsInv, NEW p \in Person, NEW list \in SUBSET Key, NEW next \in Command,
         SetParticipants(p, list, next), Knows(next), next.pc \in {"idle", "open"},
         trust' \in [Person -> 0..Len(log)], UNCHANGED log
  PROVE  ListsInv'
<1>1. TypeOK
  BY DEF ListsInv
<1>2. PICK c \in {next, Idle} : proc' = [proc EXCEPT ![p] = c]
  BY <1>1, SetTyped
<1>3. OthersTyped
  BY <1>1, SetTyped DEF OthersTyped
<1>4. c \in Command /\ Knows(c) /\ Shows(c) /\ c.pc # "push"
  BY <1>1, IdleType DEF Shows
<1> QED
  BY <1>2, <1>3, <1>4, OneMoves

LEMMA InitRemoteKeeps ==
  ASSUME ListsInv, NEW p \in Person, NEW others \in SUBSET (Person \ {p}),
         InitRemote(p, others)
  PROVE  ListsInv'
<1>1. TypeOK
  BY DEF ListsInv
<1>2. {p} \cup others \in SUBSET Key
  BY KeyAssumption
<1> QED
  BY <1>1, <1>2, IdleType, UnchangedTyped, SetKeeps DEF InitRemote

LEMMA JoinKeeps ==
  ASSUME ListsInv, NEW p \in Person, NEW v \in DOMAIN log, Join(p, v)
  PROVE  ListsInv'
<1>1. TypeOK
  BY DEF ListsInv
<1>2. log[v].participants \in SUBSET Key
  <2>1. DOMAIN log = 1..Len(log) /\ log \in Seq(Manifest)
    BY <1>1 DEF TypeOK
  <2>2. log[v] \in Manifest
    BY <2>1
  <2> QED
    BY <2>2 DEF Manifest
<1> QED
  BY <1>1, <1>2, IdleType, UnchangedTyped, SetKeeps DEF Join

LEMMA GitConfigKeeps ==
  ASSUME ListsInv, NEW p \in Person, NEW lists \in ByHand, GitConfig(p, lists)
  PROVE  ListsInv'
<1>1. TypeOK
  BY DEF ListsInv
<1>2. OthersTyped
  BY <1>1, BoundAssumption, ByHandAssumption DEF GitConfig, OthersTyped, TypeOK, Lists
<1> QED
  BY <1>2, NoneMoves DEF GitConfig

LEMMA FetchKeeps ==
  ASSUME ListsInv, NEW p \in Person, Fetch(p)
  PROVE  ListsInv'
<1>1. TypeOK
  BY DEF ListsInv
<1>2. OthersTyped
  BY <1>1, ConnectTyped DEF Fetch, OthersTyped, TypeOK
<1> QED
  BY <1>2, NoneMoves DEF Fetch

LEMMA EditKeeps ==
  ASSUME ListsInv, NEW p \in Person, NEW edit \in Edits, Edit(p, edit)
  PROVE  ListsInv'
<1> DEFINE list == Or(config[p].participants, ListsOf(Len(log)).participants)
           next == [Idle EXCEPT !.pc = "open", !.op = "edit",
                                !.before = config[p].participants]
<1>1. TypeOK
  BY DEF ListsInv
<1>2. config[p].participants \in SUBSET Key /\ Len(log) \in 0..Len(log)
  BY <1>1 DEF TypeOK, Lists
<1>3. ListsOf(Len(log)).participants \in SUBSET Key
  BY <1>1, <1>2, ListsOfType DEF Lists
<1>4. edit.remove \subseteq Key /\ edit.add \subseteq Key
  BY EditsAssumption
<1>5. (list \ edit.remove) \cup edit.add \in SUBSET Key
  BY <1>2, <1>3, <1>4, OrType
<1>6. next \in Command /\ Knows(next) /\ next.pc = "open"
  BY <1>1, <1>2, IdleType DEF Idle, Command, Knows
<1>7. trust' \in [Person -> 0..Len(log)]
  BY <1>1, ConnectTyped, UnchangedTyped DEF Edit
<1>8. SetParticipants(p, (list \ edit.remove) \cup edit.add, next) /\ UNCHANGED log
  BY DEF Edit
<1> QED
  BY <1>5, <1>6, <1>7, <1>8, SetKeeps

(* A command that starts.                                                  *)
LEMMA StartKeeps ==
  ASSUME ListsInv, NEW p \in Person, Apply(p) \/ Push(p)
  PROVE  ListsInv'
<1>1. TypeOK
  BY DEF ListsInv
<1>2. OthersTyped
  BY <1>1, UnchangedTyped DEF Apply, Push, OthersTyped
<1>3. PICK op \in {"apply", "push"} :
        proc' = [proc EXCEPT ![p] = [Idle EXCEPT !.pc = "open", !.op = op]]
  BY DEF Apply, Push
<1> DEFINE c == [Idle EXCEPT !.pc = "open", !.op = op]
<1>4. c \in Command /\ Knows(c) /\ Shows(c) /\ c.pc = "open"
  BY <1>1, IdleType DEF Idle, Command, Knows, Shows
<1>5. UNCHANGED log
  BY DEF Apply, Push
<1> HIDE DEF c
<1>6. proc' = [proc EXCEPT ![p] = c]
  BY <1>3 DEF c
<1> QED
  BY <1>2, <1>4, <1>5, <1>6, OneMoves

LEMMA DeclineKeeps ==
  ASSUME ListsInv, NEW p \in Person, Decline(p)
  PROVE  ListsInv'
<1>1. TypeOK
  BY DEF ListsInv
<1>2. proc[p].before \in SUBSET Key
  BY <1>1 DEF TypeOK, Command
<1> QED
  BY <1>1, <1>2, IdleType, UnchangedTyped, SetKeeps DEF Decline

(* The lists it shows are the configured ones, where there are any.        *)
LEMMA OpenKeeps ==
  ASSUME ListsInv, NEW p \in Person, Open(p)
  PROVE  ListsInv'
<1> DEFINE told == Changed(config[p], Len(log))
           opened == [proc[p] EXCEPT !.cfg = config[p], !.view = Len(log), !.attempt = 1]
           asking == [opened EXCEPT !.told = told,
                        !.pc = IF proc[p].op = "edit" THEN "confirm" ELSE "attempt"]
           pushing == [opened EXCEPT !.pc = "attempt"]
<1>1. TypeOK
  BY DEF ListsInv
<1>2. proc[p] \in Command /\ config[p] \in Lists /\ Len(log) \in 0..Len(log)
      /\ 1 \in 0..PushAttempts
  BY <1>1, BoundAssumption DEF TypeOK
<1>3. told \in Lists
  BY <1>1, <1>2, ChangedType
<1>4. Knows(proc[p]) /\ proc[p].pc = "open"
  BY DEF Open, At, ListsInv, KnowsOp
<1>5. config[p].participants # {} => told.participants = config[p].participants
  BY DEF Changed, Or
<1>6. config[p].admins # {} => told.admins = config[p].admins
  BY DEF Changed, Or
<1> HIDE DEF told
<1>7. asking \in Command /\ Knows(asking) /\ Shows(asking) /\ asking.pc # "push"
  BY <1>2, <1>3, <1>4, <1>5, <1>6 DEF Command, Knows, Shows
<1>8. proc[p].op = "push" =>
        pushing \in Command /\ Knows(pushing) /\ Shows(pushing) /\ pushing.pc # "push"
  BY <1>2, <1>4 DEF Command, Knows, Shows
<1>9. PICK c \in {asking, pushing, Idle} : /\ proc' = [proc EXCEPT ![p] = c]
                                           /\ c = pushing /\ c # asking /\ c # Idle => proc[p].op = "push"
  BY Zenon DEF Open, told
<1>10. OthersTyped
  BY <1>1, ConnectTyped, UnchangedTyped DEF Open, OthersTyped
<1>11. c \in Command /\ Knows(c) /\ Shows(c) /\ c.pc # "push"
  BY <1>1, <1>7, <1>8, <1>9, IdleType
<1> QED
  BY <1>9, <1>10, <1>11, OneMoves DEF Open

(* A command that goes on, or ends, with what it has.                      *)
LEMMA GotoKeeps ==
  ASSUME ListsInv, NEW p \in Person,
         NEW pc \in {"idle", "confirm", "attempt", "push", "retry"},
         Goto(p, pc), proc[p].pc # "idle",
         pc # "idle" => proc[p].pc # "open",
         pc = "push" => MayPush(p), OthersTyped, UNCHANGED log
  PROVE  ListsInv'
<1> DEFINE c == IF pc = "idle" THEN Idle ELSE [proc[p] EXCEPT !.pc = pc]
<1>1. TypeOK
  BY DEF ListsInv
<1>2. proc[p] \in Command /\ Knows(proc[p]) /\ Shows(proc[p])
  BY <1>1 DEF TypeOK, ListsInv, KnowsOp, ShowsConfigured
<1>3. proc' = [proc EXCEPT ![p] = c]
  BY DEF Goto
<1>4. proc[p].pc \in {"open", "confirm", "attempt", "push", "retry"}
  BY <1>2 DEF Command
<1>5. c \in Command /\ Knows(c) /\ Shows(c)
  BY <1>1, <1>2, <1>4, IdleType DEF Command, Knows, Shows
<1>6. Grows
  BY <1>1 DEF Grows, TypeOK
<1>7. ASSUME c.pc = "push" PROVE MayPush(p)'
  <2>1. pc = "push"
    BY <1>2, <1>7, IdleType, <1>1 DEF Command
  <2>2. proc'[p] = [proc[p] EXCEPT !.pc = "push"]
    BY <2>1, <1>1, <1>3 DEF TypeOK
  <2>3. proc'[p].view = proc[p].view /\ proc'[p].cfg = proc[p].cfg /\ proc'[p].op = proc[p].op
    BY <2>2, <1>2 DEF Command
  <2> QED
    BY <2>1, <2>3, <1>1, <1>6, MayPushStays
<1> HIDE DEF c
<1> QED
  BY <1>3, <1>5, <1>7, OneMoves

LEMMA OthersStay ==
  ASSUME ListsInv, UNCHANGED <<config, trust, upsets>>
  PROVE  OthersTyped
BY DEF ListsInv, TypeOK, OthersTyped

LEMMA ConfirmKeeps ==
  ASSUME ListsInv, NEW p \in Person, Confirm(p)
  PROVE  ListsInv'
<1>1. OthersTyped
  BY OthersStay DEF Confirm
<1> QED
  BY <1>1, GotoKeeps DEF Confirm, At

LEMMA AttemptKeeps ==
  ASSUME ListsInv, NEW p \in Person, Attempt(p)
  PROVE  ListsInv'
<1>1. OthersTyped
  BY OthersStay DEF Attempt
<1>2. PICK pc \in {"idle", "push"} : Goto(p, pc) /\ (pc = "push" => MayPush(p))
  BY Zenon DEF Attempt
<1> QED
  BY <1>1, <1>2, GotoKeeps DEF Attempt, At

LEMMA LoseRaceKeeps ==
  ASSUME ListsInv, NEW p \in Person, LoseRace(p)
  PROVE  ListsInv'
<1>1. OthersTyped
  BY OthersStay DEF LoseRace
<1> QED
  BY <1>1, GotoKeeps DEF LoseRace, At

LEMMA StopKeeps ==
  ASSUME ListsInv, NEW p \in Person, Stop(p)
  PROVE  ListsInv'
<1>1. OthersTyped
  BY OthersStay DEF Stop
<1> QED
  BY <1>1, GotoKeeps DEF Stop, At

(* A retry reads the manifest anew, and what it shows is not shown again.  *)
LEMMA RetryKeeps ==
  ASSUME ListsInv, NEW p \in Person, Retry(p)
  PROVE  ListsInv'
<1> DEFINE seen == [proc[p] EXCEPT !.view = Len(log)]
           again == [seen EXCEPT !.pc = "attempt", !.attempt = @ + 1]
<1>1. TypeOK
  BY DEF ListsInv
<1>2. proc[p] \in Command /\ Knows(proc[p]) /\ Shows(proc[p]) /\ proc[p].pc = "retry"
      /\ Len(log) \in 0..Len(log) /\ PushAttempts \in Nat
  BY <1>1, BoundAssumption DEF TypeOK, ListsInv, KnowsOp, ShowsConfigured, Retry, At
<1>3. seen.attempt < PushAttempts =>
        again \in Command /\ Knows(again) /\ Shows(again) /\ again.pc = "attempt"
  <2>1. seen.attempt = proc[p].attempt /\ proc[p].attempt \in 0..PushAttempts
    BY <1>2 DEF Command
  <2>2. seen.attempt < PushAttempts => seen.attempt + 1 \in 0..PushAttempts
    BY <1>2, <2>1
  <2> HIDE DEF seen
  <2>3. seen = [proc[p] EXCEPT !.view = Len(log)]
    BY DEF seen
  <2>4. seen \in Command /\ seen.op = proc[p].op /\ seen.cfg = proc[p].cfg
        /\ seen.told = proc[p].told
    BY <1>2, <2>3 DEF Command
  <2>5. again.op = proc[p].op /\ again.cfg = proc[p].cfg /\ again.told = proc[p].told
        /\ again.pc = "attempt"
    BY <2>4 DEF Command
  <2>6. seen.attempt < PushAttempts => again \in Command
    BY <2>2, <2>4 DEF Command
  <2> QED
    BY <1>2, <2>5, <2>6 DEF Knows, Shows
<1>4. OthersTyped
  BY <1>1, ConnectTyped, UnchangedTyped DEF Retry, OthersTyped
<1>5. CASE seen.attempt < PushAttempts
  <2>1. proc' = [proc EXCEPT ![p] = again]
    BY <1>5 DEF Retry
  <2> QED
    BY <1>3, <1>4, <1>5, <2>1, OneMoves DEF Retry
<1>6. CASE ~ (seen.attempt < PushAttempts)
  <2>1. proc' = [proc EXCEPT ![p] = Idle]
    BY <1>6 DEF Retry
  <2> QED
    BY <1>1, <1>4, <2>1, IdleType, OneMoves DEF Retry
<1> QED
  BY <1>5, <1>6
-----------------------------------------------------------------------------
\* The branch moves.

(* What a push puts on top.                                                *)
Entry(p) ==
  LET new == Pushed(p) IN
  [participants |-> new.participants, admins |-> new.admins,
   signer |-> p, op |-> proc[p].op, told |-> proc[p].told]

LEMMA LandGrows ==
  ASSUME ListsInv, NEW p \in Person, NEW heard \in BOOLEAN, Land(p, heard)
  PROVE  /\ Grows /\ Len(log') = Len(log) + 1
         /\ log'[Len(log) + 1] = Entry(p) /\ Entry(p) \in Manifest
         /\ proc[p] \in Command /\ proc[p].view = Len(log)
         /\ proc[p].pc = "push" /\ MayPush(p) /\ Knows(proc[p]) /\ Shows(proc[p])
<1>1. TypeOK /\ log \in Seq(Manifest)
  BY DEF ListsInv, TypeOK
<1>2. proc[p] \in Command /\ proc[p].pc = "push" /\ proc[p].view = Len(log)
      /\ Knows(proc[p]) /\ Shows(proc[p]) /\ MayPush(p)
  BY <1>1 DEF TypeOK, ListsInv, KnowsOp, ShowsConfigured, Checked, Land, At
<1>3. Pushed(p) \in Lists
  BY <1>1, PushedType
<1>4. proc[p].op \in {"push", "edit", "apply"} /\ proc[p].told \in Lists
  BY <1>2 DEF Command, Knows
<1>5. Entry(p) \in Manifest
  BY <1>3, <1>4 DEF Entry, Manifest, Lists
<1>6. log' = Append(log, Entry(p))
  BY DEF Land, Entry
<1> HIDE DEF Entry
<1>7. Grows /\ Len(log') = Len(log) + 1 /\ log'[Len(log) + 1] = Entry(p)
  BY <1>1, <1>5, <1>6 DEF Grows
<1> QED
  BY <1>2, <1>5, <1>7

(* What it puts there is what it was allowed to, and showed.               *)
LEMMA EntryAsShown ==
  ASSUME ListsInv, NEW p \in Person, proc[p].pc = "push", proc[p].view # 0, MayPush(p),
         proc[p] \in Command, Knows(proc[p]), Shows(proc[p])
  PROVE  IF proc[p].op = "push" THEN Pushed(p) = ListsOf(proc[p].view)
         ELSE /\ Pushed(p).participants
                   \in {ListsOf(proc[p].view).participants, proc[p].told.participants}
              /\ Pushed(p).admins \in {ListsOf(proc[p].view).admins, proc[p].told.admins}
BY DEF Pushed, Changed, Or, Shows

LEMMA LandKeeps ==
  ASSUME ListsInv, NEW p \in Person, NEW heard \in BOOLEAN, Land(p, heard)
  PROVE  ListsInv'
<1> DEFINE e == Entry(p)
<1>0. PICK n \in Nat : n = Len(log)
  BY DEF ListsInv, TypeOK
<1>1. TypeOK /\ log \in Seq(Manifest) /\ n \in Nat /\ n = Len(log) /\ DOMAIN log = 1..n
  BY <1>0 DEF ListsInv, TypeOK
<1>2. /\ Grows /\ Len(log') = n + 1 /\ log'[n + 1] = e /\ e \in Manifest
      /\ proc[p] \in Command /\ proc[p].view = n
      /\ proc[p].pc = "push" /\ MayPush(p) /\ Knows(proc[p]) /\ Shows(proc[p])
  BY <1>0, LandGrows
<1>3. log' \in Seq(Manifest) /\ DOMAIN log' = 1..(n + 1)
      /\ \A v \in 1..n : log'[v] = log[v]
  BY <1>1, <1>2 DEF Grows
<1>4. e.participants = Pushed(p).participants /\ e.admins = Pushed(p).admins
      /\ e.signer = p /\ e.op = proc[p].op /\ e.told = proc[p].told
  BY DEF Entry
<1> HIDE DEF e
<1>5. \A c \in Command : c \in Command'
  BY <1>1, <1>2 DEF Command
<1>6. PICK c \in Command : /\ proc' = [proc EXCEPT ![p] = c]
                            /\ c.pc \in {"idle", "retry"} /\ Knows(c) /\ Shows(c)
  <2>1. CASE heard
    <3>1. proc' = [proc EXCEPT ![p] = Idle]
      BY <2>1 DEF Land, Goto
    <3> QED
      BY <1>1, <3>1, IdleType
  <2>2. CASE ~ heard
    <3> DEFINE c == [proc[p] EXCEPT !.pc = "retry"]
    <3>1. proc' = [proc EXCEPT ![p] = c]
      BY <2>2 DEF Land, Goto
    <3>2. c \in Command /\ c.pc = "retry" /\ Knows(c) /\ Shows(c)
      BY <1>2 DEF Command, Knows, Shows
    <3> HIDE DEF c
    <3> QED
      BY <3>1, <3>2
  <2> QED
    BY <2>1, <2>2
<1>7. \A q \in Person : proc'[q] = IF q = p THEN c ELSE proc[q]
  BY <1>1, <1>6 DEF TypeOK
<1>8. TypeOK'
  <2>1. proc' \in [Person -> Command']
    BY <1>1, <1>5, <1>6 DEF TypeOK
  <2>2. trust' \in [Person -> 0..Len(log')]
    BY <1>1, <1>2 DEF TypeOK, Land
  <2>3. config' \in [Person -> Lists] /\ upsets' \in 0..MaxUpsets
    BY <1>1 DEF TypeOK, Land
  <2> QED
    BY <1>3, <2>1, <2>2, <2>3 DEF TypeOK
<1>9. KnowsOp' /\ ShowsConfigured'
  BY <1>6, <1>7 DEF ListsInv, KnowsOp, ShowsConfigured, Knows, Shows
<1>10. Checked'
  <2> SUFFICES ASSUME NEW q \in Person, At(q, "push")'
               PROVE  MayPush(q)'
    BY DEF Checked
  <2>1. q # p /\ proc'[q] = proc[q]
    BY <1>6, <1>7 DEF At
  <2>2. MayPush(q)
    BY <2>1 DEF ListsInv, Checked, At
  <2> QED
    BY <2>1, <2>2, <1>1, <1>2, MayPushStays
<1>11. \A v \in 1..n : ListsOf(v)' = ListsOf(v)
  BY <1>1, <1>2, ListsOfStay
<1>12. ListsOf(n + 1)' = [participants |-> e.participants, admins |-> e.admins]
  BY <1>1, <1>2 DEF ListsOf
<1>13. Pushed(p) \in Lists
  BY <1>1, PushedType
<1>14. ListsOf(n + 1)' = Pushed(p)
  BY <1>4, <1>12, <1>13 DEF Lists
<1>15. ListsAsShown'
  <2> SUFFICES ASSUME NEW v \in 2..(n + 1)
               PROVE  IF log'[v].op = "push" THEN ListsOf(v)' = ListsOf(v - 1)'
                      ELSE /\ log'[v].participants
                                \in {log'[v - 1].participants, log'[v].told.participants}
                           /\ log'[v].admins
                                \in {log'[v - 1].admins, log'[v].told.admins}
    BY <1>2, Zenon DEF ListsAsShown
  <2>1. CASE v \in 2..n
    <3>1. v \in 1..n /\ v - 1 \in 1..n
      BY <2>1, <1>1
    <3>2. log'[v] = log[v] /\ log'[v - 1] = log[v - 1]
          /\ ListsOf(v)' = ListsOf(v) /\ ListsOf(v - 1)' = ListsOf(v - 1)
      BY <3>1, <1>3, <1>11
    <3> QED
      BY <1>1, <2>1, <3>2 DEF ListsInv, ListsAsShown
  <2>2. CASE v = n + 1
    <3>1. n \in 1..n /\ n # 0 /\ v - 1 = n
      BY <2>2, <1>1
    <3>2. ListsOf(n)' = ListsOf(n) /\ log'[n] = log[n]
          /\ ListsOf(n).participants = log[n].participants /\ ListsOf(n).admins = log[n].admins
      BY <3>1, <1>3, <1>11 DEF ListsOf
    <3>3. IF proc[p].op = "push" THEN Pushed(p) = ListsOf(n)
          ELSE /\ Pushed(p).participants \in {ListsOf(n).participants, proc[p].told.participants}
               /\ Pushed(p).admins \in {ListsOf(n).admins, proc[p].told.admins}
      BY <3>1, <1>2, EntryAsShown
    <3> QED
      BY <2>2, <3>1, <3>2, <3>3, <1>2, <1>4, <1>14
  <2> QED
    BY <2>1, <2>2, <1>1
<1>16. NextIsAccepted'
  <2> SUFFICES ASSUME NEW v \in 1..(n + 1)
               PROVE  /\ v > 1 => Follows(v - 1, v)'
                      /\ log'[v].admins # {} /\ AdminsTakePart(ListsOf(v)')
    BY <1>3, Zenon DEF NextIsAccepted, AdminsTakePart
  <2>1. CASE v \in 1..n
    <3>1. v > 1 => v - 1 \in 1..n
      BY <2>1, <1>1
    <3>2. /\ v > 1 => Follows(v - 1, v)
          /\ log[v].admins # {} /\ AdminsTakePart(ListsOf(v))
      BY <2>1, <1>1 DEF ListsInv, NextIsAccepted
    <3>3. log'[v] = log[v] /\ ListsOf(v)' = ListsOf(v)
      BY <2>1, <1>3, <1>11
    <3>4. v > 1 => log'[v - 1] = log[v - 1] /\ ListsOf(v - 1)' = ListsOf(v - 1)
      BY <3>1, <1>3, <1>11
    <3> QED
      BY <3>2, <3>3, <3>4 DEF Follows
  <2>2. CASE v = n + 1
    <3>1. AdminsTakePart(Pushed(p)) /\ p \in Signer
      BY <1>2 DEF MayPush
    <3>2. CASE n = 0
      <4>1. Pushed(p).admins # {}
        BY <3>2, <1>2 DEF Pushed, Or, Command, Lists
      <4> QED
        BY <4>1, <3>1, <3>2, <2>2, <1>2, <1>4, <1>14
    <3>3. CASE n # 0
      <4>1. n \in 1..n /\ v - 1 = n
        BY <3>3, <2>2, <1>1
      <4>2. log'[n] = log[n] /\ ListsOf(n)' = ListsOf(n)
            /\ ListsOf(n).participants = log[n].participants /\ ListsOf(n).admins = log[n].admins
        BY <4>1, <3>3, <1>3, <1>11 DEF ListsOf
      <4>3. log[n].admins # {}
        BY <4>1, <1>1 DEF ListsInv, NextIsAccepted
      <4>4. /\ p \in ListsOf(n).participants
            /\ Pushed(p) # ListsOf(n) => p \in ListsOf(n).admins /\ Pushed(p).admins # {}
        BY <3>3, <4>2, <4>3, <1>2 DEF MayPush
      <4>5. Follows(n, n + 1)'
        BY <4>2, <4>4, <1>2, <1>4, <1>14 DEF Follows
      <4>6. Pushed(p).admins # {}
        BY <4>2, <4>3, <4>4
      <4> QED
        BY <4>1, <4>5, <4>6, <3>1, <2>2, <1>2, <1>4, <1>14
    <3> QED
      BY <3>2, <3>3
  <2> QED
    BY <2>1, <2>2, <1>1
<1> QED
  BY <1>8, <1>9, <1>10, <1>15, <1>16 DEF ListsInv
-----------------------------------------------------------------------------
\* The theorems.

LEMMA ListsNext == ListsInv /\ [Next]_vars => ListsInv'
<1> SUFFICES ASSUME ListsInv, [Next]_vars PROVE ListsInv'
  OBVIOUS
<1>1. CASE UNCHANGED vars
  <2>1. OthersTyped
    BY <1>1, OthersStay DEF vars
  <2> QED
    BY <1>1, <2>1, NoneMoves DEF vars
<1>2. CASE Next
  BY <1>2, InitRemoteKeeps, JoinKeeps, GitConfigKeeps, FetchKeeps, EditKeeps, StartKeeps,
     OpenKeeps, ConfirmKeeps, DeclineKeeps, AttemptKeeps, LandKeeps, LoseRaceKeeps,
     RetryKeeps, StopKeeps, Zenon DEF Next
<1> QED
  BY <1>1, <1>2

LEMMA ListsAlways == Spec => []ListsInv
BY ListsInit, ListsNext, PTL DEF Spec

(* Type correctness: manifests name known keys, and a command never holds  *)
(* a manifest the branch has not had.                                      *)
THEOREM TypeCorrect == Spec => []TypeOK
<1>1. ListsInv => TypeOK
  BY DEF ListsInv
<1> QED
  BY <1>1, ListsAlways, PTL

(* However commands interleave with each other, with `git config` and with *)
(* those cut short, and however many races a change loses before it lands, *)
(* it changes each list to what it showed, or not at all; a plain push     *)
(* changes none (README.md:169).                                           *)
THEOREM ChangesAreShown == Spec => []ListsAsShown
<1>1. ListsInv => ListsAsShown
  BY DEF ListsInv
<1> QED
  BY <1>1, ListsAlways, PTL

(* The rules readers check (`validate_updated_manifest`, `check_admins`)   *)
(* hold of everything writers push, so that who accepted a manifest never  *)
(* refuses the next one, and no remote loses its last admin.               *)
THEOREM WritersKeepTheRules == Spec => []NextIsAccepted
<1>1. ListsInv => NextIsAccepted
  BY DEF ListsInv
<1> QED
  BY <1>1, ListsAlways, PTL

============================================================================
