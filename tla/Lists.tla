--------------------------------- MODULE Lists ---------------------------------
(***************************************************************************)
(* Who takes part: the participant and admin lists                         *)
(* (crates/git-remote-enc/src/main.rs, crates/enccore/src/setup.rs, and    *)
(* the parts of remote.rs and config.rs that compare and push the lists).  *)
(*                                                                         *)
(* The manifest at the branch's tip names the participants (who can read)  *)
(* and the admins (who may change either list).  Each clone has lists of   *)
(* its own in git's configuration, which create a remote, pin the signers  *)
(* of a first contact and say what `participants --apply` makes of the     *)
(* remote's lists.  `init`, `join` and `participants --add/--remove` edit  *)
(* that configuration, the last showing and pushing it too; `invite` is    *)
(* such an edit, then prints what another clone's `join` pins.             *)
(*                                                                         *)
(* A person is a key with a clone; keys stand for key texts (comments are  *)
(* not compared), and lists are sets: an unset list is the empty one.      *)
(* Manifests are their lists and their signer; the host is honest here     *)
(* (see Trust.tla) and moves the branch by compare-and-swap.               *)
(***************************************************************************)
EXTENDS Integers, Sequences, FiniteSets

CONSTANTS
  Key,           \* all keys
  Person,        \* those with a clone
  Signer,        \* the SSH keys: an age key reads, but cannot sign
  Edits,         \* the [add, remove] of `participants --add/--remove`
  ByHand,        \* the lists somebody may write with `git config`
  PushAttempts,  \* attempts of one push
  MaxVersion,    \* bound: pushes that may land
  MaxUpsets      \* bound: times somebody does, or an edit is cut short

ASSUME KeyAssumption == Person \subseteq Key /\ Signer \subseteq Key
ASSUME EditsAssumption == Edits \subseteq [add : SUBSET Key, remove : SUBSET Key]
ASSUME ByHandAssumption == ByHand \subseteq [participants : SUBSET Key, admins : SUBSET Key]
ASSUME BoundAssumption == PushAttempts \in Nat \ {0} /\ MaxVersion \in Nat /\ MaxUpsets \in Nat

Lists == [participants : SUBSET Key, admins : SUBSET Key]
Unset == [participants |-> {}, admins |-> {}]

VARIABLES
  log,     \* log[v]: the v-th manifest: its lists; who signed it, for which
           \* command, and what that one had shown (history)
  config,  \* config[p]: the configured lists of p's clone
  trust,   \* trust[p]: the manifest p accepted last (0: none)
  proc,    \* the command p runs
  upsets   \* times somebody used `git config`, or an edit was cut short

vars == <<log, config, trust, proc, upsets>>

(* A command: where it is, the configuration read when the remote was      *)
(* opened, the one to put back, the manifest it connected to, the lists it *)
(* showed as the outcome, and the attempt of its push.                     *)
Idle == [pc |-> "idle", op |-> "none", cfg |-> Unset, before |-> {}, view |-> 0,
         told |-> Unset, attempt |-> 0]

At(p, pc) == proc[p].pc = pc
Goto(p, pc) == proc' = [proc EXCEPT ![p] = IF pc = "idle" THEN Idle ELSE [@ EXCEPT !.pc = pc]]

-----------------------------------------------------------------------------
\* What readers accept and what writers push.

ListsOf(v) == IF v = 0 THEN Unset
              ELSE [participants |-> log[v].participants, admins |-> log[v].admins]

(* After manifest t, a reader accepts v: its signer took part, and was an  *)
(* admin if the lists changed; admins, once there, remain.                 *)
Follows(t, v) ==
  /\ log[v].signer \in log[t].participants
  /\ ListsOf(v) # ListsOf(t) /\ log[t].admins # {} =>
       log[v].signer \in log[t].admins /\ log[v].admins # {}

\* `check_admins`: every admin is a participant that can sign.
AdminsTakePart(lists) == lists.admins \subseteq lists.participants \cap Signer

(* p, with these lists configured, accepts manifest v: it can read it, and *)
(* on first contact the configured participants are the signers.           *)
Accepts(p, cfg, v) ==
  /\ p \in log[v].participants
  /\ IF trust[p] = 0 THEN log[v].signer \in cfg.participants ELSE Follows(trust[p], v)
  /\ AdminsTakePart(ListsOf(v))

\* p connects: to nothing, or to a manifest that it accepts.
Connect(p, cfg) ==
  /\ log # <<>> => Accepts(p, cfg, Len(log))
  /\ trust' = [trust EXCEPT ![p] = Len(log)]

\* A configured list, or what stands where none is.
Or(configured, otherwise) == IF configured = {} THEN otherwise ELSE configured

\* The lists a change makes of those of manifest v.
Changed(cfg, v) ==
  [participants |-> Or(cfg.participants, ListsOf(v).participants),
   admins       |-> Or(cfg.admins, ListsOf(v).admins)]

(* The lists of p's next manifest: the configured ones (the creator alone  *)
(* is admin by default) for a new remote and a change, else those there.   *)
Pushed(p) ==
  IF proc[p].view = 0 THEN [proc[p].cfg EXCEPT !.admins = Or(@, {p})]
  ELSE IF proc[p].op = "push" THEN ListsOf(proc[p].view)
  ELSE Changed(proc[p].cfg, proc[p].view)

\* Mutant of MayPush: any participant may change the lists.
MayPushChange(p) ==
  LET here == ListsOf(proc[p].view)
      new  == Pushed(p)
  IN /\ new.participants \cap Signer # {}
     /\ p \in Signer
     /\ p \in (IF proc[p].view = 0 THEN new.participants ELSE here.participants)
     /\ AdminsTakePart(new)

\* The checks of a push, made against the manifest it will replace.
MayPush(p) ==
  LET here == ListsOf(proc[p].view)
      new  == Pushed(p)
  IN /\ new.participants \cap Signer # {}
     /\ p \in Signer
     /\ p \in (IF proc[p].view = 0 THEN new.participants ELSE here.participants)
     /\ AdminsTakePart(new)
     /\ proc[p].view # 0 /\ new # here /\ here.admins # {} =>
          p \in here.admins /\ new.admins # {}

-----------------------------------------------------------------------------
\* The configuration.

Init ==
  /\ log = <<>>
  /\ config = [p \in Person |-> Unset]
  /\ trust = [p \in Person |-> 0]
  /\ proc = [p \in Person |-> Idle]
  /\ upsets = 0

(* `set_participants` unsets the list, then adds key by key: killed in     *)
(* between, it leaves some of them.                                        *)
SetParticipants(p, list, next) ==
  \/ /\ config' = [config EXCEPT ![p].participants = list]
     /\ proc' = [proc EXCEPT ![p] = next]
     /\ UNCHANGED upsets
  \/ /\ upsets < MaxUpsets
     /\ upsets' = upsets + 1
     /\ \E some \in SUBSET list : config' = [config EXCEPT ![p].participants = some]
     /\ proc' = [proc EXCEPT ![p] = Idle]

\* `init`, where the host has nothing yet: the creator, and whom it names.
InitRemote(p, others) ==
  /\ At(p, "idle")
  /\ config[p] = Unset /\ trust[p] = 0 /\ log = <<>>
  /\ SetParticipants(p, {p} \cup others, Idle)
  /\ UNCHANGED <<log, trust>>

(* `join`, with the participants an `invite` printed when the manifest was *)
(* v.  The fetch it ends with is Fetch.                                    *)
Join(p, v) ==
  /\ At(p, "idle")
  /\ config[p] = Unset /\ trust[p] = 0
  /\ SetParticipants(p, log[v].participants, Idle)
  /\ UNCHANGED <<log, trust>>

\* Somebody edits the configuration, whatever else is running.
GitConfig(p, lists) ==
  /\ upsets < MaxUpsets
  /\ upsets' = upsets + 1
  /\ config' = [config EXCEPT ![p] = lists]
  /\ UNCHANGED <<log, trust, proc>>

Fetch(p) ==
  /\ At(p, "idle")
  /\ log # <<>>
  /\ Connect(p, config[p])
  /\ UNCHANGED <<log, config, proc, upsets>>

-----------------------------------------------------------------------------
\* `participants --add/--remove`, `participants --apply`, and a push.

(* The edit starts from the configured list, else from the remote's, and   *)
(* cannot remove who is not on it.  The configuration changes first.       *)
Edit(p, edit) ==
  /\ At(p, "idle")
  /\ \/ config[p].participants # {} /\ UNCHANGED trust
     \/ config[p].participants = {} /\ log # <<>> /\ Connect(p, config[p])
  /\ LET list == Or(config[p].participants, ListsOf(Len(log)).participants) IN
     /\ edit.remove \subseteq list
     /\ SetParticipants(p, (list \ edit.remove) \cup edit.add,
          [Idle EXCEPT !.pc = "open", !.op = "edit", !.before = config[p].participants])
  /\ UNCHANGED log

Apply(p) ==
  /\ At(p, "idle")
  /\ proc' = [proc EXCEPT ![p] = [Idle EXCEPT !.pc = "open", !.op = "apply"]]
  /\ UNCHANGED <<log, config, trust, upsets>>

Push(p) ==
  /\ At(p, "idle")
  /\ proc' = [proc EXCEPT ![p] = [Idle EXCEPT !.pc = "open", !.op = "push"]]
  /\ UNCHANGED <<log, config, trust, upsets>>

(* The remote is opened: the configuration is read, for good, and the      *)
(* helper connects.  A change shows the lists and what is configured       *)
(* otherwise; it ends there if nothing is.                                 *)
Open(p) ==
  /\ At(p, "open")
  /\ Connect(p, config[p])
  /\ log # <<>> \/ proc[p].op = "push"
  /\ LET told == Changed(config[p], Len(log))
         opened == [proc[p] EXCEPT !.cfg = config[p], !.view = Len(log), !.attempt = 1]
     IN proc' = [proc EXCEPT ![p] =
          IF proc[p].op = "push" THEN [opened EXCEPT !.pc = "attempt"]
          ELSE IF told = ListsOf(Len(log)) THEN Idle
          ELSE [opened EXCEPT !.told = told,
                              !.pc = IF proc[p].op = "edit" THEN "confirm" ELSE "attempt"]]
  /\ UNCHANGED <<log, config, upsets>>

Confirm(p) ==
  /\ At(p, "confirm")
  /\ Goto(p, "attempt")
  /\ UNCHANGED <<log, config, trust, upsets>>

\* Declined: the configured participants of before are put back.
Decline(p) ==
  /\ At(p, "confirm")
  /\ SetParticipants(p, proc[p].before, Idle)
  /\ UNCHANGED <<log, trust>>

\* Mutant of Attempt: the configuration is read anew.
AttemptReading(p) ==
  /\ At(p, "attempt")
  /\ proc[p].op = "push" => MayPush(p)
  /\ proc' = [proc EXCEPT ![p].pc = "push", ![p].cfg = config[p]]
  /\ UNCHANGED <<log, config, trust, upsets>>

(* `try_push`.  A change found made (an attempt that landed unheard, or    *)
(* somebody else's) is done.                                               *)
Attempt(p) ==
  /\ At(p, "attempt")
  /\ Goto(p, IF proc[p].op # "push" /\ Pushed(p) = ListsOf(proc[p].view) THEN "idle"
             ELSE IF MayPush(p) THEN "push" ELSE "idle")
  /\ UNCHANGED <<log, config, trust, upsets>>

\* The host takes the manifest; git may report a failure nonetheless.
Land(p, heard) ==
  /\ At(p, "push")
  /\ proc[p].view = Len(log)
  /\ Len(log) < MaxVersion
  /\ LET new == Pushed(p) IN
     log' = Append(log, [participants |-> new.participants, admins |-> new.admins,
                         signer |-> p, op |-> proc[p].op, told |-> proc[p].told])
  /\ IF heard THEN Goto(p, "idle") /\ trust' = [trust EXCEPT ![p] = Len(log')]
     ELSE Goto(p, "retry") /\ UNCHANGED trust
  /\ UNCHANGED <<config, upsets>>

LoseRace(p) ==
  /\ At(p, "push")
  /\ proc[p].view # Len(log)
  /\ Goto(p, "retry")
  /\ UNCHANGED <<log, config, trust, upsets>>

\* Mutant of Retry: one attempt too many.
RetryOnceMore(p) ==
  /\ At(p, "retry")
  /\ Connect(p, proc[p].cfg)
  /\ LET seen == [proc[p] EXCEPT !.view = Len(log)] IN
     proc' = [proc EXCEPT ![p] =
       IF seen.attempt <= PushAttempts
       THEN [seen EXCEPT !.pc = "attempt", !.attempt = @ + 1] ELSE Idle]
  /\ UNCHANGED <<log, config, upsets>>

(* After a lost race the helper connects again and, but for the last       *)
(* attempt, tries again: what it shows and asks is not repeated.           *)
Retry(p) ==
  /\ At(p, "retry")
  /\ Connect(p, proc[p].cfg)
  /\ LET seen == [proc[p] EXCEPT !.view = Len(log)] IN
     proc' = [proc EXCEPT ![p] =
       IF seen.attempt < PushAttempts
       THEN [seen EXCEPT !.pc = "attempt", !.attempt = @ + 1] ELSE Idle]
  /\ UNCHANGED <<log, config, upsets>>

(* A command fails (its manifest is refused, its push fails) or is killed; *)
(* the configuration stays as it is.                                       *)
Stop(p) ==
  /\ ~ At(p, "idle")
  /\ Goto(p, "idle")
  /\ UNCHANGED <<log, config, trust, upsets>>

Next ==
  \E p \in Person :
    \/ \E others \in SUBSET (Person \ {p}) : InitRemote(p, others)
    \/ \E v \in DOMAIN log : Join(p, v)
    \/ \E lists \in ByHand : GitConfig(p, lists)
    \/ Fetch(p)
    \/ \E edit \in Edits : Edit(p, edit)
    \/ Apply(p) \/ Push(p) \/ Open(p) \/ Confirm(p) \/ Decline(p)
    \/ Attempt(p)
    \/ \E heard \in BOOLEAN : Land(p, heard)
    \/ LoseRace(p) \/ Retry(p) \/ Stop(p)

Spec == Init /\ [][Next]_vars

-----------------------------------------------------------------------------
\* What must hold.

\* What a manifest and a command may be.
Manifest == [participants : SUBSET Key, admins : SUBSET Key, signer : Person,
             op : {"push", "edit", "apply"}, told : Lists]
Command ==
  [pc : {"idle", "open", "confirm", "attempt", "push", "retry"},
   op : {"none", "push", "edit", "apply"},
   cfg : Lists, before : SUBSET Key, view : 0..Len(log), told : Lists,
   attempt : 0..PushAttempts]

\* Every variable has its type.
TypeOK ==
  /\ log \in Seq(Manifest)
  /\ config \in [Person -> Lists]
  /\ trust \in [Person -> 0..Len(log)]
  /\ proc \in [Person -> Command]
  /\ upsets \in 0..MaxUpsets

(* A plain push never changes the lists (README.md:169); a change leaves   *)
(* each of them as it found it or as it showed it, whatever races it lost  *)
(* and whatever happened to the configuration meanwhile.                   *)
ListsAsShown ==
  \A v \in 2..Len(log) :
    IF log[v].op = "push" THEN ListsOf(v) = ListsOf(v - 1)
    ELSE /\ log[v].participants \in {log[v - 1].participants, log[v].told.participants}
         /\ log[v].admins \in {log[v - 1].admins, log[v].told.admins}

(* Writers enforce the rules readers check, so that a refused change never *)
(* reaches the host (DESIGN.md:585): who accepted a manifest accepts the   *)
(* next one, and every remote keeps an admin who takes part and can sign.  *)
NextIsAccepted ==
  \A v \in DOMAIN log :
    /\ v > 1 => Follows(v - 1, v)
    /\ log[v].admins # {} /\ AdminsTakePart(ListsOf(v))

=============================================================================
