------------------------------- MODULE Reload -------------------------------
(***************************************************************************)
(* A reload from disk: trigger_reload (src/reload.rs) called for POST      *)
(* /admin/reload (src/admin.rs) and for SIGHUP, load_config and            *)
(* validate_config (src/config.rs) and reload_from_disk (src/sources.rs)   *)
(* with the settings of AppState it stores.                                *)
(*                                                                         *)
(* Each setting is represented by the file it was taken from.  The loop of *)
(* SourceSupervisor::apply is one step here: Supervisor has its parts.     *)
(***************************************************************************)
EXTENDS Integers

CONSTANTS
  Configs,    \* contents of config.toml that load_config can parse
  Sources,    \* contents of a sources file that it can parse
  Bad,        \* contents it cannot, or no file
  Pages,      \* contents of the status page
  Missing,    \* no status page
  Paths,      \* sources files
  PathOf,     \* sources_file: [Configs -> Paths]
  Tokens,     \* bearer tokens
  Off,        \* no token, or the placeholder: the admin API is disabled
  TokenOf,    \* admin_token: [Configs -> Tokens \cup {Off}]
  Refused,    \* the pairs that validate_config refuses
  Requests,   \* POST /admin/reload, at once
  Sighup,     \* the task of spawn_signal_listener
  Nobody,
  MaxEdits,   \* bound: edits of the files
  MaxSignals  \* bound: SIGHUPs

Reloaders == Requests \cup {Sighup}

ASSUME FilesAssumption ==
  /\ Bad \notin Configs \cup Sources
  /\ Missing \notin Pages
  /\ PathOf \in [Configs -> Paths]
  /\ TokenOf \in [Configs -> Tokens \cup {Off}]
  /\ Off \notin Tokens

ASSUME ReloadersAssumption ==
  /\ Sighup \notin Requests
  /\ Nobody \notin Reloaders

ASSUME BoundsAssumption == MaxEdits \in Nat /\ MaxSignals \in Nat

VARIABLES
  config_toml,  \* on disk
  sources_toml, \* on disk, for each path
  page,         \* on disk
  supervisor,   \* AppState.supervisor: who holds the mutex
  admin_token,  \* the config.toml AppState.admin_token is from
  dedup,        \* the config.toml AppState.dedup is from
  static_html,  \* the page, and the config.toml whose hostname is in it
  applied,      \* what the settings and sources apply stores are from
  pc,           \* where each reload is
  loaded,       \* its LoadedConfig, as far as it is read
  reply,        \* its answer
  pending,      \* a SIGHUP that the listener has not taken yet
  signals,      \* SIGHUPs so far
  edits,        \* history: edits so far, the clock of the histories below
  asked,        \* history: when each reload was asked for
  signalled     \* history: when the latest SIGHUP came

disk == <<config_toml, sources_toml, page>>
settings == <<admin_token, dedup, static_html, applied>>
asking == <<pending, signals, edits, asked, signalled>>
vars == <<config_toml, sources_toml, page, supervisor, admin_token, dedup,
          static_html, applied, pc, loaded, reply, pending, signals, edits,
          asked, signalled>>

(* main: everything is from the files it started with. *)
Init ==
  /\ config_toml \in Configs
  /\ sources_toml \in [Paths -> Sources \cup {Bad}]
  /\ sources_toml[PathOf[config_toml]] # Bad
  /\ page \in Pages
  /\ applied = <<config_toml, sources_toml[PathOf[config_toml]]>>
  /\ applied \notin Refused
  /\ admin_token = config_toml /\ dedup = config_toml
  /\ static_html = <<page, config_toml>>
  /\ supervisor = Nobody
  /\ pc = [r \in Reloaders |-> "idle"]
  /\ loaded = [r \in Reloaders |-> applied]
  /\ reply = [r \in Reloaders |-> "none"]
  /\ pending = FALSE
  /\ signals = 0 /\ edits = 0
  /\ asked = [r \in Reloaders |-> 0]
  /\ signalled = 0
-----------------------------------------------------------------------------
(* The operator: edits the files, one at a time, and sends SIGHUPs. *)

Edited ==
  /\ edits < MaxEdits
  /\ edits' = edits + 1
  /\ UNCHANGED <<supervisor, settings, pc, loaded, reply,
                 pending, signals, asked, signalled>>

EditConfig(file) ==
  /\ file # config_toml
  /\ config_toml' = file
  /\ Edited
  /\ UNCHANGED <<sources_toml, page>>

EditSources(path, file) ==
  /\ file # sources_toml[path]
  /\ sources_toml' = [sources_toml EXCEPT ![path] = file]
  /\ Edited
  /\ UNCHANGED <<config_toml, page>>

EditPage(html) ==
  /\ html # page
  /\ page' = html
  /\ Edited
  /\ UNCHANGED <<config_toml, sources_toml>>

MutSignalWhileIdle ==
  /\ signals < MaxSignals
  /\ signals' = signals + 1
  /\ pending' = (pending \/ pc[Sighup] = "idle")
  /\ signalled' = edits
  /\ UNCHANGED <<disk, supervisor, settings, pc, loaded, reply, edits, asked>>

(* Signals that come before the listener takes one are one signal. *)
Signal ==
  /\ signals < MaxSignals
  /\ signals' = signals + 1
  /\ pending' = TRUE
  /\ signalled' = edits
  /\ UNCHANGED <<disk, supervisor, settings, pc, loaded, reply, edits, asked>>
-----------------------------------------------------------------------------
Goto(r, place) == pc' = [pc EXCEPT ![r] = place]

(* AdminAuth: the token is compared before the request waits for the mutex. *)
AuthFails(r, token) ==
  /\ pc[r] = "idle"
  /\ token # TokenOf[admin_token]
  /\ reply' = [reply EXCEPT ![r] =
                 IF TokenOf[admin_token] = Off THEN "disabled" ELSE "invalid token"]
  /\ UNCHANGED <<disk, supervisor, settings, pc, loaded, asking>>

Queue(r) ==
  /\ pc[r] = "idle"
  /\ Goto(r, "queued")
  /\ asked' = [asked EXCEPT ![r] = edits]
  /\ reply' = [reply EXCEPT ![r] = "none"]
  /\ UNCHANGED <<disk, supervisor, settings, loaded, signals, edits, signalled>>

Request(r, token) ==
  /\ token = TokenOf[admin_token]
  /\ Queue(r)
  /\ UNCHANGED pending

(* spawn_signal_listener: the next signal is taken when the reload for the *)
(* last one is over.                                                       *)
Listen ==
  /\ pending
  /\ pending' = FALSE
  /\ Queue(Sighup)

MutLockShared(r) ==
  /\ pc[r] = "queued"
  /\ supervisor' = r
  /\ Goto(r, "config")
  /\ UNCHANGED <<disk, settings, loaded, reply, asking>>

MutLockDropped(r) ==
  /\ pc[r] = "queued"
  /\ supervisor = Nobody
  /\ Goto(r, "config")
  /\ UNCHANGED <<disk, supervisor, settings, loaded, reply, asking>>

(* trigger_reload: the mutex is held until reload_from_disk returns. *)
Lock(r) ==
  /\ pc[r] = "queued"
  /\ supervisor = Nobody
  /\ supervisor' = r
  /\ Goto(r, "config")
  /\ UNCHANGED <<disk, settings, loaded, reply, asking>>

Return(r, answer) ==
  /\ supervisor' = IF supervisor = r THEN Nobody ELSE supervisor
  /\ Goto(r, "idle")
  /\ reply' = [reply EXCEPT ![r] = answer]

(* load_config reads config.toml, then the sources file it names. *)
ReadConfig(r) ==
  /\ pc[r] = "config"
  /\ config_toml # Bad
  /\ loaded' = [loaded EXCEPT ![r][1] = config_toml]
  /\ Goto(r, "sources")
  /\ UNCHANGED <<disk, supervisor, settings, reply, asking>>

NamedFile(r) == sources_toml[PathOf[loaded[r][1]]]

ReadSources(r) ==
  /\ pc[r] = "sources"
  /\ NamedFile(r) # Bad
  /\ loaded' = [loaded EXCEPT ![r][2] = NamedFile(r)]
  /\ Goto(r, "page")
  /\ UNCHANGED <<disk, supervisor, settings, reply, asking>>

LoadFails(r) ==
  /\ \/ pc[r] = "config" /\ config_toml = Bad
     \/ pc[r] = "sources" /\ NamedFile(r) = Bad
  /\ Return(r, "not loaded")
  /\ UNCHANGED <<disk, settings, loaded, asking>>

(* load_static_html: a page that cannot be read leaves the old one. *)
ReadPage(r) ==
  /\ pc[r] = "page"
  /\ static_html' = IF page = Missing THEN static_html ELSE <<page, loaded[r][1]>>
  /\ Goto(r, "token")
  /\ UNCHANGED <<disk, supervisor, admin_token, dedup, applied, loaded, reply, asking>>

StoreToken(r) ==
  /\ pc[r] = "token"
  /\ admin_token' = loaded[r][1]
  /\ Goto(r, "dedup")
  /\ UNCHANGED <<disk, supervisor, dedup, static_html, applied, loaded, reply, asking>>

StoreDedup(r) ==
  /\ pc[r] = "dedup"
  /\ dedup' = loaded[r][1]
  /\ Goto(r, "apply")
  /\ UNCHANGED <<disk, supervisor, admin_token, static_html, applied, loaded, reply, asking>>

(* apply: validate_config comes first, but after the stores above. *)
Refuse(r) ==
  /\ pc[r] = "apply"
  /\ loaded[r] \in Refused
  /\ Return(r, "refused")
  /\ UNCHANGED <<disk, settings, loaded, asking>>

Apply(r) ==
  /\ pc[r] = "apply"
  /\ loaded[r] \notin Refused
  /\ applied' = loaded[r]
  /\ Return(r, "reloaded")
  /\ UNCHANGED <<disk, admin_token, dedup, static_html, loaded, asking>>

MutLeaveAnywhere(r) ==
  /\ r \in Requests
  /\ pc[r] # "idle"
  /\ Return(r, "gone")
  /\ UNCHANGED <<disk, settings, loaded, asking>>

(* The client of a request leaves: its handler is dropped at an `.await'. *)
Leave(r) ==
  /\ r \in Requests
  /\ pc[r] \in {"queued", "config", "sources", "page"}
  /\ Return(r, "gone")
  /\ UNCHANGED <<disk, settings, loaded, asking>>
-----------------------------------------------------------------------------
Operator ==
  \/ \E file \in Configs \cup {Bad} : EditConfig(file)
  \/ \E path \in Paths, file \in Sources \cup {Bad} : EditSources(path, file)
  \/ \E html \in Pages \cup {Missing} : EditPage(html)
  \/ Signal

Client(r) == \/ \E token \in Tokens : Request(r, token) \/ AuthFails(r, token)
             \/ Leave(r)

Work(r) == \/ ReadConfig(r) \/ ReadSources(r) \/ LoadFails(r) \/ ReadPage(r)
           \/ StoreToken(r) \/ StoreDedup(r) \/ Refuse(r) \/ Apply(r)

Next ==
  \/ Operator \/ Listen
  \/ \E r \in Requests : Client(r)
  \/ \E r \in Reloaders : Lock(r) \/ Work(r)

Spec == Init /\ [][Next]_vars

(* The listener is a task of its own and file reads end.  The mutex serves *)
(* its waiters in turn, so a waiter that it could serve again and again is *)
(* served.                                                                 *)
Fairness ==
  /\ WF_vars(Listen)
  /\ \A r \in Reloaders : SF_vars(Lock(r)) /\ WF_vars(Work(r))

FairSpec == Spec /\ Fairness
-----------------------------------------------------------------------------
Places == {"idle", "queued", "config", "sources", "page", "token", "dedup", "apply"}
Working == Places \ {"idle", "queued"}
Storing == {"dedup", "apply"}
Replies == {"none", "disabled", "invalid token", "not loaded", "refused",
            "reloaded", "gone"}

(* Types, and that the mutex is held by the reload that is being done. *)
TypeOK ==
  /\ config_toml \in Configs \cup {Bad}
  /\ sources_toml \in [Paths -> Sources \cup {Bad}]
  /\ page \in Pages \cup {Missing}
  /\ supervisor \in Reloaders \cup {Nobody}
  /\ admin_token \in Configs /\ dedup \in Configs
  /\ static_html \in Pages \X Configs
  /\ applied \in Configs \X Sources
  /\ pc \in [Reloaders -> Places]
  /\ \A r \in Reloaders : (pc[r] \in Working) = (supervisor = r)
  /\ loaded \in [Reloaders -> Configs \X Sources]
  /\ reply \in [Reloaders -> Replies]
  /\ pending \in BOOLEAN
  /\ signals \in 0..MaxSignals
  /\ edits \in 0..MaxEdits
  /\ asked \in [Reloaders -> 0..edits]
  /\ signalled \in 0..edits

(* What a reload that starts now would load. *)
Loadable == config_toml # Bad /\ sources_toml[PathOf[config_toml]] # Bad
OnDisk == <<config_toml, sources_toml[PathOf[config_toml]]>>

(* sources.rs:213-273, reload.rs:10: after a reload that was asked for     *)
(* since the latest edit has answered "reloaded", everything is from what  *)
(* is on disk, and no reload that began earlier takes any of it back.      *)
InForce ==
  /\ Loadable
  /\ applied = OnDisk
  /\ admin_token = config_toml /\ dedup = config_toml
  /\ page # Missing => static_html = <<page, config_toml>>

Fresh == \A r \in Reloaders : reply[r] = "reloaded" /\ asked[r] = edits => InForce

(* sources.rs:254-270: unless a reload is just storing them, the token and *)
(* the deduplication policy are from one config.toml, however reloads      *)
(* failed or were left; if the sources do not run with it, it was refused. *)
Coherent ==
  /\ applied \notin Refused
  /\ (\A r \in Reloaders : pc[r] \notin Storing) =>
       /\ dedup = admin_token
       /\ admin_token # applied[1] =>
            \E file \in Sources : <<admin_token, file>> \in Refused

(* reload.rs:27-35, README.md:95: a SIGHUP that comes when the last edit   *)
(* is made, also one that comes during a reload, brings what is on disk    *)
(* into force, if it can be loaded and is valid.                           *)
SignalHeeded ==
  \A e \in 0..MaxEdits :
    (signals > 0 /\ signalled = e /\ edits = e) ~>
      (edits # e \/ ~Loadable \/ OnDisk \in Refused \/ InForce)

(* admin.rs:62-70, README.md:91: an answer that says a reload failed is    *)
(* about the files as they are: asked for since the latest edit, it was    *)
(* not loaded because they cannot be, and refused because they are not     *)
(* valid, whatever other reloads did meanwhile.                            *)
Honest ==
  \A r \in Reloaders : asked[r] = edits =>
    /\ reply[r] = "not loaded" => ~Loadable
    /\ reply[r] = "refused" => Loadable /\ OnDisk \in Refused

(* reload.rs:27-35, the safety half of SignalHeeded: when the listener has *)
(* no signal left and no reload under way, and the latest signal came      *)
(* after the latest edit, it brought what is on disk into force.           *)
NoneLost ==
  signals > 0 /\ signalled = edits /\ ~pending /\ pc[Sighup] = "idle" =>
    ~Loadable \/ OnDisk \in Refused \/ InForce
=============================================================================
