----------------------------- MODULE ReloadProofs -----------------------------
(***************************************************************************)
(* Proofs about Reload, for any files, requests and number of edits.       *)
(***************************************************************************)
EXTENDS Reload, TLAPS

USE FilesAssumption, ReloadersAssumption, BoundsAssumption

(* What a step of one reload leaves alone: the other reloads. *)
Alone(r) ==
  \A q \in Reloaders \ {r} :
    pc'[q] = pc[q] /\ loaded'[q] = loaded[q] /\ reply'[q] = reply[q] /\ asked'[q] = asked[q]

LEMMA InitTypeOK == Init => TypeOK
  <1> SUFFICES ASSUME Init PROVE TypeOK
    OBVIOUS
  <1>1. applied \in Configs \X Sources /\ static_html \in Pages \X Configs
    BY DEF Init
  <1>2. /\ config_toml \in Configs \cup {Bad}
        /\ sources_toml \in [Paths -> Sources \cup {Bad}]
        /\ page \in Pages \cup {Missing}
        /\ admin_token \in Configs /\ dedup \in Configs
        /\ pending \in BOOLEAN
    BY DEF Init
  <1>3. /\ pc \in [Reloaders -> Places]
        /\ reply \in [Reloaders -> Replies]
        /\ \A r \in Reloaders : (pc[r] \in Working) = (supervisor = r)
        /\ supervisor = Nobody
    BY DEF Init, Places, Working, Replies, Reloaders
  <1>4. /\ loaded \in [Reloaders -> Configs \X Sources]
        /\ signals \in 0..MaxSignals /\ edits \in 0..MaxEdits
        /\ asked \in [Reloaders -> 0..edits] /\ signalled \in 0..edits
    BY <1>1 DEF Init
  <1> QED
    BY <1>1, <1>2, <1>3, <1>4 DEF TypeOK

LEMMA OperatorTypeOK ==
  ASSUME TypeOK, Operator PROVE TypeOK'
  <1>1. ASSUME NEW file \in Configs \cup {Bad}, EditConfig(file) PROVE TypeOK'
    BY <1>1 DEF TypeOK, EditConfig, Edited, settings
  <1>2. ASSUME NEW path \in Paths, NEW file \in Sources \cup {Bad},
               EditSources(path, file)
        PROVE  TypeOK'
    BY <1>2 DEF TypeOK, EditSources, Edited, settings
  <1>3. ASSUME NEW html \in Pages \cup {Missing}, EditPage(html) PROVE TypeOK'
    BY <1>3 DEF TypeOK, EditPage, Edited, settings
  <1>4. CASE Signal
    BY <1>4 DEF TypeOK, Signal, disk, settings
  <1> QED
    BY <1>1, <1>2, <1>3, <1>4 DEF Operator

LEMMA QueueTypeOK ==
  ASSUME TypeOK, NEW r \in Reloaders, Queue(r), pending' \in BOOLEAN
  PROVE  TypeOK'
  <1>1. /\ pc[r] = "idle" /\ pc' = [pc EXCEPT ![r] = "queued"]
        /\ asked' = [asked EXCEPT ![r] = edits]
        /\ reply' = [reply EXCEPT ![r] = "none"]
        /\ UNCHANGED <<config_toml, sources_toml, page, supervisor, admin_token,
                       dedup, static_html, applied, loaded, signals, edits, signalled>>
    BY DEF Queue, Goto, disk, settings
  <1>2. /\ pc' \in [Reloaders -> Places]
        /\ \A q \in Reloaders : (pc'[q] \in Working) = (supervisor' = q)
    BY <1>1 DEF TypeOK, Places, Working
  <1>3. reply' \in [Reloaders -> Replies]
    BY <1>1 DEF TypeOK, Replies
  <1>4. asked' \in [Reloaders -> 0..edits]
    BY <1>1 DEF TypeOK
  <1> QED
    BY <1>1, <1>2, <1>3, <1>4 DEF TypeOK

LEMMA ReturnTypes ==
  ASSUME TypeOK, NEW r \in Reloaders, NEW answer \in Replies, Return(r, answer),
         pc[r] # "idle"
  PROVE  /\ supervisor' \in Reloaders \cup {Nobody}
         /\ pc' \in [Reloaders -> Places]
         /\ reply' \in [Reloaders -> Replies]
         /\ \A q \in Reloaders : (pc'[q] \in Working) = (supervisor' = q)
  <1>1. \A q \in Reloaders : q # Nobody
    BY DEF Reloaders
  <1> QED
    BY <1>1 DEF TypeOK, Return, Goto, Places, Working

LEMMA WorkTypeOK ==
  ASSUME TypeOK, NEW r \in Reloaders, Lock(r) \/ Work(r) \/ Leave(r)
  PROVE  TypeOK'
  <1> USE DEF TypeOK, Goto, disk, settings, asking, Places, Working
  <1>1. CASE Lock(r)
    <2>1. \A q \in Reloaders : q # Nobody
      BY DEF Reloaders
    <2> QED
      BY <1>1, <2>1 DEF Lock
  <1>2. CASE ReadConfig(r)
    BY <1>2 DEF ReadConfig
  <1>3. CASE ReadSources(r)
    <2>1. NamedFile(r) \in Sources
      BY <1>3 DEF ReadSources, NamedFile
    <2> QED
      BY <1>3, <2>1 DEF ReadSources
  <1>4. CASE LoadFails(r)
    <2>1. "not loaded" \in Replies /\ pc[r] # "idle" /\ Return(r, "not loaded")
      BY <1>4 DEF LoadFails, Replies
    <2> HIDE DEF Places, Working, Goto
    <2> QED
      BY <1>4, <2>1, ReturnTypes DEF LoadFails
  <1>5. CASE ReadPage(r)
    BY <1>5 DEF ReadPage
  <1>6. CASE StoreToken(r)
    BY <1>6 DEF StoreToken
  <1>7. CASE StoreDedup(r)
    BY <1>7 DEF StoreDedup
  <1>8. CASE Refuse(r)
    <2>1. "refused" \in Replies /\ pc[r] # "idle" /\ Return(r, "refused")
      BY <1>8 DEF Refuse, Replies
    <2> HIDE DEF Places, Working, Goto
    <2> QED
      BY <1>8, <2>1, ReturnTypes DEF Refuse
  <1>9. CASE Apply(r)
    <2>1. "reloaded" \in Replies /\ pc[r] # "idle" /\ Return(r, "reloaded")
      BY <1>9 DEF Apply, Replies
    <2> HIDE DEF Places, Working, Goto
    <2> QED
      BY <1>9, <2>1, ReturnTypes DEF Apply
  <1>10. CASE Leave(r)
    <2>1. "gone" \in Replies /\ pc[r] # "idle" /\ Return(r, "gone")
      BY <1>10 DEF Leave, Replies
    <2> HIDE DEF Places, Working, Goto
    <2> QED
      BY <1>10, <2>1, ReturnTypes DEF Leave
  <1> QED
    BY <1>1, <1>2, <1>3, <1>4, <1>5, <1>6, <1>7, <1>8, <1>9, <1>10 DEF Work

LEMMA StepTypeOK == TypeOK /\ [Next]_vars => TypeOK'
  <1> SUFFICES ASSUME TypeOK, [Next]_vars PROVE TypeOK'
    OBVIOUS
  <1>1. CASE UNCHANGED vars
    BY <1>1 DEF TypeOK, vars
  <1>2. CASE Operator
    BY <1>2, OperatorTypeOK
  <1>3. CASE Listen
    BY <1>3, QueueTypeOK DEF Listen, Reloaders
  <1>4. ASSUME NEW r \in Requests, NEW token \in Tokens, Request(r, token)
        PROVE  TypeOK'
    BY <1>4, QueueTypeOK DEF Request, Reloaders, TypeOK
  <1>5. ASSUME NEW r \in Requests, NEW token \in Tokens, AuthFails(r, token)
        PROVE  TypeOK'
    BY <1>5 DEF AuthFails, TypeOK, Replies, disk, settings, asking
  <1>6. ASSUME NEW r \in Reloaders, Lock(r) \/ Work(r) \/ Leave(r) PROVE TypeOK'
    BY <1>6, WorkTypeOK
  <1> QED
    BY <1>1, <1>2, <1>3, <1>4, <1>5, <1>6 DEF Next, Client, Reloaders

(* reload.rs:9-12: the types hold, and one reload at a time is done. *)
THEOREM TypeCorrect == Spec => []TypeOK
  <1> QED
    BY InitTypeOK, StepTypeOK, PTL DEF Spec
-----------------------------------------------------------------------------
(* The settings.  The token and the policy are only apart between their    *)
(* two stores, and ahead of the sources until apply has seen them.         *)
Agreed ==
  /\ dedup = admin_token
  /\ admin_token # applied[1] =>
       \E file \in Sources : <<admin_token, file>> \in Refused

Settings ==
  /\ applied \notin Refused
  /\ (\A r \in Reloaders : pc[r] \notin Storing) => Agreed
  /\ \A r \in Reloaders :
       /\ pc[r] = "dedup" => admin_token = loaded[r][1]
       /\ pc[r] = "apply" => admin_token = loaded[r][1] /\ dedup = loaded[r][1]

(* Only the reload that holds the mutex stores anything. *)
LEMMA OneWorks ==
  ASSUME TypeOK, NEW r \in Reloaders, pc[r] \in Working,
         NEW q \in Reloaders \ {r}
  PROVE  pc[q] \in {"idle", "queued"}
  BY DEF TypeOK, Working, Places

(* A step at which neither the settings nor what the working reload has    *)
(* loaded changes, and no reload comes to or leaves its stores.            *)
Untouched ==
  /\ UNCHANGED <<admin_token, dedup, applied>>
  /\ \A r \in Reloaders :
       /\ pc'[r] = pc[r] \/ {pc[r], pc'[r]} \cap Storing = {}
       /\ pc'[r] \in Storing => loaded'[r] = loaded[r]

LEMMA SameSettings == Settings /\ Untouched => Settings'
  BY DEF Settings, Untouched, Agreed, Storing

LEMMA WorkSettings ==
  ASSUME TypeOK, Settings, NEW r \in Reloaders, Lock(r) \/ Work(r) \/ Leave(r)
  PROVE  Settings'
  <1>1. CASE Lock(r)
    <2>1. Untouched
      BY <1>1 DEF Untouched, TypeOK, Lock, Goto, settings, Storing
    <2> QED
      BY <2>1, SameSettings
  <1>2. CASE ReadConfig(r)
    <2>1. Untouched
      BY <1>2 DEF Untouched, TypeOK, ReadConfig, Goto, settings, Storing
    <2> QED
      BY <2>1, SameSettings
  <1>3. CASE ReadSources(r)
    <2>1. Untouched
      BY <1>3 DEF Untouched, TypeOK, ReadSources, Goto, settings, Storing
    <2> QED
      BY <2>1, SameSettings
  <1>4. CASE LoadFails(r)
    <2>1. /\ pc[r] \in {"config", "sources"} /\ pc' = [pc EXCEPT ![r] = "idle"]
          /\ UNCHANGED <<admin_token, dedup, applied, loaded>>
      BY <1>4 DEF LoadFails, Return, Goto, settings
    <2>2. Untouched
      BY <2>1 DEF Untouched, TypeOK, Storing
    <2> QED
      BY <2>2, SameSettings
  <1>5. CASE ReadPage(r)
    <2>1. Untouched
      BY <1>5 DEF Untouched, TypeOK, ReadPage, Goto, Storing
    <2> QED
      BY <2>1, SameSettings
  <1>6. CASE StoreToken(r)
    <2>1. /\ pc[r] = "token" /\ pc' = [pc EXCEPT ![r] = "dedup"]
          /\ admin_token' = loaded[r][1]
          /\ UNCHANGED <<dedup, applied, loaded>>
      BY <1>6 DEF StoreToken, Goto
    <2>2. \A q \in Reloaders \ {r} : pc'[q] \in {"idle", "queued"}
      BY <2>1, OneWorks DEF TypeOK, Working, Places
    <2> QED
      BY <2>1, <2>2 DEF Settings, Storing, TypeOK
  <1>7. CASE StoreDedup(r)
    <2>1. /\ pc[r] = "dedup" /\ pc' = [pc EXCEPT ![r] = "apply"]
          /\ dedup' = loaded[r][1]
          /\ UNCHANGED <<admin_token, applied, loaded>>
      BY <1>7 DEF StoreDedup, Goto
    <2>2. \A q \in Reloaders \ {r} : pc'[q] \in {"idle", "queued"}
      BY <2>1, OneWorks DEF TypeOK, Working, Places
    <2> QED
      BY <2>1, <2>2 DEF Settings, Storing, TypeOK
  <1>8. ASSUME pc[r] = "apply", pc' = [pc EXCEPT ![r] = "idle"],
               UNCHANGED <<admin_token, dedup, loaded>>,
               \/ loaded[r] \in Refused /\ applied' = applied
               \/ loaded[r] \notin Refused /\ applied' = loaded[r]
        PROVE  Settings'
    <2>1. \A q \in Reloaders : pc'[q] \in {"idle", "queued"}
      BY <1>8, OneWorks DEF TypeOK, Working, Places
    <2>2. admin_token = loaded[r][1] /\ dedup = loaded[r][1]
      BY <1>8 DEF Settings
    <2>3. /\ loaded[r] = <<loaded[r][1], loaded[r][2]>>
          /\ loaded[r][2] \in Sources
      BY DEF TypeOK
    <2>4. applied' \notin Refused
      BY <1>8 DEF Settings
    <2>5. Agreed'
      BY <1>8, <2>2, <2>3 DEF Agreed
    <2> QED
      BY <2>1, <2>4, <2>5 DEF Settings
  <1>9. CASE Refuse(r)
    BY <1>8, <1>9 DEF Refuse, Return, Goto, settings
  <1>10. CASE Apply(r)
    BY <1>8, <1>10 DEF Apply, Return, Goto
  <1>11. CASE Leave(r)
    <2>1. Untouched
      BY <1>11 DEF Untouched, TypeOK, Leave, Return, Goto, settings, Storing
    <2> QED
      BY <2>1, SameSettings
  <1> QED
    BY <1>1, <1>2, <1>3, <1>4, <1>5, <1>6, <1>7, <1>9, <1>10, <1>11 DEF Work

LEMMA StepSettings == TypeOK /\ Settings /\ [Next]_vars => Settings'
  <1> SUFFICES ASSUME TypeOK, Settings, [Next]_vars PROVE Settings'
    OBVIOUS
  <1>1. CASE UNCHANGED vars
    <2>1. Untouched
      BY <1>1 DEF Untouched, vars
    <2> QED
      BY <2>1, SameSettings
  <1>2. CASE Operator
    <2>1. Untouched
      BY <1>2 DEF Untouched, Operator, EditConfig, EditSources, EditPage, Edited, Signal, settings
    <2> QED
      BY <2>1, SameSettings
  <1>3. ASSUME NEW r \in Reloaders, Queue(r) PROVE Settings'
    <2>1. Untouched
      BY <1>3 DEF Untouched, TypeOK, Queue, Goto, settings, Storing
    <2> QED
      BY <2>1, SameSettings
  <1>4. ASSUME NEW r \in Requests, NEW token \in Tokens, AuthFails(r, token)
        PROVE  Settings'
    <2>1. Untouched
      BY <1>4 DEF Untouched, AuthFails, settings
    <2> QED
      BY <2>1, SameSettings
  <1>5. ASSUME NEW r \in Reloaders, Lock(r) \/ Work(r) \/ Leave(r) PROVE Settings'
    BY <1>5, WorkSettings
  <1> QED
    BY <1>1, <1>2, <1>3, <1>4, <1>5
       DEF Next, Client, Request, Listen, Reloaders

(* sources.rs:254-270: what apply put into force was valid, and the        *)
(* settings stored before it are from one file, which is the one in force  *)
(* or was refused.                                                         *)
THEOREM CoherentCorrect == Spec => []Coherent
  <1>1. Init => Settings
    BY DEF Init, Settings, Agreed, Storing
  <1>2. Settings => Coherent
    BY DEF Settings, Agreed, Coherent
  <1> QED
    BY <1>1, <1>2, InitTypeOK, StepTypeOK, StepSettings, PTL DEF Spec
-----------------------------------------------------------------------------
(* Freshness.  What a reload that was asked for since the latest edit has  *)
(* loaded, and stored, is what is on disk; once one of them has answered,  *)
(* that is true of every reload that goes on.                              *)
Read(r) ==
  /\ pc[r] \in {"sources", "page", "token", "dedup", "apply"} =>
       config_toml # Bad /\ loaded[r][1] = config_toml
  /\ pc[r] \in {"page", "token", "dedup", "apply"} => Loadable /\ loaded[r] = OnDisk

Stored(r) ==
  /\ pc[r] \in {"token", "dedup", "apply"} /\ page # Missing =>
       static_html = <<page, config_toml>>
  /\ pc[r] \in {"dedup", "apply"} => admin_token = config_toml
  /\ pc[r] = "apply" => dedup = config_toml

Answered(r) == reply[r] = "reloaded" /\ asked[r] = edits

Freshness ==
  /\ \A r \in Reloaders : asked[r] = edits => Read(r) /\ Stored(r)
  /\ \A r \in Reloaders : Answered(r) => InForce /\ \A q \in Reloaders : Read(q)

(* An edit: nothing was asked for since. *)
LEMMA EditedFreshness ==
  ASSUME TypeOK, Edited PROVE Freshness'
  <1>1. \A r \in Reloaders : asked'[r] # edits'
    BY DEF TypeOK, Edited
  <1> QED
    BY <1>1 DEF Freshness, Answered

(* What a step of reload r may do: it reads what is on disk, stores what   *)
(* it read, answers when everything it loaded is in force, and does the    *)
(* last two only while it is alone at work.                                *)
Steady(r) ==
  /\ Alone(r)
  /\ UNCHANGED <<config_toml, sources_toml, page, edits>>
  /\ asked'[r] = asked[r] \/ pc'[r] = "queued"
  /\ Read(r) => Read(r)'
  /\ Read(r) /\ Stored(r) => Stored(r)'
  /\ InForce /\ Read(r) => InForce'
  /\ Answered(r)' /\ ~Answered(r) =>
       asked[r] = edits /\ (Read(r) /\ Stored(r) => InForce')
  /\ \/ UNCHANGED settings /\ (Answered(r)' => Answered(r))
     \/ \A q \in Reloaders \ {r} : pc[q] \in {"idle", "queued"}

LEMMA SteadyFreshness ==
  ASSUME TypeOK, Freshness, NEW r \in Reloaders, Steady(r)
  PROVE  Freshness'
  <1>1. ASSUME NEW q \in Reloaders \ {r} PROVE Read(q) => Read(q)'
    BY DEF Steady, Alone, Read, Loadable, OnDisk
  <1>2. ASSUME NEW q \in Reloaders \ {r} PROVE Stored(q) => Stored(q)'
    BY DEF Steady, Alone, Stored, settings
  <1>3. ASSUME NEW q \in Reloaders \ {r}
        PROVE  (Answered(q)' => Answered(q)) /\ asked'[q] = asked[q] /\ edits' = edits
    BY DEF Steady, Alone, Answered
  <1>4. ASSUME asked'[r] = edits PROVE Read(r)' /\ Stored(r)'
    <2>1. CASE pc'[r] = "queued"
      BY <2>1 DEF Read, Stored
    <2>2. CASE asked'[r] = asked[r]
      BY <1>4, <2>2 DEF Freshness, Steady
    <2> QED
      BY <2>1, <2>2 DEF Steady
  <1>5. ASSUME NEW q \in Reloaders, Answered(q)
        PROVE  InForce' /\ \A p \in Reloaders : Read(p)'
    BY <1>1, <1>5 DEF Freshness, Steady
  <1>6. ASSUME Answered(r)', ~Answered(r)
        PROVE  InForce' /\ \A p \in Reloaders : Read(p)'
    <2>1. asked[r] = edits /\ Read(r) /\ Stored(r)
      BY <1>6 DEF Freshness, Steady
    <2>2. InForce' /\ Read(r)'
      BY <1>6, <2>1 DEF Steady
    <2>3. ASSUME NEW q \in Reloaders \ {r} PROVE Read(q)
      <3>1. pc[q] \in {"idle", "queued"}
        BY <1>6 DEF Steady
      <3> QED
        BY <3>1 DEF Read
    <2> QED
      BY <1>1, <2>2, <2>3
  <1>7. \A q \in Reloaders : asked'[q] = edits' => Read(q)' /\ Stored(q)'
    BY <1>1, <1>2, <1>3, <1>4 DEF Freshness, Steady
  <1>8. \A q \in Reloaders :
          Answered(q)' => InForce' /\ \A p \in Reloaders : Read(p)'
    BY <1>3, <1>5, <1>6
  <1> QED
    BY <1>7, <1>8 DEF Freshness

(* A step that neither loads, nor stores, nor answers "reloaded". *)
LEMMA IdleSteady ==
  ASSUME TypeOK, NEW r \in Reloaders, NEW place \in Places, NEW answer \in Replies,
         pc' = [pc EXCEPT ![r] = place], place \in {"idle", "queued", "config"},
         reply' = [reply EXCEPT ![r] = answer],
         answer # "reloaded" \/ answer = reply[r],
         \/ asked' = asked
         \/ /\ place = "queued" /\ answer # "reloaded"
            /\ asked' = [asked EXCEPT ![r] = edits],
         UNCHANGED <<disk, settings, loaded, edits>>
  PROVE  Steady(r)
  <1>1. Alone(r)
    BY DEF Alone, TypeOK
  <1>2. /\ UNCHANGED <<config_toml, sources_toml, page, edits>> /\ UNCHANGED settings
        /\ asked'[r] = asked[r] \/ pc'[r] = "queued"
        /\ pc'[r] = place
    BY DEF TypeOK, disk
  <1>3. Read(r)' /\ Stored(r)'
    BY <1>2 DEF Read, Stored
  <1>4. Answered(r)' => Answered(r)
    BY DEF Answered, TypeOK
  <1>5. InForce => InForce'
    BY <1>2 DEF InForce, Loadable, OnDisk, settings
  <1> QED
    BY <1>1, <1>2, <1>3, <1>4, <1>5 DEF Steady

(* A step of the reload that holds the mutex to its next place. *)
LEMMA WorkSteady ==
  ASSUME TypeOK, NEW r \in Reloaders, pc[r] \in Working,
         NEW place \in Places, pc' = [pc EXCEPT ![r] = place],
         \A q \in Reloaders \ {r} : loaded'[q] = loaded[q] /\ reply'[q] = reply[q],
         UNCHANGED <<disk, edits, asked>>,
         Read(r) => Read(r)',
         Read(r) /\ Stored(r) => Stored(r)',
         InForce /\ Read(r) => InForce',
         Answered(r)' /\ ~Answered(r) =>
           asked[r] = edits /\ (Read(r) /\ Stored(r) => InForce')
  PROVE  Steady(r)
  <1>1. Alone(r)
    BY DEF Alone, TypeOK
  <1>2. \A q \in Reloaders \ {r} : pc[q] \in {"idle", "queued"}
    BY OneWorks
  <1> QED
    BY <1>1, <1>2 DEF Steady, disk

LEMMA ReadConfigSteady ==
  ASSUME TypeOK, NEW r \in Reloaders, ReadConfig(r) PROVE Steady(r)
  <1>1. /\ pc[r] = "config" /\ pc' = [pc EXCEPT ![r] = "sources"]
        /\ config_toml # Bad /\ loaded' = [loaded EXCEPT ![r][1] = config_toml]
        /\ UNCHANGED <<disk, settings, reply, edits, asked>>
    BY DEF ReadConfig, Goto, asking
  <1>2. /\ pc'[r] = "sources" /\ loaded'[r][1] = config_toml
        /\ config_toml' = config_toml
    BY <1>1 DEF TypeOK, disk
  <1>3. Read(r)' /\ Stored(r)'
    BY <1>1, <1>2 DEF Read, Stored
  <1>4. \A q \in Reloaders \ {r} : loaded'[q] = loaded[q] /\ reply'[q] = reply[q]
    BY <1>1 DEF TypeOK
  <1>5. (InForce => InForce') /\ (Answered(r)' => Answered(r))
    BY <1>1 DEF InForce, Answered, Loadable, OnDisk, disk, settings
  <1>6. pc[r] \in Working /\ "sources" \in Places
    BY <1>1 DEF Working, Places
  <1> QED
    BY <1>1, <1>3, <1>4, <1>5, <1>6, WorkSteady

LEMMA ReadSourcesSteady ==
  ASSUME TypeOK, NEW r \in Reloaders, ReadSources(r) PROVE Steady(r)
  <1>1. /\ pc[r] = "sources" /\ pc' = [pc EXCEPT ![r] = "page"]
        /\ NamedFile(r) # Bad /\ loaded' = [loaded EXCEPT ![r][2] = NamedFile(r)]
        /\ UNCHANGED <<disk, settings, reply, edits, asked>>
    BY DEF ReadSources, Goto, asking
  <1>2. /\ pc'[r] = "page" /\ UNCHANGED <<config_toml, sources_toml>>
        /\ loaded'[r] = <<loaded[r][1], NamedFile(r)>>
    BY <1>1 DEF TypeOK, disk
  <1>3. Read(r) => Read(r)'
    BY <1>1, <1>2 DEF Read, Loadable, OnDisk, NamedFile
  <1>4. Stored(r)'
    BY <1>2 DEF Stored
  <1>5. \A q \in Reloaders \ {r} : loaded'[q] = loaded[q] /\ reply'[q] = reply[q]
    BY <1>1 DEF TypeOK
  <1>6. (InForce => InForce') /\ (Answered(r)' => Answered(r))
    BY <1>1 DEF InForce, Answered, Loadable, OnDisk, disk, settings
  <1>7. pc[r] \in Working /\ "page" \in Places
    BY <1>1 DEF Working, Places
  <1> QED
    BY <1>1, <1>3, <1>4, <1>5, <1>6, <1>7, WorkSteady

(* The three stores: each puts in what is on disk, if that was read. *)
LEMMA StoreSteady ==
  ASSUME TypeOK, NEW r \in Reloaders, ReadPage(r) \/ StoreToken(r) \/ StoreDedup(r)
  PROVE  Steady(r)
  <1>1. /\ pc[r] \in {"page", "token", "dedup"}
        /\ pc' = [pc EXCEPT ![r] = CASE pc[r] = "page" -> "token"
                                       [] pc[r] = "token" -> "dedup"
                                       [] pc[r] = "dedup" -> "apply"]
        /\ static_html' = IF pc[r] = "page" /\ page # Missing
                            THEN <<page, loaded[r][1]>> ELSE static_html
        /\ admin_token' = IF pc[r] = "token" THEN loaded[r][1] ELSE admin_token
        /\ dedup' = IF pc[r] = "dedup" THEN loaded[r][1] ELSE dedup
        /\ UNCHANGED <<config_toml, sources_toml, page, applied, loaded, reply,
                       edits, asked>>
    BY DEF ReadPage, StoreToken, StoreDedup, Goto, disk, asking
  <1>2. PICK place \in {"token", "dedup", "apply"} :
          /\ pc' = [pc EXCEPT ![r] = place] /\ pc'[r] = place
          /\ place = (CASE pc[r] = "page" -> "token"
                        [] pc[r] = "token" -> "dedup"
                        [] pc[r] = "dedup" -> "apply")
    BY <1>1 DEF TypeOK
  <1>3. Read(r) => Read(r)' /\ loaded[r][1] = config_toml
    BY <1>1, <1>2 DEF Read, Loadable, OnDisk
  <1>4. Read(r) /\ Stored(r) => Stored(r)'
    BY <1>1, <1>2, <1>3 DEF Stored
  <1>5. InForce /\ Read(r) => InForce'
    BY <1>1, <1>3 DEF InForce, Loadable, OnDisk
  <1>6. Answered(r)' => Answered(r)
    BY <1>1 DEF Answered
  <1>7. /\ pc[r] \in Working /\ place \in Places
        /\ UNCHANGED <<disk, edits, asked>>
        /\ \A q \in Reloaders \ {r} : loaded'[q] = loaded[q] /\ reply'[q] = reply[q]
    BY <1>1, <1>2 DEF Working, Places, disk
  <1> QED
    BY <1>2, <1>3, <1>4, <1>5, <1>6, <1>7, WorkSteady

LEMMA ApplySteady ==
  ASSUME TypeOK, NEW r \in Reloaders, Apply(r) PROVE Steady(r)
  <1>1. /\ pc[r] = "apply" /\ pc' = [pc EXCEPT ![r] = "idle"]
        /\ applied' = loaded[r] /\ reply' = [reply EXCEPT ![r] = "reloaded"]
        /\ UNCHANGED <<config_toml, sources_toml, page, admin_token, dedup,
                       static_html, loaded, edits, asked>>
    BY DEF Apply, Return, Goto, disk, asking
  <1>2. pc'[r] = "idle"
    BY <1>1 DEF TypeOK
  <1>3. Read(r)' /\ Stored(r)'
    BY <1>2 DEF Read, Stored
  <1>4. InForce /\ Read(r) => InForce'
    BY <1>1 DEF InForce, Read, Loadable, OnDisk
  <1>5. Read(r) /\ Stored(r) => InForce'
    BY <1>1 DEF InForce, Read, Stored, Loadable, OnDisk
  <1>6. Answered(r)' => asked[r] = edits
    BY <1>1 DEF Answered
  <1>7. /\ pc[r] \in Working /\ "idle" \in Places
        /\ UNCHANGED <<disk, edits, asked>>
        /\ \A q \in Reloaders \ {r} : loaded'[q] = loaded[q] /\ reply'[q] = reply[q]
    BY <1>1 DEF Working, Places, disk, TypeOK
  <1> QED
    BY <1>1, <1>3, <1>4, <1>5, <1>6, <1>7, WorkSteady

LEMMA StepFreshness == TypeOK /\ Freshness /\ [Next]_vars => Freshness'
  <1> SUFFICES ASSUME TypeOK, Freshness, [Next]_vars PROVE Freshness'
    OBVIOUS
  <1>1. CASE UNCHANGED vars
    BY <1>1 DEF vars, Freshness, Read, Stored, Answered, InForce, Loadable, OnDisk
  <1>2. CASE Operator
    <2>1. CASE Signal
      BY <2>1 DEF Signal, disk, settings, Freshness, Read, Stored, Answered, InForce,
                  Loadable, OnDisk
    <2>2. CASE Edited
      BY <2>2, EditedFreshness
    <2> QED
      BY <1>2, <2>1, <2>2 DEF Operator, EditConfig, EditSources, EditPage
  <1>3. ASSUME NEW r \in Reloaders, Queue(r) PROVE Steady(r)
    <2>1. "queued" \in Places /\ "none" \in Replies
      BY DEF Places, Replies
    <2> QED
      BY <1>3, <2>1, IdleSteady DEF Queue, Goto
  <1>4. ASSUME NEW r \in Requests, NEW token \in Tokens, AuthFails(r, token)
        PROVE  Steady(r)
    <2>1. /\ r \in Reloaders /\ "idle" \in Places
          /\ pc[r] = "idle" /\ pc' = pc /\ pc \in [Reloaders -> Places]
      BY <1>4 DEF AuthFails, TypeOK, Places, Reloaders
    <2>2. pc' = [pc EXCEPT ![r] = "idle"]
      BY <2>1
    <2>3. PICK answer \in {"disabled", "invalid token"} :
            reply' = [reply EXCEPT ![r] = answer]
      <3>1. CASE TokenOf[admin_token] = Off
        BY <1>4, <3>1 DEF AuthFails
      <3>2. CASE TokenOf[admin_token] # Off
        BY <1>4, <3>2 DEF AuthFails
      <3> QED
        BY <3>1, <3>2
    <2>4. answer \in Replies /\ answer # "reloaded"
      BY DEF Replies
    <2> QED
      BY <1>4, <2>1, <2>2, <2>3, <2>4, IdleSteady DEF AuthFails, asking
  <1>5. ASSUME NEW r \in Reloaders, Lock(r) PROVE Steady(r)
    <2>1. "config" \in Places /\ reply[r] \in Replies /\ reply' = [reply EXCEPT ![r] = reply[r]]
      BY <1>5 DEF Places, Lock, TypeOK
    <2> QED
      BY <1>5, <2>1, IdleSteady DEF Lock, Goto, asking
  <1>6. ASSUME NEW r \in Reloaders, LoadFails(r) \/ Refuse(r) \/ Leave(r)
        PROVE  Steady(r)
    <2>1. PICK answer \in Replies \ {"reloaded"} :
            /\ pc' = [pc EXCEPT ![r] = "idle"] /\ reply' = [reply EXCEPT ![r] = answer]
            /\ UNCHANGED <<disk, settings, loaded, edits, asked>>
      BY <1>6 DEF LoadFails, Refuse, Leave, Return, Goto, asking, Replies
    <2>2. "idle" \in Places
      BY DEF Places
    <2> QED
      BY <2>1, <2>2, IdleSteady
  <1>7. ASSUME NEW r \in Reloaders, Work(r) PROVE Steady(r)
    BY <1>6, <1>7, ReadConfigSteady, ReadSourcesSteady, StoreSteady, ApplySteady DEF Work
  <1>8. ASSUME NEW r \in Reloaders, Steady(r) PROVE Freshness'
    BY <1>8, SteadyFreshness
  <1> QED
    BY <1>1, <1>2, <1>3, <1>4, <1>5, <1>6, <1>7, <1>8
       DEF Next, Client, Request, Listen, Reloaders

(* sources.rs:213-273, reload.rs:10: an answer "reloaded" to a reload asked *)
(* for since the latest edit means that what is on disk is in force, and   *)
(* stays so until the next edit, whatever other reloads are under way.     *)
THEOREM FreshCorrect == Spec => []Fresh
  <1>1. Init => Freshness
    BY DEF Init, Freshness, Read, Stored, Answered
  <1>2. Freshness => Fresh
    BY DEF Freshness, Fresh, Answered
  <1> QED
    BY <1>1, <1>2, InitTypeOK, StepTypeOK, StepFreshness, PTL DEF Spec
-----------------------------------------------------------------------------
(* An answer that a reload failed. *)

(* Nothing Honest speaks of changes, except that a reload may be asked for *)
(* again and is then unanswered, or answered otherwise.                    *)
LEMMA SameHonest ==
  ASSUME TypeOK, Honest, UNCHANGED <<config_toml, sources_toml, edits>>,
         \A q \in Reloaders :
           \/ asked'[q] = asked[q] /\ reply'[q] = reply[q]
           \/ reply'[q] \notin {"not loaded", "refused"}
  PROVE  Honest'
  BY DEF Honest, Loadable, OnDisk

LEMMA StepHonest ==
  ASSUME TypeOK, Freshness, Honest, [Next]_vars PROVE Honest'
  <1>1. CASE UNCHANGED vars
    BY <1>1, SameHonest DEF vars
  <1>2. CASE Operator
    <2>1. CASE Signal
      BY <2>1, SameHonest DEF Signal, disk
    <2>2. CASE Edited
      <3>1. \A r \in Reloaders : asked'[r] # edits'
        BY <2>2 DEF TypeOK, Edited
      <3> QED
        BY <3>1 DEF Honest
    <2> QED
      BY <1>2, <2>1, <2>2 DEF Operator, EditConfig, EditSources, EditPage
  <1>3. ASSUME NEW r \in Reloaders, Queue(r) PROVE Honest'
    <2>1. \A q \in Reloaders :
            \/ asked'[q] = asked[q] /\ reply'[q] = reply[q]
            \/ reply'[q] = "none"
      BY <1>3 DEF Queue, TypeOK
    <2> QED
      BY <1>3, <2>1, SameHonest DEF Queue, disk
  <1>4. ASSUME NEW r \in Requests, NEW token \in Tokens, AuthFails(r, token)
        PROVE  Honest'
    <2>1. \A q \in Reloaders :
            \/ asked'[q] = asked[q] /\ reply'[q] = reply[q]
            \/ reply'[q] \in {"disabled", "invalid token"}
      BY <1>4 DEF AuthFails, asking, TypeOK
    <2> QED
      BY <1>4, <2>1, SameHonest DEF AuthFails, disk, asking
  <1>5. ASSUME NEW r \in Reloaders,
               \/ Lock(r) \/ ReadConfig(r) \/ ReadSources(r) \/ ReadPage(r)
               \/ StoreToken(r) \/ StoreDedup(r)
        PROVE  Honest'
    <2>1. UNCHANGED <<config_toml, sources_toml, edits, asked, reply>>
      BY <1>5
      DEF Lock, ReadConfig, ReadSources, ReadPage, StoreToken, StoreDedup, disk, asking
    <2> QED
      BY <2>1, SameHonest
  <1>6. ASSUME NEW r \in Reloaders, Apply(r) \/ Leave(r) PROVE Honest'
    <2>1. /\ UNCHANGED <<config_toml, sources_toml, edits, asked>>
          /\ \A q \in Reloaders : \/ reply'[q] = reply[q]
                                  \/ reply'[q] \in {"reloaded", "gone"}
      BY <1>6 DEF Apply, Leave, Return, TypeOK, disk, asking
    <2> QED
      BY <2>1, SameHonest
  <1>7. ASSUME NEW r \in Reloaders, LoadFails(r) PROVE Honest'
    <2>1. /\ UNCHANGED <<config_toml, sources_toml, edits, asked>>
          /\ reply' = [reply EXCEPT ![r] = "not loaded"]
      BY <1>7 DEF LoadFails, Return, disk, asking
    <2>2. asked[r] = edits => ~Loadable
      BY <1>7 DEF LoadFails, Freshness, Read, Loadable, NamedFile
    <2> QED
      BY <2>1, <2>2 DEF Honest, TypeOK, Loadable, OnDisk
  <1>8. ASSUME NEW r \in Reloaders, Refuse(r) PROVE Honest'
    <2>1. /\ UNCHANGED <<config_toml, sources_toml, edits, asked>>
          /\ reply' = [reply EXCEPT ![r] = "refused"]
      BY <1>8 DEF Refuse, Return, disk, asking
    <2>2. asked[r] = edits => Loadable /\ OnDisk \in Refused
      BY <1>8 DEF Refuse, Freshness, Read
    <2> QED
      BY <2>1, <2>2 DEF Honest, TypeOK, Loadable, OnDisk
  <1> QED
    BY <1>1, <1>2, <1>3, <1>4, <1>5, <1>6, <1>7, <1>8
    DEF Next, Client, Request, Listen, Work, Reloaders

(* admin.rs:62-70, README.md:91: an answer that a reload failed is about   *)
(* the files as they are.                                                  *)
THEOREM HonestCorrect == Spec => []Honest
  <1>1. Init => Freshness /\ Honest
    BY DEF Init, Freshness, Read, Stored, Answered, Honest
  <1>2. TypeOK /\ Freshness /\ Honest /\ [Next]_vars => Freshness' /\ Honest'
    BY StepFreshness, StepHonest
  <1> QED
    BY <1>1, <1>2, TypeCorrect, PTL DEF Spec
-----------------------------------------------------------------------------
(* Signals. *)

(* The reload the listener asked for last was asked for after the latest   *)
(* signal, unless one is pending, and it is answered when it is over.      *)
Heeded ==
  /\ pending => signals > 0
  /\ signals > 0 /\ ~pending =>
       /\ asked[Sighup] >= signalled
       /\ pc[Sighup] = "idle" => reply[Sighup] \in {"not loaded", "refused", "reloaded"}

LEMMA StepHeeded ==
  ASSUME TypeOK, Heeded, [Next]_vars PROVE Heeded'
  <1>1. ASSUME UNCHANGED <<pending, signals, signalled>>, asked'[Sighup] = asked[Sighup],
               \/ pc'[Sighup] = pc[Sighup] /\ reply'[Sighup] = reply[Sighup]
               \/ pc'[Sighup] # "idle"
               \/ reply'[Sighup] \in {"not loaded", "refused", "reloaded"}
        PROVE  Heeded'
    BY <1>1 DEF Heeded
  <1>2. CASE UNCHANGED vars
    BY <1>1, <1>2 DEF vars
  <1>3. CASE Operator
    <2>1. CASE Signal
      <3>1. signals \in Nat
        BY DEF TypeOK
      <3>2. pending' /\ signals' > 0
        BY <2>1, <3>1 DEF Signal
      <3> QED
        BY <3>2 DEF Heeded
    <2>2. CASE Edited
      BY <1>1, <2>2 DEF Edited
    <2> QED
      BY <1>3, <2>1, <2>2 DEF Operator, EditConfig, EditSources, EditPage
  <1>4. CASE Listen
    <2>1. /\ Sighup \in Reloaders /\ pc \in [Reloaders -> Places]
          /\ asked \in [Reloaders -> 0..edits] /\ signalled \in 0..edits
          /\ edits \in Nat
      BY DEF Reloaders, TypeOK
    <2>2. pc'[Sighup] = "queued" /\ asked'[Sighup] = edits /\ ~pending'
          /\ UNCHANGED <<signals, signalled>>
      BY <1>4, <2>1 DEF Listen, Queue, Goto
    <2>3. edits >= signalled
      BY <2>1
    <2> QED
      BY <2>2, <2>3 DEF Heeded
  <1>5. ASSUME NEW r \in Requests,
               \/ \E token \in Tokens : Request(r, token) \/ AuthFails(r, token)
               \/ Leave(r)
        PROVE  Heeded'
    <2>1. r # Sighup /\ r \in Reloaders /\ Sighup \in Reloaders
      BY DEF Reloaders
    <2>2. /\ UNCHANGED <<pending, signals, signalled>>
          /\ asked'[Sighup] = asked[Sighup]
          /\ pc'[Sighup] = pc[Sighup] /\ reply'[Sighup] = reply[Sighup]
      <3>1. /\ pc \in [Reloaders -> Places] /\ reply \in [Reloaders -> Replies]
            /\ asked \in [Reloaders -> 0..edits]
        BY DEF TypeOK
      <3> QED
        BY <1>5, <2>1, <3>1 DEF Request, Queue, AuthFails, Leave, Return, Goto, asking
    <2> QED
      BY <1>1, <2>2
  <1>6. ASSUME NEW r \in Reloaders, Lock(r) \/ Work(r) PROVE Heeded'
    <2>1. UNCHANGED <<pending, signals, signalled, asked>>
      BY <1>6
      DEF Lock, Work, ReadConfig, ReadSources, LoadFails, ReadPage, StoreToken,
          StoreDedup, Refuse, Apply, asking
    <2>2. \/ pc'[Sighup] = pc[Sighup] /\ reply'[Sighup] = reply[Sighup]
          \/ pc'[Sighup] # "idle"
          \/ reply'[Sighup] \in {"not loaded", "refused", "reloaded"}
      <3>1. Sighup \in Reloaders /\ pc \in [Reloaders -> Places]
            /\ reply \in [Reloaders -> Replies]
        BY DEF Reloaders, TypeOK
      <3> QED
        BY <1>6, <3>1
        DEF Lock, Work, ReadConfig, ReadSources, LoadFails, ReadPage, StoreToken,
            StoreDedup, Refuse, Apply, Return, Goto
    <2> QED
      BY <1>1, <2>1, <2>2
  <1> QED
    BY <1>2, <1>3, <1>4, <1>5, <1>6 DEF Next, Client

(* reload.rs:27-35: when the listener is through with the latest SIGHUP,   *)
(* which came after the latest edit, what is on disk is in force, if it    *)
(* can be loaded and is valid.                                             *)
THEOREM NoneLostCorrect == Spec => []NoneLost
  <1>1. Init => Heeded
    BY DEF Init, Heeded
  <1>2. TypeOK /\ Heeded /\ Fresh /\ Honest => NoneLost
    <2> SUFFICES ASSUME TypeOK, Heeded, Fresh, Honest,
                        signals > 0, signalled = edits, ~pending, pc[Sighup] = "idle"
                 PROVE  ~Loadable \/ OnDisk \in Refused \/ InForce
      BY DEF NoneLost
    <2>1. Sighup \in Reloaders
      BY DEF Reloaders
    <2>2. asked[Sighup] = edits
      <3>1. asked[Sighup] \in 0..edits /\ edits \in Nat
        BY <2>1 DEF TypeOK
      <3>2. asked[Sighup] >= edits
        BY DEF Heeded
      <3> QED
        BY <3>1, <3>2
    <2> QED
      BY <2>1, <2>2 DEF Heeded, Fresh, Honest
  <1>3. TypeOK /\ Heeded /\ [Next]_vars => Heeded'
    BY StepHeeded
  <1> QED
    BY <1>1, <1>2, <1>3, TypeCorrect, FreshCorrect, HonestCorrect, PTL DEF Spec
=============================================================================
