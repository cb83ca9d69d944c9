---------------------------- MODULE QueuePresets ----------------------------
(***************************************************************************)
(* The table layouts of the admin panel's queues: named presets, each        *)
(* subject's selection, the admins' default and the plain list preference.   *)
(* (src/app/services/admin_queue_presets_service.py and                      *)
(* admin_list_preferences_service.py; pages and actions in src/app/web.)     *)
(*                                                                         *)
(* Every statement names one queue context, so one context is modelled.  A   *)
(* request reads in one step and writes and commits in a later one: others   *)
(* commit in between (READ COMMITTED, no row is locked by a read).  What is  *)
(* checked at the write is what PostgreSQL checks: the unique name, and that *)
(* the preset referred to exists; a violation is a 500 and a rollback.       *)
(* Requests that fail the sign-in, CSRF or payload checks change nothing     *)
(* and are not steps.  Density, filters and sort travel with the columns     *)
(* and are left out.  Definitions Bug_... are for mutation runs only.        *)
(***************************************************************************)
EXTENDS Naturals, SequencesExt

CONSTANTS
  PageRequests,   \* requests that may be under way
  Subjects,   \* signed-in people, or the shared token
  Admins,     \* those whose role is owner or admin
  Names,      \* preset names
  Layouts,    \* column layouts the browser may send
  Releases,   \* the column names of the table in each deployed release
  NoPreset,   \* the code's None
  MaxPresets, MaxRequests   \* bounds of the model

NoDuplicates(s) == Cardinality(ToSet(s)) = Len(s)

PresetsAssumption ==
  /\ Admins \subseteq Subjects /\ NoPreset \notin Subjects
  /\ Layouts \subseteq [visible : Seq(STRING), order : Seq(STRING), pinned : Seq(STRING)]
  /\ NoPreset \notin [owner : Subjects, name : Names, view : Layouts]
  /\ Releases \in Seq(Seq(STRING) \ {<<>>}) \ {<<>>}
  /\ \A i \in DOMAIN Releases : NoDuplicates(Releases[i])
  /\ {MaxPresets, MaxRequests} \subseteq Nat

VARIABLES
  presets,     \* the rows by id, NoPreset when there is none
  next_id,
  selection,   \* the preset each subject has selected
  default,     \* the admins' default preset
  preference,  \* each subject's list preference
  telemetry,   \* how many events are recorded of each preset
  release,     \* which release is deployed
  tx,          \* where each request stands
  page,        \* what each subject's last page showed
  requests,    \* how many requests there were
  done,        \* ghost: how many results were committed of each preset
  entered      \* ghost: the default applied at a subject's first entry

presets_vars == <<presets, next_id, selection, default, preference, telemetry, release,
                  tx, page, requests, done, entered>>
tables == <<presets, next_id, selection, default, preference>>

PresetIds == 1..MaxPresets
allowed_columns == Releases[release]

(***************************************************************************)
(* Layouts.                                                                *)
(***************************************************************************)
\* [item for item in s if item in S]
Those(s, S) ==
  LET kept == {i \in DOMAIN s : s[i] \in S}
      nth(n) == CHOOSE i \in kept : Cardinality({j \in kept : j < i}) = n - 1
  IN [n \in 1..Cardinality(kept) |-> s[nth(n)]]

\* What a save demands of a layout; anything else is answered with 400.
normalize_columns_payload_accepts(l, allowed) ==
  /\ NoDuplicates(l.visible) /\ NoDuplicates(l.order) /\ NoDuplicates(l.pinned)
  /\ ToSet(l.order) = ToSet(allowed)
  /\ ToSet(l.visible) \subseteq ToSet(l.order)
  /\ ToSet(l.pinned) \subseteq ToSet(l.visible)

default_columns(allowed) == [visible |-> allowed, order |-> allowed, pinned |-> <<>>]

Bug_tolerant_columns(raw, allowed) ==
  LET order == Those(raw.order, ToSet(allowed))
      visible == Those(order, ToSet(raw.visible))
  IN [visible |-> visible, order |-> order, pinned |-> Those(order, ToSet(raw.pinned))]

\* How a stored layout is read after the table's columns have changed.
tolerant_columns(raw, allowed) ==
  LET known == Those(raw.order, ToSet(allowed))
      order == known \o Those(allowed, ToSet(allowed) \ ToSet(known))
      kept == Those(order, ToSet(raw.visible))
      visible == IF kept = <<>> THEN order ELSE kept
  IN [visible |-> visible, order |-> order,
      pinned |-> Those(order, ToSet(raw.pinned) \cap ToSet(visible))]

(***************************************************************************)
(* Requests.                                                               *)
(***************************************************************************)
NoRequest == [op |-> "none"]
Request(op, s, p) == [op |-> op, stage |-> "write", subject |-> s, preset |-> p, ok |-> FALSE]
Keeping(t, more) ==
  [f \in DOMAIN t \cup DOMAIN more |-> IF f \in DOMAIN t THEN t[f] ELSE more[f]]

PresetsInit ==
  /\ presets = [p \in PresetIds |-> NoPreset]
  /\ next_id = 1
  /\ selection = [s \in Subjects |-> NoPreset]
  /\ default = NoPreset
  /\ preference = [s \in Subjects |-> NoPreset]
  /\ telemetry = [p \in PresetIds \cup {NoPreset} |-> 0]
  /\ release = 1
  /\ tx = [r \in PageRequests |-> NoRequest]
  /\ page = [s \in Subjects |-> NoPreset]
  /\ requests = 0
  /\ done = telemetry
  /\ entered = [s \in Subjects |-> NoPreset]

Exists(p) == p \in PresetIds /\ presets[p] # NoPreset
can_mutate(p, s) == presets[p].owner = s \/ s \in Admins
duplicate(s, n) ==
  IF \E p \in PresetIds : Exists(p) /\ presets[p].owner = s /\ presets[p].name = n
    THEN CHOOSE p \in PresetIds : Exists(p) /\ presets[p].owner = s /\ presets[p].name = n
    ELSE NoPreset

\* A request has done its reads and is about to write.
reads(r, t) ==
  /\ tx[r] = NoRequest /\ requests < MaxRequests
  /\ requests' = requests + 1
  /\ tx' = [tx EXCEPT ![r] = t]
  /\ UNCHANGED <<tables, telemetry, release, page, done, entered>>

writes(r, op) == tx[r] # NoRequest /\ tx[r].op = op /\ tx[r].stage = "write"

commit(r, p) ==
  /\ tx' = [tx EXCEPT ![r].stage = "reply", ![r].ok = TRUE, ![r].preset = p]
  /\ done' = [done EXCEPT ![p] = @ + 1]
  /\ UNCHANGED <<telemetry, release, page, requests>>

rollback(r) ==
  /\ tx' = [tx EXCEPT ![r] = NoRequest]
  /\ UNCHANGED <<tables, telemetry, release, page, requests, done, entered>>

\* The upsert of select_preset: from here on the choice is the subject's own.
select(s, p) ==
  /\ selection' = [selection EXCEPT ![s] = p]
  /\ entered' = [entered EXCEPT ![s] = NoPreset]

(***************************************************************************)
(* The actions of /actions/workflow-presets.                               *)
(***************************************************************************)
save_preset(r, s, n, l, overwrite) ==
  LET dup == duplicate(s, n)
      t == Keeping(Request("save", s, NoPreset), [name |-> n, view |-> l,
             loaded |-> IF dup = NoPreset THEN NoPreset ELSE presets[dup].view])
  IN
  /\ normalize_columns_payload_accepts(l, allowed_columns)
  /\ reads(r, IF dup # NoPreset /\ ~overwrite
                THEN [t EXCEPT !.stage = "reply", !.preset = dup]
                ELSE [t EXCEPT !.preset = dup])

\* The ORM writes a column only when it differs from the value it has read.
overwritten(t) == IF t.view = t.loaded THEN presets[t.preset].view ELSE t.view

Bug_insert_preset(r) ==
  LET t == tx[r]
      dup == duplicate(t.subject, t.name)
      p == IF dup # NoPreset THEN dup ELSE next_id
  IN
  /\ p \in PresetIds
  /\ presets' = [presets EXCEPT ![p] = [owner |-> t.subject, name |-> t.name, view |-> t.view]]
  /\ next_id' = IF dup # NoPreset THEN next_id ELSE next_id + 1
  /\ select(t.subject, p)
  /\ UNCHANGED <<default, preference>>
  /\ commit(r, p)

insert_preset(r) ==
  LET t == tx[r] IN
  IF duplicate(t.subject, t.name) # NoPreset THEN rollback(r)      \* the name is taken by now
  ELSE /\ next_id \in PresetIds
       /\ presets' = [presets EXCEPT ![next_id] =
                        [owner |-> t.subject, name |-> t.name, view |-> t.view]]
       /\ next_id' = next_id + 1
       /\ select(t.subject, next_id)
       /\ UNCHANGED <<default, preference>>
       /\ commit(r, next_id)

overwrite_preset(r) ==
  LET t == tx[r] IN
  IF ~Exists(t.preset) THEN rollback(r)                        \* deleted meanwhile
  ELSE /\ presets' = [presets EXCEPT ![t.preset].view = overwritten(t)]
       /\ IF t.op = "save" THEN select(t.subject, t.preset) ELSE UNCHANGED <<selection, entered>>
       /\ UNCHANGED <<next_id, default, preference>>
       /\ commit(r, t.preset)

save_preset_writes(r) ==
  /\ writes(r, "save")
  /\ IF tx[r].preset = NoPreset THEN insert_preset(r) ELSE overwrite_preset(r)

update_preset(r, s, p, l) ==
  /\ normalize_columns_payload_accepts(l, allowed_columns)
  /\ Exists(p) /\ can_mutate(p, s)
  /\ reads(r, Keeping(Request("update", s, p),
                       [view |-> l, loaded |-> presets[p].view]))

update_preset_writes(r) == writes(r, "update") /\ overwrite_preset(r)

\* Any preset of the context may be selected, whoever owns it; NoPreset clears.
select_preset(r, s, p) ==
  /\ p = NoPreset \/ Exists(p)
  /\ reads(r, Request("select", s, p))

select_preset_writes(r) ==
  LET t == tx[r] IN
  /\ writes(r, "select")
  /\ IF t.preset # NoPreset /\ ~Exists(t.preset) THEN rollback(r)
     ELSE /\ select(t.subject, t.preset)
          /\ UNCHANGED <<presets, next_id, default, preference>>
          /\ commit(r, t.preset)

delete_preset(r, s, p, keep_current) ==
  /\ Exists(p) /\ can_mutate(p, s)
  /\ reads(r, Keeping(Request("delete", s, p),
                       [was_active |-> selection[s] = p, keep_current |-> keep_current,
                        fallback |-> default]))

\* ON DELETE SET NULL on both references.  A row that is gone by now is not
\* an error for the ORM, and the fallback is applied all the same.
delete_preset_writes(r) ==
  LET t == tx[r]
      rows == [presets EXCEPT ![t.preset] = NoPreset]
      fallback == IF t.fallback # NoPreset /\ rows[t.fallback] # NoPreset THEN t.fallback ELSE NoPreset
      nulled == [s \in Subjects |-> IF selection[s] = t.preset THEN NoPreset ELSE selection[s]]
      falls_back == t.was_active /\ ~t.keep_current
  IN
  /\ writes(r, "delete")
  /\ presets' = rows
  /\ selection' = IF falls_back THEN [nulled EXCEPT ![t.subject] = fallback] ELSE nulled
  /\ default' = IF default = t.preset THEN NoPreset ELSE default
  /\ entered' = IF falls_back THEN [entered EXCEPT ![t.subject] = NoPreset] ELSE entered
  /\ UNCHANGED <<next_id, preference>>
  /\ commit(r, t.preset)

set_admin_default(r, s, p) ==
  /\ s \in Admins
  /\ p = NoPreset \/ Exists(p)
  /\ reads(r, Request("set_default", s, p))

set_admin_default_writes(r) ==
  LET t == tx[r] IN
  /\ writes(r, "set_default")
  /\ IF t.preset # NoPreset /\ ~Exists(t.preset) THEN rollback(r)
     ELSE /\ default' = t.preset
          /\ UNCHANGED <<presets, next_id, selection, preference, entered>>
          /\ commit(r, t.preset)

successful(t) == t.ok

reply(r) ==
  LET t == tx[r] IN
  /\ t # NoRequest /\ t.stage = "reply"
  /\ \/ /\ successful(t)
        /\ telemetry' = [telemetry EXCEPT ![t.preset] = @ + 1]
     \/ UNCHANGED telemetry
  /\ tx' = [tx EXCEPT ![r] = NoRequest]
  /\ UNCHANGED <<tables, release, page, requests, done, entered>>

(***************************************************************************)
(* Preferences and pages.                                                  *)
(***************************************************************************)
save_admin_list_preference(s, l) ==
  /\ requests < MaxRequests
  /\ normalize_columns_payload_accepts(l, allowed_columns)
  /\ preference' = [preference EXCEPT ![s] = l]
  /\ requests' = requests + 1
  /\ UNCHANGED <<presets, next_id, selection, default, telemetry, release, tx, page, done, entered>>

open_page(r, s) == reads(r, Request("page", s, selection[s]))

\* The page's session is opened without begin() and never committed.
closed_without_commit(before, after) == before

resolve_queue_preset_state(r) ==
  LET t == tx[r]
      s == t.subject
      first_entry == ~Exists(t.preset) /\ Exists(default)
      active == IF Exists(t.preset) THEN t.preset ELSE default
      stored == preference[s]
      shows(view, p) == page' = [page EXCEPT ![s] =
                                   [preset |-> p, view |-> view, columns |-> allowed_columns]]
  IN
  /\ writes(r, "page")
  /\ IF active # NoPreset
       THEN shows(tolerant_columns(presets[active].view, allowed_columns), active)
       ELSE IF stored = NoPreset THEN shows(default_columns(allowed_columns), NoPreset)
       ELSE IF normalize_columns_payload_accepts(stored, allowed_columns) THEN shows(stored, NoPreset)
       ELSE page' = page                    \* ValueError: the page is a 500
  /\ selection' = closed_without_commit(selection,
       IF first_entry THEN [selection EXCEPT ![s] = default] ELSE selection)
  /\ entered' = IF first_entry /\ ~Exists(entered[s])
                  THEN [entered EXCEPT ![s] = default] ELSE entered
  /\ tx' = [tx EXCEPT ![r] = NoRequest]
  /\ UNCHANGED <<presets, next_id, default, preference, telemetry, release, requests, done>>

\* A new release of the panel: what was under way is lost.
deploy ==
  /\ release < Len(Releases)
  /\ release' = release + 1
  /\ tx' = [r \in PageRequests |-> NoRequest]
  /\ UNCHANGED <<tables, telemetry, page, requests, done, entered>>

PresetsNext ==
  \/ \E r \in PageRequests, s \in Subjects, n \in Names, l \in Layouts, o \in BOOLEAN :
       save_preset(r, s, n, l, o)
  \/ \E r \in PageRequests, s \in Subjects, p \in PresetIds, l \in Layouts : update_preset(r, s, p, l)
  \/ \E r \in PageRequests, s \in Subjects, p \in PresetIds \cup {NoPreset} :
       select_preset(r, s, p) \/ set_admin_default(r, s, p)
  \/ \E r \in PageRequests, s \in Subjects, p \in PresetIds, k \in BOOLEAN : delete_preset(r, s, p, k)
  \/ \E r \in PageRequests, s \in Subjects : open_page(r, s)
  \/ \E r \in PageRequests : save_preset_writes(r)
  \/ \E r \in PageRequests : update_preset_writes(r)
  \/ \E r \in PageRequests : select_preset_writes(r)
  \/ \E r \in PageRequests : delete_preset_writes(r)
  \/ \E r \in PageRequests : set_admin_default_writes(r)
  \/ \E r \in PageRequests : resolve_queue_preset_state(r)
  \/ \E r \in PageRequests : reply(r)
  \/ \E s \in Subjects, l \in Layouts : save_admin_list_preference(s, l)
  \/ deploy

PresetsSpec == PresetsInit /\ [][PresetsNext]_presets_vars

(***************************************************************************)
(* Properties.                                                             *)
(***************************************************************************)
(* Every row is lawful, and ids are given in order.                          *)
PresetsTypeOK ==
  /\ \A p \in PresetIds : Exists(p) =>
       presets[p].owner \in Subjects /\ presets[p].name \in Names /\ presets[p].view \in Layouts
  /\ next_id \in 1..MaxPresets + 1
  /\ \A p \in PresetIds : p >= next_id => presets[p] = NoPreset
  /\ selection \in [Subjects -> PresetIds \cup {NoPreset}]
  /\ default \in PresetIds \cup {NoPreset}
  /\ preference \in [Subjects -> Layouts \cup {NoPreset}]
  /\ release \in DOMAIN Releases /\ requests \in 0..MaxRequests

(* A preset's content changes only in a request of its owner or an admin    *)
(* that found this very preset and was told to overwrite it: a plain save   *)
(* never replaces a layout stored under the same name, however its check    *)
(* and its insert interleave with another tab's.                            *)
SavedWorkIsKept ==
  [][\A p \in PresetIds :
       (Exists(p) /\ presets'[p] # NoPreset /\ presets'[p] # presets[p]) =>
         /\ presets'[p].owner = presets[p].owner /\ presets'[p].name = presets[p].name
         /\ \E r \in PageRequests :
              /\ tx[r] # NoRequest /\ tx[r].op \in {"save", "update"} /\ tx[r].preset = p
              /\ can_mutate(p, tx[r].subject)
              /\ tx'[r].ok]_presets_vars

(* Whatever was stored, under whatever release, a page that is shown lays   *)
(* out every column of its table exactly once, so that the layout can be    *)
(* sent back to be saved.                                                   *)
PageCanBeSaved ==
  /\ PresetsTypeOK
  /\ \A s \in Subjects : page[s] # NoPreset =>
       normalize_columns_payload_accepts(page[s].view, page[s].columns)

(* Telemetry counts only what was committed: no conflict and no failed      *)
(* request is counted as a use of a preset, whatever happened to it since.  *)
TelemetryIsTrue == \A p \in DOMAIN telemetry : telemetry[p] <= done[p]

(* "After first entry, opening the queue should use the operator's last     *)
(* selected preset": the default a first entry applied stays, as long as it *)
(* exists and the operator chooses nothing else.                            *)
FirstEntrySticks ==
  [][\A s \in Subjects :
       (entered[s] # NoPreset /\ Exists(entered[s]) /\ page'[s] # page[s]) =>
         page'[s].preset = entered[s]]_presets_vars
=============================================================================
