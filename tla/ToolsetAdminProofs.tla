------------------------- MODULE ToolsetAdminProofs -------------------------
(***************************************************************************)
(* For any number of clients, toolsets, tools and principals: toolsets are *)
(* sound, no edit is lost, and requests get only what was on offer.        *)
(***************************************************************************)
EXTENDS ToolsetAdmin, TLAPS

\* An id has a toolset, or the row that stands for none.
LEMMA RowIs ==
    ASSUME TypeOK, NEW i \in Ids
    PROVE  /\ i \in Existing => toolsets[i] \in Toolsets
           /\ i \notin Existing => toolsets[i] = NoRow
           /\ toolsets[i].revision \in Nat
           /\ toolsets[i].revision = 0 <=> i \notin Existing
<1>1. toolsets[i] \in Toolsets \/ toolsets[i] = NoRow
  BY DEF TypeOK
<1>2. CASE toolsets[i] \in Toolsets
  BY <1>2 DEF Toolsets, Existing
<1>3. CASE toolsets[i] = NoRow
  <2>1. NoRow.status = "none" /\ NoRow.revision = 0
    BY DEF NoRow
  <2>2. i \notin Existing
    BY <1>3, <2>1 DEF Existing, Statuses
  <2>3. QED
    BY <1>3, <2>1, <2>2
<1>4. QED
  BY <1>1, <1>2, <1>3

\* The writes of existing toolsets that keep them sound: the kind and the slug
\* stay, a change counts, the system toolset stays active and without members,
\* and what is active has members that are available.
Edit(i, new) ==
    /\ i \in Existing /\ new \in Toolsets
    /\ new.kind = toolsets[i].kind /\ new.slug = toolsets[i].slug
    /\ new = toolsets[i] \/ new.revision = toolsets[i].revision + 1
    /\ new.kind = "all_published" => new.status = "active" /\ new.members = {}
    /\ new.kind = "explicit" /\ new.status = "active" =>
          new.members # {} /\ new.members \subseteq Available

\* The writes of new toolsets.
Create(i, new) ==
    /\ i \in Fresh /\ new \in Toolsets /\ SlugFree(new.slug)
    /\ \/ new.kind = "explicit" /\ new.status = "draft"
       \/ /\ new.kind = "all_published" /\ new.slug = Reserved
          /\ new.status = "active" /\ new.members = {}
          /\ SystemToolsets = {}

\* What a toolset offers.
LEMMA OfferIs ==
    ASSUME NEW i \in Ids, NEW row, row.members \in SUBSET Tools
    PROVE  /\ Offer(i, row) \subseteq
                 [id: Ids, members: SUBSET Tools, granted: BOOLEAN]
           /\ row.status = "active" =>
                 \E o \in Offer(i, row) :
                     /\ o.id = i /\ o.members = row.members
                     /\ o.granted <=> Requester \in row.grants
<1> DEFINE granted == Requester \in row.grants
           o == [id |-> i, members |-> row.members, granted |-> granted]
<1>1. Offer(i, row) = IF row.status # "active" THEN {} ELSE {o}
  BY DEF Offer
<1>2. granted \in BOOLEAN
  OBVIOUS
<1>3. granted <=> Requester \in row.grants
  OBVIOUS
<1> HIDE DEF granted
<1>4. /\ o \in [id: Ids, members: SUBSET Tools, granted: BOOLEAN]
      /\ o.id = i /\ o.members = row.members /\ o.granted = granted
  BY <1>2
<1> HIDE DEF o
<1>5. QED
  BY <1>1, <1>3, <1>4

\* A write changes one row, and adds to what was on offer.
LEMMA WriteEffect ==
    ASSUME TypeOK, NEW i \in Ids, NEW new \in Toolsets, Write(i, new)
    PROVE  /\ toolsets' \in [Ids -> Toolsets \union {NoRow}]
           /\ toolsets'[i] = new
           /\ \A j \in Ids : j # i => toolsets'[j] = toolsets[j]
           /\ offers' \in [Clients ->
                SUBSET [id: Ids, members: SUBSET Tools, granted: BOOLEAN]]
           /\ \A c \in Clients : offers[c] \subseteq offers'[c]
<1>1. /\ toolsets' \in [Ids -> Toolsets \union {NoRow}]
      /\ toolsets'[i] = new
      /\ \A j \in Ids : j # i => toolsets'[j] = toolsets[j]
  BY DEF Write, TypeOK
<1>2. Offer(i, new) \subseteq [id: Ids, members: SUBSET Tools, granted: BOOLEAN]
  BY OfferIs DEF Toolsets
<1>3. offers' \in [Clients ->
         SUBSET [id: Ids, members: SUBSET Tools, granted: BOOLEAN]]
  BY <1>2 DEF Write, TypeOK
<1>4. \A c \in Clients : offers[c] \subseteq offers'[c]
  BY DEF Write
<1>5. QED
  BY <1>1, <1>3, <1>4

\* Sound writes leave the toolsets sound.
LEMMA WriteIsSound ==
    ASSUME IInv, NEW i \in Ids, NEW new, Edit(i, new) \/ Create(i, new),
           Write(i, new), catalog' = catalog
    PROVE  /\ OneSystemToolset' /\ ActiveIsAvailable'
           /\ \A j \in SystemToolsets' : toolsets'[j].slug = Reserved
<1>a. TypeOK /\ SeenInv /\ OneSystemToolset /\ ActiveIsAvailable
  BY DEF IInv
<1>b. new \in Toolsets
  BY DEF Edit, Create
<1>1. /\ toolsets'[i] = new
      /\ \A j \in Ids : j # i => toolsets'[j] = toolsets[j]
  BY <1>a, <1>b, WriteEffect
<1>2. new.status \in Statuses /\ new.kind \in Kinds /\ i \in Existing'
  BY <1>b, <1>1 DEF Toolsets, Existing
<1>3. \A j \in Ids : j # i => (j \in Existing' <=> j \in Existing)
  BY <1>1 DEF Existing
<1>4. Existing' \subseteq Ids /\ Existing \subseteq Ids
  BY DEF Existing
<1>5. \A j \in Ids : j # i => (j \in SystemToolsets' <=> j \in SystemToolsets)
  BY <1>1, <1>3 DEF SystemToolsets
<1>6. SystemToolsets' \subseteq Ids /\ SystemToolsets \subseteq Existing
  BY <1>4 DEF SystemToolsets
<1>7. i \in SystemToolsets' <=> new.kind = "all_published"
  BY <1>1, <1>2 DEF SystemToolsets
<1>8. Available' = Available
  BY DEF Available
<1>9. CASE Edit(i, new)
  <2>1. i \in SystemToolsets' <=> i \in SystemToolsets
    BY <1>7, <1>9 DEF Edit, SystemToolsets
  <2>2. \A j \in Ids : /\ j \in SystemToolsets' <=> j \in SystemToolsets
                       /\ j \in Existing' <=> j \in Existing
                       /\ j \in Existing => toolsets'[j].slug = toolsets[j].slug
                       /\ toolsets'[j].kind = toolsets[j].kind
    BY <1>1, <1>2, <1>3, <1>5, <1>9, <2>1 DEF Edit
  <2>3. \A j \in SystemToolsets' : toolsets'[j].slug = Reserved
    BY <1>a, <1>6, <2>2 DEF SeenInv
  <2>4. /\ \A j, k \in SystemToolsets' : j = k
        /\ \A j, k \in Existing' : toolsets'[j].slug = toolsets'[k].slug => j = k
    BY <1>a, <1>4, <1>6, <2>2 DEF OneSystemToolset
  <2>5. \A j \in SystemToolsets' :
           toolsets'[j].status = "active" /\ toolsets'[j].members = {}
    BY <1>a, <1>1, <1>6, <1>7, <1>9, <2>2 DEF OneSystemToolset, Edit
  <2>6. ActiveIsAvailable'
    BY <1>a, <1>1, <1>4, <1>8, <1>9, <2>2 DEF ActiveIsAvailable, Edit
  <2>7. QED
    BY <2>3, <2>4, <2>5, <2>6 DEF OneSystemToolset
<1>10. CASE Create(i, new)
  <2>1. i \notin Existing /\ i \notin SystemToolsets
    BY <1>6, <1>10 DEF Create, Fresh
  <2>2. \A j \in Existing : toolsets'[j].slug # new.slug /\ j # i
    BY <1>1, <1>4, <1>10, <2>1 DEF Create, SlugFree
  <2>3. \A j, k \in Existing' : toolsets'[j].slug = toolsets'[k].slug => j = k
    BY <1>a, <1>1, <1>3, <1>4, <2>2 DEF OneSystemToolset
  <2>4. \A j \in SystemToolsets' : j = i \/ j \in SystemToolsets
    BY <1>5, <1>6
  <2>5. \A j \in SystemToolsets' :
           j = i => /\ new.slug = Reserved /\ new.status = "active"
                    /\ new.members = {} /\ SystemToolsets = {}
    BY <1>7, <1>10 DEF Create
  <2>6. \A j, k \in SystemToolsets' : j = k
    BY <1>a, <2>4, <2>5 DEF OneSystemToolset
  <2>7. \A j \in SystemToolsets' :
           /\ toolsets'[j].slug = Reserved
           /\ toolsets'[j].status = "active" /\ toolsets'[j].members = {}
    BY <1>a, <1>1, <1>6, <2>4, <2>5 DEF OneSystemToolset, SeenInv
  <2>8. ActiveIsAvailable'
    BY <1>a, <1>1, <1>3, <1>4, <1>8, <1>10 DEF ActiveIsAvailable, Create
  <2>9. QED
    BY <2>3, <2>6, <2>7, <2>8 DEF OneSystemToolset
<1>11. QED
  BY <1>9, <1>10

-----------------------------------------------------------------------------
(***************************************************************************)
(* The steps that write                                                    *)
(***************************************************************************)
\* A method of the aggregate counts a change, and nothing but a change.
LEMMA ChangedIs ==
    ASSUME NEW row \in Toolsets, NEW new \in Toolsets,
           new.revision = row.revision
    PROVE  /\ Changed(row, new) \in Toolsets
           /\ \/ Changed(row, new) = row
              \/ Changed(row, new).revision = row.revision + 1
           /\ Changed(row, new).kind = new.kind
           /\ Changed(row, new).slug = new.slug
           /\ Changed(row, new).status = new.status
           /\ Changed(row, new).members = new.members
<1>1. CASE new = row
  BY <1>1 DEF Changed
<1>2. CASE new # row
  <2>1. Changed(row, new) = [new EXCEPT !.revision = @ + 1]
    BY <1>2 DEF Changed
  <2>2. new.revision + 1 \in Nat \ {0}
    BY DEF Toolsets
  <2>3. QED
    BY <2>1, <2>2 DEF Toolsets
<1>3. QED
  BY <1>1, <1>2

\* The end of a command, by a client or unseen.
Finishes(a) ==
    /\ IF a \in Clients THEN Goto(a, "done") ELSE UNCHANGED pc
    /\ UNCHANGED <<catalog, role, seen, reply>>

\* Every command is an edit, by somebody who knows the revision.
LEMMA CommandEffect ==
    ASSUME IInv, NEW a \in Clients \union Unseen, NEW i \in Ids, Command(a, i)
    PROVE  /\ ExpectedRevision(a, i)
           /\ Finishes(a)
           /\ \E new \in Toolsets : Edit(i, new) /\ Write(i, new)
<1>a. TypeOK /\ OneSystemToolset /\ ActiveIsAvailable
  BY DEF IInv
<1>1. ExpectedRevision(a, i)
  BY DEF Command, UpdateToolset, ReplaceToolsetMembers, ReplaceToolsetGrants,
         ActivateToolset, DisableToolset
<1>2. i \in Existing /\ toolsets[i] \in Toolsets
  BY <1>1, <1>a, RowIs DEF ExpectedRevision
<1> DEFINE row == toolsets[i]
<1>3. /\ row.kind \in {"explicit", "all_published"}
      /\ row.kind = "all_published" => row.status = "active" /\ row.members = {}
      /\ row.kind = "explicit" /\ row.status = "active" =>
            row.members # {} /\ row.members \subseteq Available
  <2>1. row.kind \in {"explicit", "all_published"}
    BY <1>2 DEF Toolsets, Kinds
  <2>2. row.kind = "all_published" => i \in SystemToolsets
    BY <1>2 DEF SystemToolsets
  <2>3. QED
    BY <1>a, <1>2, <2>1, <2>2 DEF OneSystemToolset, ActiveIsAvailable
<1> HIDE DEF row
<1>4. ASSUME NEW new \in Toolsets, new.revision = row.revision,
             new.kind = row.kind, new.slug = row.slug,
             new.kind = "all_published" =>
                new.status = "active" /\ new.members = {},
             new.kind = "explicit" /\ new.status = "active" =>
                new.members # {} /\ new.members \subseteq Available,
             Commit(a, i, Changed(row, new))
      PROVE  /\ Finishes(a)
             /\ \E edited \in Toolsets : Edit(i, edited) /\ Write(i, edited)
  <2>1. row \in Toolsets
    BY <1>2 DEF row
  <2>2. Edit(i, Changed(row, new))
    BY <1>2, <1>4, <2>1, ChangedIs DEF Edit, row
  <2>3. Write(i, Changed(row, new)) /\ Finishes(a)
    BY <1>4 DEF Commit, Finishes
  <2>4. QED
    BY <2>2, <2>3 DEF Edit
<1>5. CASE UpdateToolset(a, i)
  <2>1. PICK mode \in Modes : Commit(a, i, update_profile(row, mode))
    BY <1>5 DEF UpdateToolset, row
  <2> DEFINE new == [row EXCEPT !.mode = mode]
  <2>2. /\ new \in Toolsets /\ new.revision = row.revision
        /\ new.kind = row.kind /\ new.slug = row.slug
        /\ new.status = row.status /\ new.members = row.members
    BY <1>2 DEF Toolsets, row
  <2>3. Commit(a, i, Changed(row, new))
    BY <2>1 DEF update_profile
  <2> HIDE DEF new
  <2>4. QED
    BY <1>1, <1>3, <1>4, <2>2, <2>3
<1>6. CASE ReplaceToolsetMembers(a, i)
  <2>1. PICK members \in MemberSets :
           /\ MembersAllowed(row, members)
           /\ Commit(a, i, replace_members(row, members))
    BY <1>6 DEF ReplaceToolsetMembers, row
  <2> DEFINE new == [row EXCEPT !.members = members]
  <2>2. members \in SUBSET Tools
    BY DataAssumption
  <2>3. /\ new \in Toolsets /\ new.revision = row.revision
        /\ new.kind = row.kind /\ new.slug = row.slug
        /\ new.status = row.status /\ new.members = members
    BY <1>2, <2>2 DEF Toolsets, row
  <2>4. /\ row.kind = "explicit"
        /\ row.status = "active" => members # {} /\ members \subseteq Available
    BY <2>1 DEF MembersAllowed
  <2>5. Commit(a, i, Changed(row, new))
    BY <2>1 DEF replace_members
  <2> HIDE DEF new
  <2>6. QED
    BY <1>1, <1>4, <2>3, <2>4, <2>5
<1>7. CASE ReplaceToolsetGrants(a, i)
  <2>1. PICK grants \in GrantSets : Commit(a, i, replace_grants(row, grants))
    BY <1>7 DEF ReplaceToolsetGrants, row
  <2> DEFINE new == [row EXCEPT !.grants = grants]
  <2>2. grants \in SUBSET Principals
    BY DataAssumption
  <2>3. /\ new \in Toolsets /\ new.revision = row.revision
        /\ new.kind = row.kind /\ new.slug = row.slug
        /\ new.status = row.status /\ new.members = row.members
    BY <1>2, <2>2 DEF Toolsets, row
  <2>4. Commit(a, i, Changed(row, new))
    BY <2>1 DEF replace_grants
  <2> HIDE DEF new
  <2>5. QED
    BY <1>1, <1>3, <1>4, <2>3, <2>4
<1>8. CASE ActivateToolset(a, i)
  <2> DEFINE new == [row EXCEPT !.status = "active"]
  <2>1. /\ new \in Toolsets /\ new.revision = row.revision
        /\ new.kind = row.kind /\ new.slug = row.slug
        /\ new.status = "active" /\ new.members = row.members
    BY <1>2 DEF Toolsets, Statuses, row
  <2>2. /\ row.members \subseteq Available
        /\ row.kind = "explicit" => row.members # {}
        /\ Commit(a, i, Changed(row, new))
    BY <1>8 DEF ActivateToolset, activate, row
  <2> HIDE DEF new
  <2>3. QED
    BY <1>1, <1>3, <1>4, <2>1, <2>2
<1>9. CASE DisableToolset(a, i)
  <2> DEFINE new == [row EXCEPT !.status = "disabled"]
  <2>1. /\ new \in Toolsets /\ new.revision = row.revision
        /\ new.kind = row.kind /\ new.slug = row.slug
        /\ new.status = "disabled" /\ new.members = row.members
    BY <1>2 DEF Toolsets, Statuses, row
  <2>2. row.kind = "explicit" /\ Commit(a, i, Changed(row, new))
    BY <1>9 DEF DisableToolset, disable, row
  <2> HIDE DEF new
  <2>3. QED
    BY <1>1, <1>3, <1>4, <2>1, <2>2
<1>10. QED
  BY <1>5, <1>6, <1>7, <1>8, <1>9, <1>1 DEF Command

\* The new toolsets.
LEMMA CreateEffect ==
    ASSUME IInv, NEW i \in Ids, NEW slug \in Slugs, CreateToolset(i, slug)
    PROVE  /\ UNCHANGED <<catalog, role, pc, seen, reply>>
           /\ \E new \in Toolsets : Create(i, new) /\ Write(i, new)
<1> DEFINE new == [NoRow EXCEPT !.status = "draft", !.slug = slug,
                                !.revision = 1]
<1>1. /\ new \in Toolsets /\ new.slug = slug /\ new.kind = "explicit"
      /\ new.status = "draft"
  <2> DEFINE Empty == [status: {"none"}, kind: {"explicit"}, slug: {Reserved},
                       mode: {"direct"}, revision: {0}, members: {{}},
                       grants: {{}}]
  <2>1. NoRow \in Empty
    BY DEF NoRow
  <2>2. /\ new \in [status: {"draft"}, kind: {"explicit"}, slug: {slug},
                    mode: {"direct"}, revision: {1}, members: {{}},
                    grants: {{}}]
    BY <2>1
  <2> HIDE DEF new
  <2>3. new \in Toolsets
    BY <2>2 DEF Toolsets, Statuses, Kinds, Modes
  <2>4. QED
    BY <2>2, <2>3
<1>2. /\ UNCHANGED <<catalog, role, pc, seen, reply>>
      /\ i \in Fresh /\ SlugFree(slug) /\ Write(i, new)
  BY DEF CreateToolset
<1> HIDE DEF new
<1>3. QED
  BY <1>1, <1>2 DEF Create

\* The system toolset.
LEMMA SystemToolsetIs ==
    ASSUME NEW grants \in SUBSET Principals
    PROVE  /\ SystemToolset(grants) \in Toolsets
           /\ SystemToolset(grants).kind = "all_published"
           /\ SystemToolset(grants).slug = Reserved
           /\ SystemToolset(grants).status = "active"
           /\ SystemToolset(grants).members = {}
           /\ SystemToolset(grants).grants = grants
<1>1. (IF grants = {} THEN 1 ELSE 2) \in Nat \ {0}
  OBVIOUS
<1>2. QED
  BY <1>1, DataAssumption DEF SystemToolset, Toolsets, Statuses, Kinds, Modes

\* A start that finds none inserts it.
LEMMA InsertEffect ==
    ASSUME IInv, NEW c \in Clients, Insert(c)
    PROVE  /\ pc[c] = "insert" /\ Goto(c, "done")
           /\ UNCHANGED <<catalog, role, seen, reply>>
           /\ \E i \in Ids :
                 /\ Create(i, SystemToolset(ServicePrincipals))
                 /\ Write(i, SystemToolset(ServicePrincipals))
<1>1. /\ pc[c] = "insert" /\ Goto(c, "done")
      /\ UNCHANGED <<catalog, role, seen, reply>>
      /\ SlugFree(Reserved) /\ SystemToolsets = {}
  BY DEF Insert, InsertAllowed
<1>2. PICK i \in Fresh : Write(i, SystemToolset(ServicePrincipals))
  BY DEF Insert
<1>3. i \in Ids
  BY DEF Fresh
<1>4. Create(i, SystemToolset(ServicePrincipals))
  BY <1>1, <1>2, SystemToolsetIs, DataAssumption DEF Create
<1>5. QED
  BY <1>1, <1>2, <1>3, <1>4

\* What an ensuring process saves is an edit of what it has read.
LEMMA SaveEffect ==
    ASSUME IInv, NEW c \in Clients, NEW i \in Ids, SaveGrants(c, i)
    PROVE  /\ pc[c] = "save" /\ i \in DOMAIN seen[c]
           /\ UNCHANGED <<catalog, role, seen, reply>>
           /\ \/ Goto(c, "failed") /\ UNCHANGED <<toolsets, offers>>
              \/ /\ Goto(c, "done")
                 /\ toolsets[i].revision = seen[c][i].row.revision
                 /\ toolsets[i] \in Toolsets
                 /\ \/ /\ UNCHANGED <<toolsets, offers>>
                       /\ ServicePrincipals \subseteq seen[c][i].grants
                    \/ \E new \in Toolsets :
                          /\ Edit(i, new) /\ Write(i, new)
                          /\ new.kind = toolsets[i].kind
                          /\ new.grants = seen[c][i].grants \union ServicePrincipals
<1>a. TypeOK /\ OneSystemToolset /\ ActiveIsAvailable
  BY DEF IInv
<1> DEFINE merged == seen[c][i].grants \union ServicePrincipals
           expected == seen[c][i].row.revision
           row == toolsets[i]
           new == [row EXCEPT !.grants = merged, !.revision = expected + 1]
<1>1. /\ pc[c] = "save" /\ i \in DOMAIN seen[c]
      /\ UNCHANGED <<catalog, role, seen, reply>>
      /\ \/ Goto(c, "failed") /\ UNCHANGED <<toolsets, offers>>
         \/ /\ Goto(c, "done") /\ row.revision = expected
            /\ \/ merged = seen[c][i].grants /\ UNCHANGED <<toolsets, offers>>
               \/ Write(i, new)
  BY DEF SaveGrants, SaveAccepts
<1>2. CASE Goto(c, "failed") /\ UNCHANGED <<toolsets, offers>>
  BY <1>1, <1>2
<1>3. CASE /\ Goto(c, "done") /\ row.revision = expected
           /\ \/ merged = seen[c][i].grants /\ UNCHANGED <<toolsets, offers>>
              \/ Write(i, new)
  <2>1. expected \in Nat \ {0} /\ merged \in SUBSET Principals
    BY <1>a, <1>1, DataAssumption DEF TypeOK, Toolsets
  <2>2. i \in Existing /\ row \in Toolsets
    BY <1>a, <1>3, <2>1, RowIs
  <2>3. CASE merged = seen[c][i].grants /\ UNCHANGED <<toolsets, offers>>
    BY <1>1, <1>3, <2>2, <2>3
  <2>4. CASE Write(i, new)
    <3>1. row.kind = "all_published" => row.status = "active" /\ row.members = {}
      BY <1>a, <2>2 DEF OneSystemToolset, SystemToolsets
    <3>2. row.kind = "explicit" /\ row.status = "active" =>
             row.members # {} /\ row.members \subseteq Available
      BY <1>a, <2>2 DEF ActiveIsAvailable
    <3> HIDE DEF merged, expected, row
    <3>3. /\ new \in Toolsets /\ new.kind = row.kind /\ new.slug = row.slug
          /\ new.status = row.status /\ new.members = row.members
          /\ new.grants = merged /\ new.revision = expected + 1
      <4>1. expected + 1 \in Nat \ {0}
        BY <2>1
      <4>2. QED
        BY <2>1, <2>2, <4>1 DEF Toolsets
    <3> HIDE DEF new
    <3>4. Edit(i, new)
      BY <1>3, <2>2, <3>1, <3>2, <3>3 DEF Edit, row
    <3>5. QED
      BY <1>1, <1>3, <2>2, <2>4, <3>3, <3>4 DEF row, merged, expected
  <2>5. QED
    BY <1>3, <2>3, <2>4
<1>4. QED
  BY <1>1, <1>2, <1>3

-----------------------------------------------------------------------------
(***************************************************************************)
(* What is kept for each client                                            *)
(***************************************************************************)
ClientInv(c) == RoleInv(c) /\ KeepInv(c) /\ WholeInv(c) /\ OfferInv(c)

\* What a client has read has its type.
LEMMA SeenIs ==
    ASSUME IInv, NEW c \in Clients, NEW i \in DOMAIN seen[c]
    PROVE  /\ i \in Ids /\ seen[c][i] \in Loads
           /\ seen[c][i].row \in Toolsets
           /\ seen[c][i].row.revision \in Nat \ {0}
<1>1. i \in Ids /\ seen[c][i] \in Loads
  BY DEF IInv, SeenInv
<1>2. seen[c][i].row \in Toolsets
  BY <1>1 DEF Loads
<1>3. QED
  BY <1>1, <1>2 DEF Toolsets

\* A write keeps what the clients know, old or not.
LEMMA WriteKeeps ==
    ASSUME IInv, NEW i \in Ids, NEW new, Edit(i, new) \/ Create(i, new),
           Write(i, new), UNCHANGED <<catalog, role, seen, reply>>,
           pc' \in [Clients -> Labels],
           \A c \in Clients :
              \/ pc'[c] = pc[c]
              \/ pc'[c] = "done" /\ pc[c] \in {"shown", "insert", "save"}
    PROVE  IInv'
<1>a. TypeOK
  BY DEF IInv
<1>b. new \in Toolsets
  BY DEF Edit, Create
<1>1. /\ toolsets' \in [Ids -> Toolsets \union {NoRow}]
      /\ toolsets'[i] = new
      /\ \A j \in Ids : j # i => toolsets'[j] = toolsets[j]
      /\ offers' \in [Clients ->
           SUBSET [id: Ids, members: SUBSET Tools, granted: BOOLEAN]]
      /\ \A c \in Clients : offers[c] \subseteq offers'[c]
  BY <1>a, <1>b, WriteEffect
<1>2. catalog' = catalog /\ role' = role /\ seen' = seen /\ reply' = reply
  OBVIOUS
<1>3. TypeOK'
  BY <1>a, <1>1, <1>2 DEF TypeOK
<1>4. /\ OneSystemToolset' /\ ActiveIsAvailable'
      /\ \A j \in SystemToolsets' : toolsets'[j].slug = Reserved
  BY WriteIsSound
<1>5. SeenInv'
  BY <1>2, <1>4 DEF IInv, SeenInv
<1>6. ASSUME NEW c \in Clients PROVE KeepInv(c)'
  <2>1. SUFFICES ASSUME NEW j \in DOMAIN seen[c]
                 PROVE  /\ toolsets'[j].revision # 0 =>
                              seen[c][j].row.revision <= toolsets'[j].revision
                        /\ seen[c][j].row.revision = toolsets'[j].revision =>
                              toolsets'[j] = toolsets[j]
    BY <1>2 DEF IInv, KeepInv
  <2>2. /\ j \in Ids /\ seen[c][j].row.revision \in Nat
        /\ toolsets[j].revision # 0 =>
              seen[c][j].row.revision <= toolsets[j].revision
    BY SeenIs DEF IInv, KeepInv
  <2>3. CASE j # i
    BY <1>1, <2>2, <2>3
  <2>4. CASE j = i
    <3>1. Edit(i, new)
      BY <2>4 DEF Create, Fresh
    <3>2. toolsets[i].revision \in Nat \ {0}
      BY <1>a, <3>1, RowIs DEF Edit
    <3>3. new = toolsets[i] \/ new.revision = toolsets[i].revision + 1
      BY <3>1 DEF Edit
    <3>4. QED
      BY <1>1, <2>2, <2>4, <3>2, <3>3
  <2>5. QED
    BY <2>3, <2>4
<1>7. ASSUME NEW c \in Clients PROVE RoleInv(c)'
  BY <1>2 DEF IInv, RoleInv
<1>8. ASSUME NEW c \in Clients PROVE WholeInv(c)'
  BY <1>2 DEF IInv, WholeInv
<1>9. ASSUME NEW c \in Clients PROVE OfferInv(c)'
  <2>1. ASSUME NEW j, NEW members, Offered(c, j, members)
        PROVE  Offered(c, j, members)'
    BY <1>1, <1>2, <2>1 DEF Offered
  <2>2. /\ pc'[c] = "load" => pc[c] = "load"
        /\ pc'[c] = "list" => pc[c] = "list"
    OBVIOUS
  <2>3. OfferInv(c)
    BY DEF IInv
  <2>4. QED
    BY <1>2, <2>1, <2>2, <2>3 DEF OfferInv
<1>10. QED
  BY <1>3, <1>4, <1>5, <1>6, <1>7, <1>8, <1>9 DEF IInv

\* A step that changes the variables of one client only.
Only(c) ==
    /\ UNCHANGED <<toolsets, catalog>>
    /\ \A u \in Clients : u # c =>
          /\ role'[u] = role[u] /\ pc'[u] = pc[u] /\ seen'[u] = seen[u]
          /\ reply'[u] = reply[u] /\ offers'[u] = offers[u]

\* The types, without what has been read.
ClientTypes ==
    /\ role \in [Clients -> Roles \union {"none"}]
    /\ pc \in [Clients -> Labels]
    /\ reply \in [Clients -> [outcome: Outcomes, tools: SUBSET Tools]]
    /\ offers \in [Clients ->
          SUBSET [id: Ids, members: SUBSET Tools, granted: BOOLEAN]]

\* It is enough to look at this client.
LEMMA OnlyKeeps ==
    ASSUME IInv, NEW c \in Clients, Only(c), ClientTypes',
           seen' = [u \in Clients |-> seen'[u]],
           seen'[c] \in [DOMAIN seen'[c] -> Loads], DOMAIN seen'[c] \subseteq Ids,
           ClientInv(c)'
    PROVE  IInv'
<1>a. TypeOK /\ SeenInv
  BY DEF IInv
<1>1. toolsets' = toolsets /\ catalog' = catalog
  BY DEF Only
<1>2. \A u \in Clients : /\ seen'[u] \in [DOMAIN seen'[u] -> Loads]
                         /\ DOMAIN seen'[u] \subseteq Ids
  BY <1>a DEF Only, SeenInv
<1>3. TypeOK'
  <2>1. \A u \in Clients : \A i \in DOMAIN seen'[u] :
           i \in Ids /\ seen'[u][i] \in Loads
    BY <1>2
  <2>2. \A u \in Clients : \A i \in DOMAIN seen'[u] :
          /\ i \in Ids
          /\ seen'[u][i].row \in Toolsets
          /\ seen'[u][i].members \subseteq Tools
          /\ seen'[u][i].grants \subseteq Principals
          /\ seen'[u][i].next \in {"members", "grants", "none"}
    BY <2>1 DEF Loads
  <2>3. QED
    BY <1>a, <1>1, <2>2 DEF TypeOK, ClientTypes
<1>4. SeenInv' /\ OneSystemToolset' /\ ActiveIsAvailable'
  BY <1>a, <1>1, <1>2
     DEF IInv, SeenInv, SystemToolsets, Existing, OneSystemToolset,
         ActiveIsAvailable, Available
<1>5. ASSUME NEW u \in Clients, u # c PROVE ClientInv(u)'
  <2>1. /\ role'[u] = role[u] /\ pc'[u] = pc[u] /\ seen'[u] = seen[u]
        /\ reply'[u] = reply[u] /\ offers'[u] = offers[u]
    BY <1>5 DEF Only
  <2>2. ClientInv(u)
    BY DEF IInv, ClientInv
  <2>3. RoleInv(u)' /\ KeepInv(u)' /\ WholeInv(u)'
    BY <1>1, <2>1, <2>2 DEF ClientInv, RoleInv, KeepInv, WholeInv
  <2>4. OfferInv(u)'
    BY <2>1, <2>2 DEF ClientInv, OfferInv, Offered
  <2>5. QED
    BY <2>3, <2>4 DEF ClientInv
<1>6. QED
  BY <1>3, <1>4, <1>5 DEF IInv, ClientInv

-----------------------------------------------------------------------------
(***************************************************************************)
(* The steps of a client                                                   *)
(***************************************************************************)
\* A client that moves on, with what it has read.
LEMMA MovesOn ==
    ASSUME IInv, NEW c \in Clients, UNCHANGED <<dbVars, seen, offers>>,
           NEW label \in {"insert", "reread", "done", "failed"}, Goto(c, label),
           NEW r \in Roles \union {"none"}, role' = [role EXCEPT ![c] = r],
           NEW a \in [outcome: Outcomes, tools: SUBSET Tools],
           reply' = [reply EXCEPT ![c] = a],
           r = role[c] \/ pc[c] = "idle",
           label \in {"insert", "reread"} => r = "start",
           a.outcome = "served" =>
              label = "done" /\ pc[c] = "list" /\ r = role[c]
    PROVE  IInv'
<1>a. TypeOK /\ SeenInv /\ ClientInv(c)
  BY DEF IInv, ClientInv
<1>1. /\ pc'[c] = label /\ role'[c] = r /\ reply'[c] = a
      /\ seen' = seen /\ offers' = offers /\ toolsets' = toolsets
      /\ Only(c)
  BY <1>a DEF Goto, TypeOK, Only, dbVars
<1>2. label \in Labels
  BY DEF Labels
<1>3. ClientTypes'
  BY <1>a, <1>2 DEF TypeOK, ClientTypes, Goto
<1>4. RoleInv(c)'
  BY <1>1 DEF RoleInv
<1>5. KeepInv(c)'
  BY <1>a, <1>1 DEF ClientInv, KeepInv
<1>6. WholeInv(c)'
  BY <1>a, <1>1 DEF ClientInv, WholeInv, RoleInv
<1>7. OfferInv(c)'
  <2>1. ASSUME a.outcome = "served", NEW i \in DOMAIN seen[c]
        PROVE  Offered(c, i, seen[c][i].members)'
    BY <1>a, <1>1, <2>1 DEF ClientInv, OfferInv, Offered
  <2>2. QED
    BY <1>1, <2>1 DEF OfferInv
<1>8. QED
  BY <1>a, <1>1, <1>3, <1>4, <1>5, <1>6, <1>7, OnlyKeeps DEF SeenInv, ClientInv

\* A client that reads rows, as the first of its statements.
LEMMA ReadsRows ==
    ASSUME IInv, NEW c \in Clients, NEW S \in SUBSET Existing, ReadRows(c, S),
           UNCHANGED <<dbVars, reply>>, pc[c] \in {"idle", "reread"},
           NEW r \in Roles \union {"none"}, role' = [role EXCEPT ![c] = r],
           NEW label \in {"load", "list"}, Goto(c, label),
           label = "list" => S = {} /\ r = "root",
           r = "start" => S \subseteq SystemToolsets,
           r = "root" => S \subseteq GrantedActive,
           r = "scoped" => \A i, j \in S : i = j
    PROVE  IInv'
<1>a. TypeOK /\ SeenInv /\ ClientInv(c)
  BY DEF IInv, ClientInv
<1> DEFINE L(i) == [row |-> [toolsets[i] EXCEPT !.grants = {}], members |-> {},
                    grants |-> {}, next |-> "members"]
           O == UNION {Offer(i, toolsets[i]) : i \in S}
<1>1. /\ seen' = [seen EXCEPT ![c] = [i \in S |-> L(i)]]
      /\ offers' = [offers EXCEPT ![c] = O]
  BY DEF ReadRows
<1>2. S \subseteq Ids /\ \A i \in S : toolsets[i] \in Toolsets
  BY <1>a, RowIs DEF Existing
<1>3. ASSUME NEW i \in S
      PROVE  /\ L(i) \in Loads /\ L(i).row = [toolsets[i] EXCEPT !.grants = {}]
             /\ L(i).next = "members"
             /\ L(i).row.revision = toolsets[i].revision
             /\ L(i).row.kind = toolsets[i].kind
             /\ L(i).row.status = toolsets[i].status
             /\ L(i).row.members = toolsets[i].members
  <2> DEFINE w == [toolsets[i] EXCEPT !.grants = {}]
  <2>1. /\ w \in Toolsets /\ w.revision = toolsets[i].revision
        /\ w.kind = toolsets[i].kind /\ w.status = toolsets[i].status
        /\ w.members = toolsets[i].members
    BY <1>2 DEF Toolsets
  <2> HIDE DEF w
  <2>2. L(i) = [row |-> w, members |-> {}, grants |-> {}, next |-> "members"]
    BY DEF w
  <2>3. L(i) \in Loads /\ L(i).row = w /\ L(i).next = "members"
    BY <2>1, <2>2 DEF Loads
  <2>4. QED
    BY <2>1, <2>3 DEF w
<1>4. ASSUME NEW i \in S
      PROVE  /\ Offer(i, toolsets[i]) \subseteq
                   [id: Ids, members: SUBSET Tools, granted: BOOLEAN]
             /\ toolsets[i].status = "active" =>
                   \E o \in O : /\ o.id = i /\ o.members = toolsets[i].members
                                /\ o.granted <=> Requester \in toolsets[i].grants
  <2>1. i \in Ids /\ toolsets[i].members \in SUBSET Tools
    BY <1>2 DEF Toolsets
  <2>2. /\ Offer(i, toolsets[i]) \subseteq
                 [id: Ids, members: SUBSET Tools, granted: BOOLEAN]
        /\ toolsets[i].status = "active" =>
                 \E o \in Offer(i, toolsets[i]) :
                     /\ o.id = i /\ o.members = toolsets[i].members
                     /\ o.granted <=> Requester \in toolsets[i].grants
    BY <2>1, OfferIs
  <2>3. QED
    BY <2>2
<1>5. O \in SUBSET [id: Ids, members: SUBSET Tools, granted: BOOLEAN]
  BY <1>4
<1> DEFINE F == [i \in S |-> L(i)]
<1>b. /\ DOMAIN F = S /\ F \in [S -> Loads]
      /\ \A i \in S : F[i] = L(i)
  BY <1>3
<1>c. \A i \in S : /\ F[i].row = [toolsets[i] EXCEPT !.grants = {}]
                   /\ F[i].next = "members"
                   /\ F[i].row.revision = toolsets[i].revision
                   /\ F[i].row.kind = toolsets[i].kind
                   /\ F[i].row.status = toolsets[i].status
                   /\ F[i].row.members = toolsets[i].members
  BY <1>3, <1>b
<1>d. seen' = [seen EXCEPT ![c] = F]
  BY <1>1
<1> HIDE DEF F, O
<1>6. /\ seen'[c] = F
      /\ seen' = [u \in Clients |-> seen'[u]]
      /\ \A u \in Clients : u # c => seen'[u] = seen[u]
  BY <1>a, <1>d DEF SeenInv
<1>7. /\ offers'[c] = O
      /\ \A u \in Clients : u # c => offers'[u] = offers[u]
  BY <1>a, <1>1 DEF TypeOK
<1>8. /\ DOMAIN seen'[c] = S /\ \A i \in S : seen'[c][i] = F[i]
      /\ seen'[c] \in [DOMAIN seen'[c] -> Loads]
  BY <1>b, <1>6
<1>9. /\ pc'[c] = label /\ role'[c] = r /\ reply' = reply
      /\ toolsets' = toolsets /\ Only(c)
  BY <1>a, <1>6, <1>7 DEF Goto, TypeOK, Only, dbVars
<1>10. ClientTypes'
  <2>1. label \in Labels
    BY DEF Labels
  <2>2. QED
    BY <1>a, <1>1, <1>5, <2>1 DEF TypeOK, ClientTypes, Goto
<1>11. reply[c].outcome # "served"
  BY <1>a DEF ClientInv, RoleInv
<1>12. RoleInv(c)'
  BY <1>9, <1>11 DEF RoleInv
<1>13. KeepInv(c)'
  <2>1. \A i \in S : toolsets[i].revision \in Nat
    BY <1>a, <1>2, RowIs
  <2>2. QED
    BY <1>c, <1>8, <1>9, <2>1 DEF KeepInv
<1>14. WholeInv(c)'
  <2>1. /\ r = "start" => \A i \in S : F[i].row.kind = "all_published"
        /\ r = "root" => \A i \in S : F[i].row.status = "active"
    BY <1>c DEF SystemToolsets, GrantedActive
  <2>2. label = "list" => S = {}
    OBVIOUS
  <2>3. \A i \in S : seen'[c][i].next = "members" /\ seen'[c][i].row = F[i].row
    BY <1>c, <1>8
  <2>4. QED
    BY <1>8, <1>9, <2>1, <2>2, <2>3 DEF WholeInv
<1>15. OfferInv(c)'
  <2>1. ASSUME NEW i \in S, toolsets[i].status = "active"
        PROVE  Offered(c, i, toolsets[i].members)'
    <3>1. r = "root" => Requester \in toolsets[i].grants
      BY DEF GrantedActive
    <3>2. PICK o \in O : /\ o.id = i /\ o.members = toolsets[i].members
                         /\ o.granted <=> Requester \in toolsets[i].grants
      BY <1>4, <2>1
    <3>3. QED
      BY <1>7, <1>9, <3>1, <3>2 DEF Offered
  <2>2. QED
    <3>1. ASSUME NEW i \in S, seen'[c][i].row.status = "active"
          PROVE  Offered(c, i, seen[c][i].row.members)'
      <4>1. /\ toolsets[i].status = "active"
            /\ seen'[c][i].row.members = toolsets[i].members
        BY <1>c, <1>8, <3>1
      <4>2. QED
        BY <1>9, <2>1, <4>1 DEF Offered
    <3>2. reply'[c].outcome # "served" /\ (label = "list" => S = {})
      BY <1>9, <1>11
    <3>3. QED
      BY <1>8, <1>9, <3>1, <3>2 DEF OfferInv
<1>16. QED
  BY <1>2, <1>6, <1>8, <1>9, <1>10, <1>12, <1>13, <1>14, <1>15, OnlyKeeps
     DEF ClientInv

\* One statement adds to what is known of one toolset.
LEMMA KnowsMore ==
    ASSUME IInv, NEW c \in Clients, NEW i \in DOMAIN seen[c], NEW g \in Loads,
           seen' = [seen EXCEPT ![c] = [seen[c] EXCEPT ![i] = g]]
    PROVE  /\ DOMAIN seen'[c] = DOMAIN seen[c]
           /\ seen'[c] \in [DOMAIN seen'[c] -> Loads]
           /\ DOMAIN seen'[c] \subseteq Ids
           /\ seen'[c][i] = g
           /\ \A j \in DOMAIN seen[c] : j # i => seen'[c][j] = seen[c][j]
           /\ seen' = [u \in Clients |-> seen'[u]]
           /\ \A u \in Clients : u # c => seen'[u] = seen[u]
<1>1. /\ seen[c] \in [DOMAIN seen[c] -> Loads] /\ DOMAIN seen[c] \subseteq Ids
      /\ seen = [u \in Clients |-> seen[u]]
  BY DEF IInv, SeenInv
<1> DEFINE f == [seen[c] EXCEPT ![i] = g]
<1>2. /\ f \in [DOMAIN seen[c] -> Loads] /\ f[i] = g
      /\ \A j \in DOMAIN seen[c] : j # i => f[j] = seen[c][j]
  BY <1>1
<1> HIDE DEF f
<1>3. seen' = [seen EXCEPT ![c] = f]
  BY DEF f
<1>4. /\ seen'[c] = f /\ seen' = [u \in Clients |-> seen'[u]]
      /\ \A u \in Clients : u # c => seen'[u] = seen[u]
  BY <1>1, <1>3
<1>5. QED
  BY <1>1, <1>2, <1>4

\* The second statement.
LEMMA MembersRead ==
    ASSUME IInv, NEW c \in Clients, NEW i \in Ids, ReadMembers(c, i)
    PROVE  IInv'
<1>a. TypeOK /\ SeenInv /\ ClientInv(c)
  BY DEF IInv, ClientInv
<1> DEFINE g == [seen[c][i] EXCEPT !.members = toolsets[i].members,
                                   !.next = "grants"]
<1>1. /\ pc[c] = "load" /\ i \in DOMAIN seen[c] /\ seen[c][i].next = "members"
      /\ UNCHANGED <<dbVars, role, pc, reply, offers>>
  BY DEF ReadMembers
<1>2. seen' = [seen EXCEPT ![c] = [seen[c] EXCEPT ![i] = g]]
  BY DEF ReadMembers
<1>3. seen[c][i] \in Loads /\ i \in Ids
  BY <1>1, SeenIs
<1>4. toolsets[i].members \in SUBSET Tools
  <2>1. NoRow.members = {}
    BY DEF NoRow
  <2>2. QED
    BY <1>a, <2>1, RowIs DEF Toolsets
<1>5. /\ g \in Loads /\ g.row = seen[c][i].row /\ g.next = "grants"
      /\ g.members = toolsets[i].members
  BY <1>3, <1>4 DEF Loads
<1> HIDE DEF g
<1>6. /\ DOMAIN seen'[c] = DOMAIN seen[c]
      /\ seen'[c] \in [DOMAIN seen'[c] -> Loads]
      /\ DOMAIN seen'[c] \subseteq Ids
      /\ seen'[c][i] = g
      /\ \A j \in DOMAIN seen[c] : j # i => seen'[c][j] = seen[c][j]
      /\ seen' = [u \in Clients |-> seen'[u]]
      /\ \A u \in Clients : u # c => seen'[u] = seen[u]
  BY <1>1, <1>2, <1>5, KnowsMore
<1>7. /\ toolsets' = toolsets /\ role' = role /\ pc' = pc /\ reply' = reply
      /\ offers' = offers /\ Only(c)
  BY <1>1, <1>6 DEF Only, dbVars
<1>8. ClientTypes'
  BY <1>a, <1>7 DEF TypeOK, ClientTypes
<1>9. RoleInv(c)'
  BY <1>a, <1>1, <1>7 DEF ClientInv, RoleInv
<1>10. \A j \in DOMAIN seen[c] : seen'[c][j].row = seen[c][j].row
  BY <1>5, <1>6
<1>11. KeepInv(c)'
  BY <1>a, <1>1, <1>5, <1>6, <1>7 DEF ClientInv, KeepInv
<1>12. WholeInv(c)'
  <2>1. \A j \in DOMAIN seen[c] :
           seen'[c][j].next = "none" => seen'[c][j] = seen[c][j]
    BY <1>5, <1>6
  <2>2. QED
    BY <1>a, <1>1, <1>6, <1>7, <1>10, <2>1 DEF ClientInv, WholeInv
<1>13. OfferInv(c)'
  <2>1. reply[c].outcome # "served"
    BY <1>a, <1>1 DEF ClientInv, RoleInv
  <2>2. ASSUME NEW j \in DOMAIN seen[c], seen[c][j].row.status = "active"
        PROVE  Offered(c, j, seen[c][j].row.members)'
    <3>1. Offered(c, j, seen[c][j].row.members)
      BY <1>a, <1>1, <2>2 DEF ClientInv, OfferInv
    <3>2. QED
      BY <1>7, <1>10, <3>1 DEF Offered
  <2>3. QED
    BY <1>1, <1>6, <1>7, <1>10, <2>1, <2>2 DEF OfferInv
<1>14. QED
  BY <1>6, <1>7, <1>8, <1>9, <1>11, <1>12, <1>13, OnlyKeeps DEF ClientInv

\* The third statement, and what the client does with what it has.
LEMMA GrantsRead ==
    ASSUME IInv, NEW c \in Clients, NEW i \in Ids, ReadGrants(c, i)
    PROVE  IInv'
<1>a. TypeOK /\ SeenInv /\ ClientInv(c)
  BY DEF IInv, ClientInv
<1> DEFINE g == [seen[c][i] EXCEPT !.grants = toolsets[i].grants,
                                   !.next = "none"]
           all == [seen[c] EXCEPT ![i] = g]
<1>1. /\ pc[c] = "load" /\ i \in DOMAIN seen[c] /\ seen[c][i].next = "grants"
      /\ UNCHANGED <<dbVars, role, offers>>
      /\ seen' = [seen EXCEPT ![c] = all]
  BY DEF ReadGrants
<1>2. \/ LoadFails(c)
      \/ WellFormed(g.row, g.members) /\ (\A j \in DOMAIN all : all[j].next = "none")
            /\ Loaded(c, all)
      \/ WellFormed(g.row, g.members) /\ UNCHANGED <<pc, reply>>
  BY DEF ReadGrants
<1>3. seen[c][i] \in Loads
  BY <1>1, SeenIs
<1>4. toolsets[i].grants \in SUBSET Principals
  <2>1. NoRow.grants = {}
    BY DEF NoRow
  <2>2. QED
    BY <1>a, <2>1, RowIs DEF Toolsets
<1>5. /\ g \in Loads /\ g.row = seen[c][i].row /\ g.next = "none"
      /\ g.members = seen[c][i].members /\ g.grants = toolsets[i].grants
  BY <1>3, <1>4 DEF Loads
<1> HIDE DEF g
<1>6. /\ DOMAIN seen'[c] = DOMAIN seen[c]
      /\ seen'[c] \in [DOMAIN seen'[c] -> Loads]
      /\ DOMAIN seen'[c] \subseteq Ids
      /\ seen'[c][i] = g
      /\ \A j \in DOMAIN seen[c] : j # i => seen'[c][j] = seen[c][j]
      /\ seen' = [u \in Clients |-> seen'[u]]
      /\ \A u \in Clients : u # c => seen'[u] = seen[u]
  BY <1>1, <1>5, KnowsMore
<1>7. seen'[c] = all
  BY <1>a, <1>1 DEF SeenInv
<1> HIDE DEF all
<1>8. /\ toolsets' = toolsets /\ role' = role /\ offers' = offers
  BY <1>1 DEF dbVars
<1>9. \A j \in DOMAIN seen[c] : seen'[c][j].row = seen[c][j].row
  BY <1>5, <1>6
<1>10. KeepInv(c)'
  BY <1>a, <1>1, <1>5, <1>6, <1>8 DEF ClientInv, KeepInv
<1>11. reply[c].outcome # "served"
  BY <1>a, <1>1 DEF ClientInv, RoleInv
<1>12. ASSUME NEW j \in DOMAIN seen[c], seen[c][j].row.status = "active"
       PROVE  Offered(c, j, seen[c][j].row.members)'
  <2>1. Offered(c, j, seen[c][j].row.members)
    BY <1>a, <1>1, <1>12 DEF ClientInv, OfferInv
  <2>2. QED
    BY <1>8, <1>9, <2>1 DEF Offered
<1>13. WellFormed(g.row, g.members) =>
          \A j \in DOMAIN seen[c] :
             seen'[c][j].next = "none" => seen'[c][j].members = seen[c][j].row.members
  BY <1>a, <1>1, <1>5, <1>6 DEF ClientInv, WholeInv, WellFormed
<1>14. ASSUME NEW label \in Labels, pc' = [pc EXCEPT ![c] = label],
              NEW a \in [outcome: Outcomes, tools: SUBSET Tools],
              reply' = [reply EXCEPT ![c] = a], a.outcome # "served",
              label # "idle",
              label \in {"insert", "reread"} => FALSE,
              label = "shown" => role[c] = "admin",
              label = "save" => role[c] = "start",
              label = "list" => role[c] \in {"scoped", "root"},
              label \in {"shown", "save", "list"} =>
                 \A j \in DOMAIN seen[c] : seen'[c][j].next = "none",
              label \in {"load", "list"} => WellFormed(g.row, g.members),
              label = "list" =>
                 \A j \in DOMAIN seen[c] : seen[c][j].row.status = "active"
       PROVE  IInv'
  <2>1. /\ pc'[c] = label /\ reply'[c] = a /\ Only(c)
    BY <1>a, <1>1, <1>6, <1>8, <1>14 DEF TypeOK, Only, dbVars
  <2>2. ClientTypes'
    BY <1>a, <1>8, <1>14 DEF TypeOK, ClientTypes
  <2>3. RoleInv(c)'
    BY <1>8, <1>14, <2>1 DEF RoleInv
  <2>4. WholeInv(c)'
    BY <1>a, <1>1, <1>6, <1>8, <1>9, <1>13, <1>14, <2>1 DEF ClientInv, WholeInv
  <2>5. OfferInv(c)'
    <3>1. ASSUME NEW j \in DOMAIN seen[c], label = "list"
          PROVE  Offered(c, j, seen[c][j].members)'
      <4>1. seen'[c][j].members = seen[c][j].row.members
        BY <1>13, <1>14, <3>1
      <4>2. Offered(c, j, seen[c][j].row.members)'
        BY <1>12, <1>14, <3>1
      <4>3. QED
        BY <1>9, <4>1, <4>2 DEF Offered
    <3>2. QED
      BY <1>6, <1>9, <1>12, <1>14, <2>1, <3>1 DEF OfferInv
  <2>6. QED
    BY <1>6, <1>10, <2>1, <2>2, <2>3, <2>4, <2>5, OnlyKeeps DEF ClientInv
<1>15. reply[c] \in [outcome: Outcomes, tools: SUBSET Tools]
  BY <1>a DEF TypeOK
<1>16. UNCHANGED reply => reply' = [reply EXCEPT ![c] = reply[c]]
  BY <1>a DEF TypeOK
<1>17. CASE LoadFails(c)
  <2> DEFINE a == [reply[c] EXCEPT !.outcome = "error"]
             label == IF role[c] = "start" THEN "failed" ELSE "done"
  <2>1. /\ a \in [outcome: Outcomes, tools: SUBSET Tools] /\ a.outcome = "error"
        /\ reply' = [reply EXCEPT ![c] = a] /\ pc' = [pc EXCEPT ![c] = label]
    BY <1>15, <1>17 DEF LoadFails, Goto, Outcomes
  <2>2. label \in {"done", "failed"} /\ label \in Labels
    BY DEF Labels
  <2> HIDE DEF a, label
  <2>3. QED
    BY <1>14, <2>1, <2>2
<1>18. CASE WellFormed(g.row, g.members) /\ UNCHANGED <<pc, reply>>
  <2>1. pc' = [pc EXCEPT ![c] = "load"] /\ "load" \in Labels
    BY <1>a, <1>1, <1>18 DEF TypeOK, Labels
  <2>2. QED
    BY <1>11, <1>14, <1>15, <1>16, <1>18, <2>1
<1>19. CASE WellFormed(g.row, g.members) /\ (\A j \in DOMAIN all : all[j].next = "none")
            /\ Loaded(c, all)
  <2>a. \A j \in DOMAIN seen[c] : seen'[c][j].next = "none"
    BY <1>6, <1>7, <1>19
  <2>b. {"shown", "save", "list", "done"} \subseteq Labels
    BY DEF Labels
  <2>c. ASSUME Goto(c, "list"), UNCHANGED reply, role[c] \in {"scoped", "root"},
               \A j \in DOMAIN seen[c] : seen[c][j].row.status = "active"
        PROVE  IInv'
    <3>1. pc' = [pc EXCEPT ![c] = "list"]
      BY <2>c DEF Goto
    <3>2. reply' = [reply EXCEPT ![c] = reply[c]]
      BY <1>16, <2>c
    <3>3. WellFormed(g.row, g.members)
      BY <1>19
    <3>4. "list" \in Labels
      BY <2>b
    <3>5. QED
      BY <1>11, <1>14, <1>15, <2>a, <2>c, <3>1, <3>2, <3>3, <3>4
  <2>1. CASE role[c] = "admin" /\ Goto(c, "shown") /\ UNCHANGED reply
    BY <1>11, <1>14, <1>15, <1>16, <2>1, <2>a, <2>b DEF Goto
  <2>2. CASE role[c] = "start" /\ Goto(c, "save") /\ UNCHANGED reply
    BY <1>11, <1>14, <1>15, <1>16, <2>2, <2>a, <2>b DEF Goto
  <2>3. CASE role[c] = "root" /\ Goto(c, "list") /\ UNCHANGED reply
    <3>1. \A j \in DOMAIN seen[c] : seen[c][j].row.status = "active"
      BY <1>a, <2>3 DEF ClientInv, WholeInv
    <3>2. QED
      BY <2>3, <2>c, <3>1
  <2>4. ASSUME role[c] = "scoped", NEW j \in DOMAIN all,
               \/ /\ ScopedOutcome(all[j]) = "served"
                  /\ Goto(c, "list") /\ UNCHANGED reply
               \/ /\ ScopedOutcome(all[j]) # "served"
                  /\ Goto(c, "done")
                  /\ reply' = [reply EXCEPT ![c].outcome = ScopedOutcome(all[j])]
        PROVE  IInv'
    <3>1. j \in DOMAIN seen[c] /\ j = i
      BY <1>a, <1>1, <1>6, <1>7, <2>4 DEF ClientInv, WholeInv
    <3>2. CASE ScopedOutcome(all[j]) = "served" /\ Goto(c, "list") /\ UNCHANGED reply
      <4>1. all[j].row.status = "active"
        BY <3>2 DEF ScopedOutcome
      <4>2. \A k \in DOMAIN seen[c] : seen[c][k].row.status = "active"
        BY <1>a, <1>1, <1>7, <1>9, <3>1, <4>1, <2>4 DEF ClientInv, WholeInv
      <4>3. QED
        BY <2>4, <2>c, <3>2, <4>2
    <3>3. CASE /\ ScopedOutcome(all[j]) # "served" /\ Goto(c, "done")
               /\ reply' = [reply EXCEPT ![c].outcome = ScopedOutcome(all[j])]
      <4> DEFINE o == ScopedOutcome(all[j])
                 a == [reply[c] EXCEPT !.outcome = o]
      <4>1. o \in Outcomes
        BY DEF ScopedOutcome, Outcomes
      <4>2. reply' = [reply EXCEPT ![c] = a] /\ o # "served"
        BY <3>3
      <4> HIDE DEF o
      <4>3. /\ a \in [outcome: Outcomes, tools: SUBSET Tools] /\ a.outcome = o
        BY <1>15, <4>1
      <4> HIDE DEF a
      <4>4. QED
        BY <1>14, <2>b, <3>3, <4>2, <4>3 DEF Goto
    <3>4. QED
      BY <2>4, <3>2, <3>3
  <2>5. QED
    BY <1>19, <2>1, <2>2, <2>3, <2>4 DEF Loaded
<1>20. QED
  BY <1>2, <1>17, <1>18, <1>19

\* The client forgets everything.
LEMMA CloseStep ==
    ASSUME IInv, NEW c \in Clients, Close(c)
    PROVE  IInv'
<1>a. TypeOK /\ SeenInv /\ ClientInv(c)
  BY DEF IInv, ClientInv
<1>b. NoReply \in [outcome: Outcomes, tools: SUBSET Tools]
      /\ NoReply.outcome = "none"
  BY DEF NoReply, Outcomes
<1>c. DOMAIN <<>> = {} /\ <<>> \in [DOMAIN <<>> -> Loads]
  OBVIOUS
<1>1. /\ Goto(c, "idle") /\ role' = [role EXCEPT ![c] = "none"]
      /\ seen' = [seen EXCEPT ![c] = <<>>]
      /\ reply' = [reply EXCEPT ![c] = NoReply]
      /\ offers' = [offers EXCEPT ![c] = {}] /\ UNCHANGED dbVars
  BY DEF Close
<1>2. /\ seen'[c] = <<>> /\ seen' = [u \in Clients |-> seen'[u]]
      /\ \A u \in Clients : u # c => seen'[u] = seen[u]
  BY <1>a, <1>1 DEF SeenInv
<1>3. DOMAIN seen'[c] = {} /\ seen'[c] \in [DOMAIN seen'[c] -> Loads]
  BY <1>c, <1>2
<1>4. ClientTypes'
  <2>1. "idle" \in Labels
    BY DEF Labels
  <2>2. QED
    BY <1>a, <1>b, <1>1, <2>1 DEF TypeOK, ClientTypes, Goto
<1>5. /\ Only(c) /\ pc'[c] = "idle" /\ role'[c] = "none"
      /\ reply'[c] = NoReply
  BY <1>a, <1>1, <1>2 DEF TypeOK, Only, Goto, dbVars
<1>6. ClientInv(c)'
  BY <1>b, <1>3, <1>5 DEF ClientInv, RoleInv, KeepInv, WholeInv, OfferInv
<1>7. QED
  BY <1>2, <1>3, <1>4, <1>5, <1>6, OnlyKeeps

\* The moves of a client that has read, or reads, nothing.
LEMMA PlainSteps ==
    ASSUME IInv, NEW c \in Clients,
           \/ Refused(c) \/ Look(c) \/ InsertConflicts(c) \/ ListPublished(c)
           \/ \E slug \in Slugs : NotFound(c, slug)
    PROVE  IInv'
<1>a. TypeOK /\ ClientInv(c)
  BY DEF IInv, ClientInv
<1>b. /\ role[c] \in Roles \union {"none"}
      /\ reply[c] \in [outcome: Outcomes, tools: SUBSET Tools]
      /\ UNCHANGED role => role' = [role EXCEPT ![c] = role[c]]
      /\ UNCHANGED reply => reply' = [reply EXCEPT ![c] = reply[c]]
  BY <1>a DEF TypeOK
<1>c. reply[c].outcome = "served" => pc[c] = "done"
  BY <1>a DEF ClientInv, RoleInv
<1>1. CASE Refused(c)
  <2>1. /\ pc[c] = "shown" /\ Goto(c, "done")
        /\ UNCHANGED <<dbVars, seen, offers>> /\ UNCHANGED role /\ UNCHANGED reply
    BY <1>1 DEF Refused
  <2>2. QED
    BY <1>b, <1>c, <2>1, MovesOn
<1>2. CASE Look(c)
  <2> DEFINE label == IF SystemToolsets = {} THEN "insert" ELSE "reread"
  <2>1. /\ pc[c] = "idle" /\ Goto(c, label) /\ "start" \in Roles
        /\ role' = [role EXCEPT ![c] = "start"]
        /\ UNCHANGED <<dbVars, seen, offers>> /\ UNCHANGED reply
    BY <1>2 DEF Look, Begin
  <2>2. label \in {"insert", "reread"}
    OBVIOUS
  <2> HIDE DEF label
  <2>3. QED
    BY <1>b, <1>c, <2>1, <2>2, MovesOn
<1>3. CASE InsertConflicts(c)
  <2>1. /\ pc[c] = "insert" /\ Goto(c, "reread")
        /\ UNCHANGED <<dbVars, seen, offers>> /\ UNCHANGED role /\ UNCHANGED reply
    BY <1>3 DEF InsertConflicts
  <2>2. role[c] = "start"
    BY <1>a, <2>1 DEF ClientInv, RoleInv
  <2>3. QED
    BY <1>b, <1>c, <2>1, <2>2, MovesOn
<1>4. CASE ListPublished(c)
  <2>1. PICK S \in SUBSET (Available \intersect Visible) :
           reply' = [reply EXCEPT ![c] = [outcome |-> "served", tools |-> S]]
    BY <1>4 DEF ListPublished
  <2>2. /\ pc[c] = "list" /\ Goto(c, "done")
        /\ UNCHANGED <<dbVars, seen, offers>> /\ UNCHANGED role
    BY <1>4 DEF ListPublished
  <2>3. [outcome |-> "served", tools |-> S]
           \in [outcome: Outcomes, tools: SUBSET Tools]
    BY <2>1 DEF Outcomes, Available
  <2>4. QED
    BY <1>b, <2>1, <2>2, <2>3, MovesOn
<1>5. ASSUME NEW slug \in Slugs, NotFound(c, slug) PROVE IInv'
  <2> DEFINE a == [reply[c] EXCEPT !.outcome = "not_found"]
  <2>1. /\ pc[c] = "idle" /\ Goto(c, "done") /\ "scoped" \in Roles
        /\ role' = [role EXCEPT ![c] = "scoped"]
        /\ UNCHANGED <<dbVars, seen, offers>>
        /\ reply' = [reply EXCEPT ![c] = a]
    BY <1>5 DEF NotFound, Begin
  <2>2. /\ a \in [outcome: Outcomes, tools: SUBSET Tools]
        /\ a.outcome = "not_found"
    BY <1>b DEF Outcomes
  <2> HIDE DEF a
  <2>3. QED
    BY <2>1, <2>2, MovesOn
<1>6. QED
  BY <1>1, <1>2, <1>3, <1>4, <1>5

\* The first statements.
LEMMA FirstReads ==
    ASSUME IInv, NEW c \in Clients,
           \/ \E i \in Ids : GetToolset(c, i)
           \/ Reread(c)
           \/ \E slug \in Slugs : ReceiveScoped(c, slug)
           \/ ReceiveRoot(c)
    PROVE  IInv'
<1>a. TypeOK /\ ClientInv(c) /\ OneSystemToolset
  BY DEF IInv, ClientInv
<1>b. /\ role[c] \in Roles \union {"none"}
      /\ reply[c] \in [outcome: Outcomes, tools: SUBSET Tools]
      /\ UNCHANGED role => role' = [role EXCEPT ![c] = role[c]]
      /\ UNCHANGED reply => reply' = [reply EXCEPT ![c] = reply[c]]
  BY <1>a DEF TypeOK
<1>1. ASSUME NEW i \in Ids, GetToolset(c, i) PROVE IInv'
  <2>1. /\ pc[c] = "idle" /\ Goto(c, "load") /\ "admin" \in Roles
        /\ role' = [role EXCEPT ![c] = "admin"]
        /\ i \in Existing /\ ReadRows(c, {i}) /\ UNCHANGED <<dbVars, reply>>
    BY <1>1 DEF GetToolset, Begin
  <2>2. {i} \in SUBSET Existing
    BY <2>1
  <2>3. QED
    BY <2>1, <2>2, ReadsRows
<1>2. CASE Reread(c)
  <2>1. /\ pc[c] = "reread" /\ UNCHANGED dbVars /\ UNCHANGED role
        /\ UNCHANGED reply
    BY <1>2 DEF Reread
  <2>2. role[c] = "start" /\ reply[c].outcome # "served"
    BY <1>a, <2>1 DEF ClientInv, RoleInv
  <2>3. CASE SystemToolsets = {}
    <3>1. Goto(c, "failed") /\ UNCHANGED <<seen, offers>>
      BY <1>2, <2>3 DEF Reread
    <3>2. QED
      BY <1>b, <2>1, <2>2, <3>1, MovesOn
  <2>4. CASE SystemToolsets # {}
    <3>1. ReadRows(c, SystemToolsets) /\ Goto(c, "load")
      BY <1>2, <2>4 DEF Reread
    <3>2. SystemToolsets \in SUBSET Existing
      BY DEF SystemToolsets
    <3>3. QED
      BY <1>b, <2>1, <2>2, <3>1, <3>2, ReadsRows
  <2>5. QED
    BY <2>3, <2>4
<1>3. ASSUME NEW slug \in Slugs, ReceiveScoped(c, slug) PROVE IInv'
  <2> DEFINE S == {i \in Existing : toolsets[i].slug = slug}
  <2>1. /\ pc[c] = "idle" /\ Goto(c, "load") /\ "scoped" \in Roles
        /\ role' = [role EXCEPT ![c] = "scoped"]
        /\ ReadRows(c, S) /\ UNCHANGED <<dbVars, reply>>
    BY <1>3 DEF ReceiveScoped, Begin
  <2>2. S \in SUBSET Existing /\ \A i, j \in S : i = j
    BY <1>a DEF OneSystemToolset
  <2> HIDE DEF S
  <2>3. QED
    BY <2>1, <2>2, ReadsRows
<1>4. CASE ReceiveRoot(c)
  <2>1. /\ pc[c] = "idle" /\ "root" \in Roles
        /\ role' = [role EXCEPT ![c] = "root"]
        /\ ReadRows(c, GrantedActive) /\ UNCHANGED <<dbVars, reply>>
    BY <1>4 DEF ReceiveRoot, Begin
  <2>2. GrantedActive \in SUBSET Existing
    BY DEF GrantedActive
  <2>3. CASE GrantedActive = {}
    <3>1. Goto(c, "list")
      BY <1>4, <2>3 DEF ReceiveRoot
    <3>2. ReadRows(c, {})
      BY <2>1, <2>3
    <3> DEFINE S == {}
               label == "list"
               r == "root"
    <3>3. /\ S \in SUBSET Existing /\ r \in Roles \union {"none"}
          /\ label \in {"load", "list"} /\ ReadRows(c, S) /\ Goto(c, label)
          /\ role' = [role EXCEPT ![c] = r]
      BY <2>1, <3>1, <3>2
    <3>4. /\ label = "list" => S = {} /\ r = "root"
          /\ r = "start" => S \subseteq SystemToolsets
          /\ r = "root" => S \subseteq GrantedActive
          /\ r = "scoped" => \A i, j \in S : i = j
      OBVIOUS
    <3> HIDE DEF S, label, r
    <3>5. QED
      BY <2>1, <3>3, <3>4, ReadsRows
  <2>4. CASE GrantedActive # {}
    <3> DEFINE S == GrantedActive
               label == "load"
               r == "root"
    <3>1. Goto(c, label)
      BY <1>4, <2>4 DEF ReceiveRoot
    <3>2. /\ S \in SUBSET Existing /\ r \in Roles \union {"none"}
          /\ label \in {"load", "list"} /\ ReadRows(c, S)
          /\ role' = [role EXCEPT ![c] = r]
      BY <2>1, <2>2
    <3>3. /\ label = "list" => S = {} /\ r = "root"
          /\ r = "start" => S \subseteq SystemToolsets
          /\ r = "root" => S \subseteq GrantedActive
          /\ r = "scoped" => \A i, j \in S : i = j
      OBVIOUS
    <3> HIDE DEF S, label, r
    <3>4. QED
      BY <2>1, <3>1, <3>2, <3>3, ReadsRows
  <2>5. QED
    BY <2>3, <2>4
<1>5. QED
  BY <1>1, <1>2, <1>3, <1>4

\* The writes.
LEMMA WriteSteps ==
    ASSUME IInv,
           \/ \E a \in Clients \union Unseen, i \in Ids : Command(a, i)
           \/ \E i \in Ids, slug \in Slugs : CreateToolset(i, slug)
           \/ \E c \in Clients :
                 Insert(c) \/ \E i \in Ids : SaveGrants(c, i)
    PROVE  IInv'
<1>a. TypeOK
  BY DEF IInv
<1>b. ASSUME NEW c \in Clients, Goto(c, "done")
      PROVE  /\ pc' \in [Clients -> Labels] /\ pc'[c] = "done"
             /\ \A u \in Clients : u # c => pc'[u] = pc[u]
  <2>1. "done" \in Labels
    BY DEF Labels
  <2>2. QED
    BY <1>a, <1>b, <2>1 DEF TypeOK, Goto
<1>1. ASSUME NEW a \in Clients \union Unseen, NEW i \in Ids, Command(a, i)
      PROVE  IInv'
  <2>1. ExpectedRevision(a, i) /\ Finishes(a)
    BY <1>1, CommandEffect
  <2>2. PICK new \in Toolsets : Edit(i, new) /\ Write(i, new)
    BY <1>1, CommandEffect
  <2>3. /\ pc' \in [Clients -> Labels]
        /\ \A c \in Clients : \/ pc'[c] = pc[c]
                              \/ pc'[c] = "done" /\ pc[c] = "shown"
    <3>1. CASE a \in Clients
      BY <1>b, <2>1, <3>1 DEF Finishes, ExpectedRevision
    <3>2. CASE a \notin Clients
      BY <1>a, <2>1, <3>2 DEF Finishes, TypeOK
    <3>3. QED
      BY <3>1, <3>2
  <2>4. UNCHANGED <<catalog, role, seen, reply>>
    BY <2>1 DEF Finishes
  <2>5. QED
    BY <2>2, <2>3, <2>4, WriteKeeps
<1>2. ASSUME NEW i \in Ids, NEW slug \in Slugs, CreateToolset(i, slug)
      PROVE  IInv'
  <2>1. UNCHANGED <<catalog, role, seen, reply>> /\ pc' = pc
    BY <1>2, CreateEffect
  <2>2. PICK new \in Toolsets : Create(i, new) /\ Write(i, new)
    BY <1>2, CreateEffect
  <2>3. pc' \in [Clients -> Labels]
    BY <1>a, <2>1 DEF TypeOK
  <2>4. QED
    BY <2>1, <2>2, <2>3, WriteKeeps
<1>3. ASSUME NEW c \in Clients, Insert(c) PROVE IInv'
  <2>1. /\ pc[c] = "insert" /\ Goto(c, "done")
        /\ UNCHANGED <<catalog, role, seen, reply>>
    BY <1>3, InsertEffect
  <2>2. PICK i \in Ids : /\ Create(i, SystemToolset(ServicePrincipals))
                         /\ Write(i, SystemToolset(ServicePrincipals))
    BY <1>3, InsertEffect
  <2>3. /\ pc' \in [Clients -> Labels]
        /\ \A u \in Clients : \/ pc'[u] = pc[u]
                              \/ pc'[u] = "done" /\ pc[u] = "insert"
    BY <1>b, <2>1
  <2>4. QED
    BY <2>1, <2>2, <2>3, WriteKeeps
<1>4. ASSUME NEW c \in Clients, NEW i \in Ids, SaveGrants(c, i) PROVE IInv'
  <2>1. /\ pc[c] = "save" /\ UNCHANGED <<catalog, role, seen, reply>>
    BY <1>4, SaveEffect
  <2>2. /\ role[c] \in Roles \union {"none"}
        /\ reply[c] \in [outcome: Outcomes, tools: SUBSET Tools]
        /\ role' = [role EXCEPT ![c] = role[c]]
        /\ reply' = [reply EXCEPT ![c] = reply[c]]
        /\ reply[c].outcome # "served"
    BY <1>a, <2>1 DEF TypeOK, IInv, RoleInv
  <2>3. CASE Goto(c, "failed") /\ UNCHANGED <<toolsets, offers>>
    BY <2>1, <2>2, <2>3, MovesOn DEF dbVars
  <2>4. CASE Goto(c, "done") /\ UNCHANGED <<toolsets, offers>>
    BY <2>1, <2>2, <2>4, MovesOn DEF dbVars
  <2>5. ASSUME Goto(c, "done"), NEW new \in Toolsets, Edit(i, new), Write(i, new)
        PROVE  IInv'
    <3>1. /\ pc' \in [Clients -> Labels]
          /\ \A u \in Clients : \/ pc'[u] = pc[u]
                                \/ pc'[u] = "done" /\ pc[u] = "save"
      BY <1>b, <2>1, <2>5
    <3>2. QED
      BY <2>1, <2>5, <3>1, WriteKeeps
  <2>6. QED
    BY <1>4, <2>3, <2>4, <2>5, SaveEffect
<1>5. QED
  BY <1>1, <1>2, <1>3, <1>4

-----------------------------------------------------------------------------
(***************************************************************************)
(* Results                                                                 *)
(***************************************************************************)
\* Nobody is at work yet, and the toolset of an earlier deployment is sound ...
LEMMA ToolsetInit == Init => IInv
<1> SUFFICES ASSUME Init PROVE IInv
  OBVIOUS
<1>a. /\ NoRow.status = "none" /\ NoRow.kind = "explicit"
      /\ NoRow.revision = 0
  BY DEF NoRow
<1>b. {} \in SUBSET Principals
  OBVIOUS
<1>c. /\ SystemToolset({}) \in Toolsets
      /\ SystemToolset({}).kind = "all_published"
      /\ SystemToolset({}).slug = Reserved
      /\ SystemToolset({}).status = "active"
      /\ SystemToolset({}).members = {}
  BY <1>b, SystemToolsetIs
<1>1. /\ toolsets \in [Ids -> Toolsets \union {NoRow}]
      /\ \A i \in Ids : toolsets[i] \in {NoRow, SystemToolset({})}
      /\ \A i, j \in Ids : toolsets[i] # NoRow /\ toolsets[j] # NoRow => i = j
  <2>1. CASE Upgrade
    <3>1. PICK i \in Ids :
             toolsets = [j \in Ids |-> IF j = i THEN SystemToolset({}) ELSE NoRow]
      BY <2>1 DEF Init
    <3>2. QED
      BY <1>c, <3>1
  <2>2. CASE ~Upgrade
    <3>1. toolsets = [i \in Ids |-> NoRow]
      BY <2>2 DEF Init
    <3>2. QED
      BY <3>1
  <2>3. QED
    BY <2>1, <2>2
<1>2. /\ \A c \in Clients : /\ seen[c] = <<>> /\ pc[c] = "idle"
                            /\ role[c] = "none" /\ reply[c] = NoReply
      /\ seen = [c \in Clients |-> seen[c]]
  BY DEF Init
<1>3. DOMAIN <<>> = {} /\ <<>> \in [DOMAIN <<>> -> Loads]
  OBVIOUS
<1>4. \A c \in Clients : DOMAIN seen[c] = {} /\ seen[c] \in [DOMAIN seen[c] -> Loads]
  BY <1>2, <1>3
<1>5. /\ NoReply \in [outcome: Outcomes, tools: SUBSET Tools]
      /\ NoReply.outcome = "none"
  BY DEF NoReply, Outcomes
<1>6. TypeOK
  <2>1. /\ catalog \in [Tools -> {"draft", "available", "gone"}]
        /\ role \in [Clients -> Roles \union {"none"}]
        /\ pc \in [Clients -> Labels]
        /\ reply \in [Clients -> [outcome: Outcomes, tools: SUBSET Tools]]
        /\ offers \in [Clients ->
              SUBSET [id: Ids, members: SUBSET Tools, granted: BOOLEAN]]
    BY <1>5 DEF Init, Labels
  <2>2. QED
    BY <1>1, <1>4, <2>1 DEF TypeOK
<1>7. \A i \in Existing : i \in Ids /\ toolsets[i] = SystemToolset({})
  BY <1>a, <1>1 DEF Existing, Statuses
<1>8. /\ SystemToolsets \subseteq Existing
      /\ \A i, j \in Existing : i = j
  BY <1>1, <1>7, <1>a, <1>c DEF SystemToolsets
<1>9. OneSystemToolset /\ SeenInv
  BY <1>c, <1>2, <1>4, <1>7, <1>8 DEF OneSystemToolset, SeenInv
<1>10. ActiveIsAvailable
  BY <1>c, <1>7 DEF ActiveIsAvailable
<1>11. ASSUME NEW c \in Clients PROVE ClientInv(c)
  BY <1>2, <1>4, <1>5
     DEF ClientInv, RoleInv, KeepInv, WholeInv, OfferInv
<1>12. QED
  BY <1>6, <1>9, <1>10, <1>11 DEF IInv, ClientInv

\* Publications only add to what is available.
LEMMA PublishStep ==
    ASSUME IInv, NEW t \in Tools, Publish(t)
    PROVE  IInv'
<1>1. /\ UNCHANGED <<toolsets, role, pc, seen, reply, offers>>
      /\ catalog' = [catalog EXCEPT ![t] = "available"]
  BY DEF Publish
<1>2. TypeOK'
  BY <1>1 DEF IInv, TypeOK
<1>3. Available \subseteq Available'
  BY <1>1 DEF IInv, TypeOK, Available
<1>4. OneSystemToolset' /\ SeenInv' /\ ActiveIsAvailable'
  BY <1>1, <1>3 DEF IInv, OneSystemToolset, SeenInv, ActiveIsAvailable,
                    SystemToolsets, Existing
<1>5. ASSUME NEW c \in Clients
      PROVE  (RoleInv(c) /\ KeepInv(c) /\ WholeInv(c) /\ OfferInv(c))'
  BY <1>1 DEF IInv, RoleInv, KeepInv, WholeInv, OfferInv, Offered
<1>6. QED
  BY <1>2, <1>4, <1>5 DEF IInv

\* After a reset there is no toolset, and what clients remember is of none.
LEMMA ResetStep ==
    ASSUME IInv, Reset
    PROVE  IInv'
<1>1. /\ UNCHANGED <<role, pc, seen, reply, offers>>
      /\ toolsets' = [i \in Ids |-> NoRow]
      /\ catalog' = [t \in Tools |-> "gone"]
  BY DEF Reset
<1>2. NoRow.status = "none" /\ NoRow.revision = 0
  BY DEF NoRow
<1>3. TypeOK'
  BY <1>1 DEF IInv, TypeOK
<1>4. Existing' = {} /\ SystemToolsets' = {}
  BY <1>1, <1>2 DEF Existing, SystemToolsets, Statuses
<1>5. OneSystemToolset' /\ SeenInv' /\ ActiveIsAvailable'
  BY <1>1, <1>4 DEF IInv, OneSystemToolset, SeenInv, ActiveIsAvailable
<1>6. ASSUME NEW c \in Clients PROVE KeepInv(c)'
  <2>1. \A i \in DOMAIN seen[c] :
           /\ toolsets'[i].revision = 0 /\ seen[c][i].row.revision # 0
    BY <1>1, <1>2, SeenIs
  <2>2. QED
    BY <1>1, <2>1 DEF KeepInv
<1>7. ASSUME NEW c \in Clients
      PROVE  (RoleInv(c) /\ WholeInv(c) /\ OfferInv(c))'
  BY <1>1 DEF IInv, RoleInv, WholeInv, OfferInv, Offered
<1>8. QED
  BY <1>3, <1>5, <1>6, <1>7 DEF IInv

\* ... every step keeps it so, ...
LEMMA ToolsetStep == IInv /\ [Next]_vars => IInv'
<1> SUFFICES ASSUME IInv, [Next]_vars PROVE IInv'
  OBVIOUS
<1>1. CASE UNCHANGED vars
  <2>1. UNCHANGED <<toolsets, catalog, role, pc, seen, reply, offers>>
    BY <1>1 DEF vars, dbVars
  <2>2. TypeOK' /\ SeenInv' /\ OneSystemToolset' /\ ActiveIsAvailable'
    BY <2>1 DEF IInv, TypeOK, SeenInv, OneSystemToolset, ActiveIsAvailable,
                SystemToolsets, Existing, Available
  <2>3. ASSUME NEW c \in Clients
        PROVE  (RoleInv(c) /\ KeepInv(c) /\ WholeInv(c) /\ OfferInv(c))'
    BY <2>1 DEF IInv, RoleInv, KeepInv, WholeInv, OfferInv, Offered
  <2>4. QED
    BY <2>2, <2>3 DEF IInv
<1>2. ASSUME NEW c \in Clients, ClientStep(c) PROVE IInv'
  <2>1. CASE \E i \in Ids : ReadMembers(c, i) \/ ReadGrants(c, i)
    BY <2>1, MembersRead, GrantsRead
  <2>2. CASE \/ \E i \in Ids : GetToolset(c, i)
             \/ Reread(c)
             \/ \E slug \in Slugs : ReceiveScoped(c, slug)
             \/ ReceiveRoot(c)
    BY <2>2, FirstReads
  <2>3. CASE \/ Refused(c) \/ Look(c) \/ InsertConflicts(c) \/ ListPublished(c)
             \/ \E slug \in Slugs : NotFound(c, slug)
    BY <2>3, PlainSteps
  <2>4. CASE Insert(c) \/ \E i \in Ids : SaveGrants(c, i)
    BY <2>4, WriteSteps
  <2>5. CASE Close(c)
    BY <2>5, CloseStep
  <2>6. QED
    BY <1>2, <2>1, <2>2, <2>3, <2>4, <2>5 DEF ClientStep
<1>3. QED
  BY <1>1, <1>2, WriteSteps, PublishStep, ResetStep DEF Next

\* ... so it holds in every reachable state.
THEOREM ToolsetInvariance == Spec => []IInv
BY ToolsetInit, ToolsetStep, PTL DEF Spec

\* Every variable has its type in every reachable state.
THEOREM ToolsetTypeCorrect == Spec => []TypeOK
<1>1. IInv => TypeOK
  BY DEF IInv
<1>2. QED
  BY <1>1, ToolsetInvariance, PTL

\* There is one system toolset at most, active and without members, no two
\* toolsets share a slug, and what is active has members, all available.
THEOREM ToolsetSoundness == Spec => []ToolsetsAreSound
<1>1. IInv => ToolsetsAreSound
  BY DEF IInv, ToolsetsAreSound
<1>2. QED
  BY <1>1, ToolsetInvariance, PTL

\* Each toolset that a served request used was on offer, at one moment, with
\* exactly the members that it saw.
THEOREM ToolsetAccess == Spec => []AccessWasOffered
<1>1. IInv => AccessWasOffered
  BY DEF IInv, OfferInv, Offered, AccessWasOffered
<1>2. QED
  BY <1>1, ToolsetInvariance, PTL

\* Nobody moves a client but itself.
LEMMA MovesItself ==
    ASSUME IInv, [Next]_vars, NEW c \in Clients, pc'[c] # pc[c]
    PROVE  ClientStep(c) \/ \E i \in Ids : Command(c, i)
<1>a. pc \in [Clients -> Labels]
  BY DEF IInv, TypeOK
<1>b. ASSUME NEW d \in Clients, NEW label, Goto(d, label) PROVE d = c
  BY <1>a, <1>b DEF Goto
<1>1. ASSUME NEW d \in Clients, ClientStep(d) PROVE d = c
  <2>1. \/ \E label : Goto(d, label)
        \/ pc' = pc
    <3>1. CASE \E i \in Ids : ReadGrants(d, i)
      BY <3>1 DEF ReadGrants, LoadFails, Loaded
    <3>2. CASE ~\E i \in Ids : ReadGrants(d, i)
      BY <1>1, <3>2 DEF ClientStep, ReadMembers, GetToolset, Refused, Look,
            Insert, InsertConflicts, Reread, SaveGrants, ReceiveScoped,
            NotFound, ReceiveRoot, ListPublished, Close
    <3>3. QED
      BY <3>1, <3>2
  <2>2. QED
    BY <1>1, <1>b, <2>1
<1>2. ASSUME NEW a \in Clients \union Unseen, NEW i \in Ids, Command(a, i)
      PROVE  a = c
  <2>1. Finishes(a)
    BY <1>2, CommandEffect
  <2>2. QED
    BY <1>b, <2>1 DEF Finishes
<1>3. QED
  BY <1>1, <1>2 DEF Next, CreateToolset, Publish, Reset, vars

\* A client in the middle of a start, or shown a toolset, is done by a command,
\* an insert or a save.
LEMMA DoneBy ==
    ASSUME IInv, [Next]_vars, NEW c \in Clients,
           pc[c] # "done", pc'[c] = "done"
    PROVE  /\ pc[c] = "shown" =>
                 (\E i \in Ids : Command(c, i)) \/ UNCHANGED toolsets
           /\ role[c] = "start" =>
                 Insert(c) \/ \E i \in Ids : SaveGrants(c, i)
<1>a. TypeOK /\ RoleInv(c) /\ pc \in [Clients -> Labels]
  BY DEF IInv, TypeOK
<1>b. ASSUME NEW label, Goto(c, label) PROVE label = "done"
  BY <1>a, <1>b DEF Goto
<1>1. ClientStep(c) \/ \E i \in Ids : Command(c, i)
  BY MovesItself
<1>2. ASSUME NEW i \in Ids, Command(c, i) PROVE pc[c] = "shown"
  BY <1>2, CommandEffect DEF ExpectedRevision
<1>3. CASE ClientStep(c)
  <2>1. ASSUME NEW i \in Ids, ReadGrants(c, i)
        PROVE  pc[c] = "load" /\ role[c] # "start"
    BY <1>a, <1>b, <2>1 DEF ReadGrants, LoadFails, Loaded
  <2>2. ASSUME NEW i \in Ids, ReadMembers(c, i) PROVE FALSE
    BY <2>2 DEF ReadMembers
  <2>3. ASSUME \/ \E i \in Ids : GetToolset(c, i)
               \/ \E slug \in Slugs : ReceiveScoped(c, slug)
               \/ InsertConflicts(c) \/ Close(c)
        PROVE  FALSE
    BY <1>b, <2>3 DEF GetToolset, ReceiveScoped, InsertConflicts, Close
  <2>4. ~Look(c)
    <3>1. (IF SystemToolsets = {} THEN "insert" ELSE "reread") # "done"
      OBVIOUS
    <3>2. QED
      BY <1>b, <3>1 DEF Look
  <2>5. ~ReceiveRoot(c)
    <3>1. (IF GrantedActive = {} THEN "list" ELSE "load") # "done"
      OBVIOUS
    <3>2. QED
      BY <1>b, <3>1 DEF ReceiveRoot
  <2>6. ~Reread(c)
    BY <1>b DEF Reread
  <2>7. ASSUME Refused(c) PROVE pc[c] = "shown" /\ UNCHANGED toolsets
    BY <2>7 DEF Refused, dbVars
  <2>8. ASSUME NEW slug \in Slugs, NotFound(c, slug) PROVE pc[c] = "idle"
    BY <2>8 DEF NotFound, Begin
  <2>9. ASSUME ListPublished(c) PROVE pc[c] = "list"
    BY <2>9 DEF ListPublished
  <2>10. ASSUME Insert(c) PROVE pc[c] = "insert"
    BY <2>10 DEF Insert
  <2>11. ASSUME NEW i \in Ids, SaveGrants(c, i) PROVE pc[c] = "save"
    BY <2>11 DEF SaveGrants
  <2>12. /\ pc[c] \in {"idle", "shown", "list"} => role[c] # "start"
    BY <1>a DEF RoleInv
  <2>13. QED
    BY <1>3, <2>1, <2>2, <2>3, <2>4, <2>5, <2>6, <2>7, <2>8, <2>9, <2>10, <2>11,
       <2>12 DEF ClientStep
<1>4. CASE \E i \in Ids : Command(c, i)
  <2>1. pc[c] = "shown"
    BY <1>2, <1>4
  <2>2. role[c] = "admin"
    BY <1>a, <2>1 DEF RoleInv
  <2>3. QED
    BY <1>4, <2>2
<1>5. QED
  BY <1>1, <1>3, <1>4

\* A command replaces what its administrator was shown.
LEMMA ShownIsReplaced == IInv /\ [Next]_vars => NoLostUpdate
<1> SUFFICES ASSUME IInv, [Next]_vars, NEW c \in Clients, NEW i \in Ids,
                    pc[c] = "shown", pc'[c] = "done", toolsets'[i] # toolsets[i]
             PROVE  toolsets[i] = [seen[c][i].row EXCEPT
                                      !.members = seen[c][i].members,
                                      !.grants = seen[c][i].grants]
  BY DEF NoLostUpdate
<1>1. PICK j \in Ids : Command(c, j)
  BY DoneBy
<1>2. ExpectedRevision(c, j)
  BY <1>1, CommandEffect
<1>3. PICK new \in Toolsets : Edit(j, new) /\ Write(j, new)
  BY <1>1, CommandEffect
<1>4. \A k \in Ids : k # j => toolsets'[k] = toolsets[k]
  BY <1>3, WriteEffect DEF IInv
<1>5. i = j
  BY <1>4
<1>6. /\ i \in Existing /\ i \in DOMAIN seen[c]
      /\ toolsets[i].revision = seen[c][i].row.revision
  BY <1>2, <1>5 DEF ExpectedRevision
<1>7. toolsets[i] \in Toolsets
  BY <1>6, RowIs DEF IInv
<1>8. /\ seen[c][i].row = [toolsets[i] EXCEPT !.grants = {}]
      /\ seen[c][i].members = toolsets[i].members
      /\ seen[c][i].grants = toolsets[i].grants
  <2>1. seen[c][i].next = "none"
    BY <1>6 DEF IInv, WholeInv
  <2>2. QED
    BY <1>6, <2>1 DEF IInv, KeepInv
<1>9. QED
  BY <1>7, <1>8 DEF Toolsets

\* A start adds its grants to those there are.
LEMMA StartAppends == IInv /\ [Next]_vars => EnsureAppends
<1> SUFFICES ASSUME IInv, [Next]_vars, NEW c \in Clients, role[c] = "start",
                    pc[c] # "done", pc'[c] = "done"
             PROVE  \E i \in Ids :
                       /\ toolsets'[i].kind = "all_published"
                       /\ (toolsets[i].grants \union ServicePrincipals)
                              \subseteq toolsets'[i].grants
  BY DEF EnsureAppends
<1>1. CASE Insert(c)
  <2> DEFINE new == SystemToolset(ServicePrincipals)
  <2>1. PICK i \in Ids : Create(i, new) /\ Write(i, new)
    BY <1>1, InsertEffect
  <2>2. /\ new \in Toolsets /\ new.kind = "all_published"
        /\ new.grants = ServicePrincipals
    BY SystemToolsetIs, DataAssumption
  <2> HIDE DEF new
  <2>3. toolsets'[i] = new
    BY <2>1, <2>2, WriteEffect DEF IInv
  <2>4. toolsets[i] = NoRow
    BY <2>1, RowIs DEF IInv, Create, Fresh
  <2>5. toolsets[i].grants = {}
    BY <2>4 DEF NoRow
  <2>6. QED
    BY <2>2, <2>3, <2>5
<1>2. ASSUME NEW i \in Ids, SaveGrants(c, i)
      PROVE  /\ toolsets'[i].kind = "all_published"
             /\ (toolsets[i].grants \union ServicePrincipals)
                    \subseteq toolsets'[i].grants
  <2>a. pc \in [Clients -> Labels]
    BY DEF IInv, TypeOK
  <2>1. /\ pc[c] = "save" /\ i \in DOMAIN seen[c]
        /\ toolsets[i].revision = seen[c][i].row.revision
        /\ toolsets[i] \in Toolsets
    BY <1>2, <2>a, SaveEffect DEF Goto
  <2>2. /\ seen[c][i].row = [toolsets[i] EXCEPT !.grants = {}]
        /\ seen[c][i].grants = toolsets[i].grants
        /\ seen[c][i].row.kind = "all_published"
    <3>1. /\ seen[c][i].next = "none"
          /\ seen[c][i].row.kind = "all_published"
      BY <2>1 DEF IInv, WholeInv
    <3>2. QED
      BY <2>1, <3>1 DEF IInv, KeepInv
  <2>3. toolsets[i].kind = "all_published"
    BY <2>1, <2>2 DEF Toolsets
  <2>4. CASE toolsets' = toolsets /\ ServicePrincipals \subseteq seen[c][i].grants
    BY <2>2, <2>3, <2>4
  <2>5. ASSUME NEW new \in Toolsets, Write(i, new),
               new.kind = toolsets[i].kind,
               new.grants = seen[c][i].grants \union ServicePrincipals
        PROVE  /\ toolsets'[i].kind = "all_published"
               /\ (toolsets[i].grants \union ServicePrincipals)
                      \subseteq toolsets'[i].grants
    <3>1. toolsets'[i] = new
      BY <2>5, WriteEffect DEF IInv
    <3>2. QED
      BY <2>2, <2>3, <2>5, <3>1
  <2>6. QED
    BY <1>2, <2>a, <2>4, <2>5, SaveEffect DEF Goto
<1>3. QED
  BY <1>1, <1>2, DoneBy

\* No edit is lost, whoever edits at the same time.
THEOREM ToolsetEdits == Spec => EditsAreKept
<1>1. IInv /\ [Next]_vars => [NoLostUpdate /\ EnsureAppends]_vars
  BY ShownIsReplaced, StartAppends
<1>2. QED
  BY <1>1, ToolsetInvariance, PTL DEF Spec, EditsAreKept
=============================================================================
