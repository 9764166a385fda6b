------------------------ MODULE EntityRegistryProofs ------------------------
(***************************************************************************)
(* Proofs about EntityRegistry, for any threads, addresses and numbers of  *)
(* entities and events: the safety properties the run entity_registry      *)
(* checks.                                                                 *)
(***************************************************************************)
EXTENDS EntityRegistry, SequenceTheorems, TLAPS

Statuses == {"creating", "ready", "destroying", "gone"}

-----------------------------------------------------------------------------
(* The inductive invariant.                                                 *)

Live(i) == entities[i].status \in {"creating", "ready"}

\* The hook of entity i has inserted its entry, or has decided not to.
Past(i) ==
  \/ entities[i].status = "ready"
  \/ \E t \in Threads : pc[t] = "announce" /\ arg[t] = i

\* The destroy hook of entity i has sent what it sends.
Departed(i) ==
  \/ entities[i].status = "gone"
  \/ \E t \in Threads : pc[t] = "remove" /\ arg[t] = i

\* What a thread knows inside a hook; it found its node under the node's own
\* name.
ThreadInv(t) ==
  /\ pc[t] # "idle" => arg[t] \in Created
  /\ pc[t] \in {"lookup", "insert", "announce"} =>
       entities[arg[t]].status = "creating"
  /\ pc[t] \in {"farewell", "remove"} => entities[arg[t]].status = "destroying"
  /\ pc[t] = "publishing" => entities[arg[t]].status = "ready"
  /\ pc[t] = "lookup" => entities[arg[t]].kind # "node"
  /\ pc[t] \in {"insert", "announce"} =>
       /\ entities[arg[t]].supported
       /\ entities[arg[t]].kind # "node" =>
            node_state[t].timeline = entities[arg[t]].node

\* The thread runs a create or destroy hook.
InHook(t) == pc[t] \notin {"idle", "publishing"}

\* Nobody else runs such a hook for the same entity, or publishes on it.
Alone ==
  \A t, u \in Threads :
    t # u /\ InHook(t) /\ pc[u] # "idle" => arg[t] # arg[u]

\* A node stands for itself; the node of a live endpoint is in use.
NodeInv(i) ==
  /\ entities[i].node \in Created
  /\ entities[entities[i].node].kind = "node"
  /\ entities[i].kind = "node" => entities[i].node = i /\ entities[i].supported
  /\ entities[i].kind # "node" /\ Live(i) =>
       entities[entities[i].node].status = "ready"

\* Live entities have addresses of their own.
Apart ==
  \A i, j \in Created :
    Live(i) /\ Live(j) /\ i # j => entities[i].address # entities[j].address

\* Entities of one kind that share an address without one being gone have
\* collided.
Marked ==
  \A i, j \in Created :
    /\ i # j
    /\ entities[i].status # "gone" /\ entities[j].status # "gone"
    /\ entities[i].kind = entities[j].kind
    /\ entities[i].address = entities[j].address
    => i \in collided

\* An entry was made for an entity of that place that is not gone, and names
\* the timeline of that entity's node.
EntryInv(k, a) ==
  registry[k][a] # NoEntry =>
    LET i == registry[k][a].of
    IN /\ i \in Created
       /\ entities[i].kind = k /\ entities[i].address = a
       /\ entities[i].status # "gone"
       /\ entities[i].supported
       /\ registry[k][a].timeline = entities[i].node

\* Neither the entity's node nor, for a node, anything else kept its hook from
\* finding the node.
NodeWasFound(i) == entities[i].node \notin collided \/ entities[i].kind = "node"

OwnEntry(i) ==
  Past(i) /\ entities[i].supported /\ NodeWasFound(i) /\ Found(i) # NoEntry =>
    Found(i).of = i

HasEntry(i) ==
  Past(i) /\ entities[i].supported /\ Undisturbed(i) => Found(i) # NoEntry

\* What was sent, seen from now.
MessageInv(m) ==
  /\ m \in Messages
  /\ m.entity \in Created
  /\ /\ m.what # "destroy"
     /\ entities[m.entity].supported
     /\ NodeWasFound(m.entity)
     => m.timeline = entities[m.entity].node /\ m.schema = m.entity
  /\ m.schema \in Created
  /\ entities[m.schema].supported
  /\ m.schema # m.entity =>
       /\ entities[m.schema].kind = entities[m.entity].kind
       /\ entities[m.schema].address = entities[m.entity].address
       /\ m.entity \in collided /\ m.schema \in collided
  /\ entities[m.entity].status # "creating"
  /\ m.what = "destroy" => Departed(m.entity)

\* What a thread holds was captured by a publish of its own: the one it is in,
\* or one that failed; and it is not about an entity whose destruction the
\* thread has sent.
HeldInv(t) ==
  lcm[t] # NoCapture =>
    /\ MessageInv(lcm[t])
    /\ lcm[t].thread = t
    /\ lcm[t].what \in {"publish", "failed_publish"}
    /\ lcm[t].what = "publish" => pc[t] = "publishing" /\ arg[t] = lcm[t].entity
    /\ \A n \in 1 .. Len(sent) :
         sent[n].what = "destroy" /\ sent[n].thread = t =>
           sent[n].entity # lcm[t].entity

\* m may be sent when n has been.
MayFollow(m, n) ==
  n.entity = m.entity =>
    /\ m.what # "create"
    /\ n.what = "destroy" => m.what = "failed_publish" /\ m.thread # n.thread

Ordered ==
  \A m, n \in 1 .. Len(sent) : m < n => MayFollow(sent[n], sent[m])

Types ==
  /\ entities \in Seq(Entity) /\ Len(entities) <= MaxEntities
  /\ registry \in [Kinds -> [Addresses -> Entry \cup {NoEntry}]]
  /\ pc \in [Threads -> Steps]
  /\ arg \in [Threads -> Ids \cup {0}]
  /\ node_state \in [Threads -> Entry \cup {NoEntry}]
  /\ lcm \in [Threads -> Messages \cup {NoCapture}]
  /\ collided \subseteq Ids

World ==
  /\ \A i \in Created : NodeInv(i)
  /\ Apart
  /\ Marked

Registered ==
  /\ \A k \in Kinds, a \in Addresses : EntryInv(k, a)
  /\ \A i \in Created : OwnEntry(i) /\ HasEntry(i)

Reported ==
  /\ sent \in Seq(Messages)
  /\ \A n \in 1 .. Len(sent) : MessageInv(sent[n])
  /\ \A t \in Threads : HeldInv(t)
  /\ Ordered

IInv ==
  /\ Types
  /\ \A t \in Threads : ThreadInv(t)
  /\ Alone
  /\ World
  /\ Registered
  /\ Reported

-----------------------------------------------------------------------------
(* How the sequences change.                                                *)

\* What never changes about entity i.
SameEntity(i) ==
  /\ entities'[i].kind = entities[i].kind
  /\ entities'[i].address = entities[i].address
  /\ entities'[i].node = entities[i].node
  /\ entities'[i].supported = entities[i].supported

LEMMA EntityFields ==
  ASSUME Types, NEW i \in Created
  PROVE  /\ entities[i] \in Entity
         /\ entities[i].kind \in Kinds
         /\ entities[i].address \in Addresses
         /\ entities[i].node \in Ids
         /\ entities[i].supported \in BOOLEAN
         /\ entities[i].status \in Statuses
         /\ i \in Ids
         /\ Len(entities) \in Nat
  <1>1. entities \in Seq(Entity) /\ Len(entities) <= MaxEntities /\ i \in 1 .. Len(entities)
    BY DEF Types, Created
  <1>2. Len(entities) \in Nat
    BY <1>1, LenProperties
  <1>3. entities[i] \in Entity
    BY <1>1, <1>2, ElementOfSeq
  <1>4. i \in Ids
    BY <1>1, <1>2, BoundsAssumption DEF Ids
  <1> QED BY <1>2, <1>3, <1>4 DEF Entity, Statuses

LEMMA StatusChange ==
  ASSUME Types, NEW i \in Created, NEW s \in Statuses,
         entities' = [entities EXCEPT ![i].status = s]
  PROVE  /\ entities' \in Seq(Entity)
         /\ Len(entities') = Len(entities)
         /\ Created' = Created
         /\ \A j \in Created : SameEntity(j)
         /\ entities'[i].status = s
         /\ \A j \in Created : j # i => entities'[j].status = entities[j].status
  <1>1. /\ entities \in Seq(Entity)
        /\ Len(entities) \in Nat
        /\ DOMAIN entities = 1 .. Len(entities)
        /\ i \in 1 .. Len(entities)
        /\ entities[i] \in Entity
    BY EntityFields, LenProperties DEF Types, Created
  <1> DEFINE e == [entities[i] EXCEPT !.status = s]
  <1>2. /\ e \in Entity
        /\ e.kind = entities[i].kind /\ e.address = entities[i].address
        /\ e.node = entities[i].node /\ e.supported = entities[i].supported
        /\ e.status = s
    BY <1>1 DEF Entity, Statuses
  <1>3. entities' = [entities EXCEPT ![i] = e]
    OBVIOUS
  <1> HIDE DEF e
  <1>4. entities' \in Seq(Entity) /\ Len(entities') = Len(entities)
        /\ DOMAIN entities' = DOMAIN entities
    BY <1>1, <1>2, <1>3, ExceptSeq
  <1>5. entities'[i] = e /\ \A j \in Created : j # i => entities'[j] = entities[j]
    BY <1>1, <1>3 DEF Created
  <1>6. Created' = Created
    BY <1>4 DEF Created
  <1> QED BY <1>2, <1>4, <1>5, <1>6 DEF SameEntity

LEMMA EntityAdded ==
  ASSUME Types, NEW e \in Entity, entities' = Append(entities, e)
  PROVE  /\ entities' \in Seq(Entity)
         /\ Len(entities) \in Nat
         /\ Len(entities') = Len(entities) + 1
         /\ Created' = Created \cup {Len(entities) + 1}
         /\ Len(entities) + 1 \notin Created
         /\ entities'[Len(entities) + 1] = e
         /\ \A j \in Created : entities'[j] = entities[j]
  <1>1. entities \in Seq(Entity) /\ Len(entities) \in Nat
    BY LenProperties DEF Types
  <1>2. /\ entities' \in Seq(Entity)
        /\ Len(entities') = Len(entities) + 1
        /\ \A j \in 1 .. Len(entities) : entities'[j] = entities[j]
        /\ entities'[Len(entities) + 1] = e
    BY <1>1, AppendProperties
  <1> QED BY <1>1, <1>2 DEF Created

\* What is true of a message stays true as long as entities only move on.
LEMMA MessagesLast ==
  ASSUME IInv, NEW m, MessageInv(m),
         Created \subseteq Created', collided \subseteq collided',
         \A i \in Created : SameEntity(i),
         entities'[m.entity].status = "creating" => entities[m.entity].status = "creating",
         Departed(m.entity) => Departed(m.entity)'
  PROVE  MessageInv(m)'
  <1>1. /\ m.entity \in Created /\ m.schema \in Created
        /\ SameEntity(m.entity) /\ SameEntity(m.schema)
    BY DEF MessageInv
  <1>2. NodeWasFound(m.entity)' => NodeWasFound(m.entity)
    BY <1>1 DEF NodeWasFound, SameEntity
  <1> QED BY <1>1, <1>2 DEF MessageInv, SameEntity

\* What a thread holds stays true while it is held, and nothing is sent about
\* a destruction by the thread that holds it.
LEMMA HeldLast ==
  ASSUME IInv, NEW t \in Threads, lcm'[t] \in {lcm[t], NoCapture},
         \A m : MessageInv(m) => MessageInv(m)',
         pc[t] = "publishing" => pc'[t] = pc[t] /\ arg'[t] = arg[t],
         \A n \in 1 .. Len(sent') :
           \/ n \in 1 .. Len(sent) /\ sent'[n] = sent[n]
           \/ sent'[n].what # "destroy" \/ sent'[n].thread # t \/ lcm[t] = NoCapture
  PROVE  HeldInv(t)'
  <1> SUFFICES ASSUME lcm'[t] # NoCapture
               PROVE  HeldInv(t)'
    BY DEF HeldInv
  <1>1. PICK m : m = lcm[t] /\ m = lcm'[t] /\ m # NoCapture
    OBVIOUS
  <1>2. /\ MessageInv(lcm[t])
        /\ m.thread = t
        /\ m.what \in {"publish", "failed_publish"}
        /\ m.what = "publish" => pc[t] = "publishing" /\ arg[t] = m.entity
        /\ \A n \in 1 .. Len(sent) :
             sent[n].what = "destroy" /\ sent[n].thread = t => sent[n].entity # m.entity
    <2>1. HeldInv(t) /\ lcm[t] # NoCapture
      BY <1>1 DEF IInv, Reported
    <2>2. /\ MessageInv(lcm[t])
          /\ lcm[t].thread = t
          /\ lcm[t].what \in {"publish", "failed_publish"}
          /\ lcm[t].what = "publish" => pc[t] = "publishing" /\ arg[t] = lcm[t].entity
          /\ \A n \in 1 .. Len(sent) :
               sent[n].what = "destroy" /\ sent[n].thread = t =>
                 sent[n].entity # lcm[t].entity
      BY <2>1 DEF HeldInv
    <2> QED BY <1>1, <2>2
  <1>3. MessageInv(m)'
    <2>1. MessageInv(m)
      BY <1>1, <1>2 DEF MessageInv
    <2> QED BY <2>1
  <1>4. MessageInv(lcm[t])'
    BY <1>1, <1>3 DEF MessageInv
  <1>5. \A n \in 1 .. Len(sent') :
          sent'[n].what = "destroy" /\ sent'[n].thread = t => sent'[n].entity # m.entity
    BY <1>1, <1>2
  <1> QED BY <1>1, <1>2, <1>4, <1>5 DEF HeldInv

LEMMA NothingSent ==
  ASSUME IInv, UNCHANGED <<sent, lcm>>,
         \A t \in Threads : pc[t] = "publishing" => pc'[t] = pc[t] /\ arg'[t] = arg[t],
         \A m : MessageInv(m) => MessageInv(m)'
  PROVE  Reported'
  <1>1. \A t \in Threads : HeldInv(t)'
    BY HeldLast
  <1> QED BY <1>1 DEF IInv, Reported, Ordered

\* One more message, from a hook that found no capture or from the clock hook
\* that takes the capture.
LEMMA OneSent ==
  ASSUME IInv, NEW new \in Messages, sent' = Append(sent, new),
         \A m : MessageInv(m) => MessageInv(m)',
         \A t \in Threads : pc[t] = "publishing" => pc'[t] = pc[t] /\ arg'[t] = arg[t],
         \A t \in Threads : lcm'[t] \in {lcm[t], NoCapture},
         new.what = "destroy" => lcm[new.thread] = NoCapture,
         MessageInv(new)',
         \A n \in 1 .. Len(sent) : MayFollow(new, sent[n])
  PROVE  Reported'
  <1>1. sent \in Seq(Messages) /\ Len(sent) \in Nat
    BY LenProperties DEF IInv, Reported
  <1>2. /\ sent' \in Seq(Messages)
        /\ Len(sent') = Len(sent) + 1
        /\ \A n \in 1 .. Len(sent) : sent'[n] = sent[n]
        /\ sent'[Len(sent) + 1] = new
    BY <1>1, AppendProperties
  <1>3. (\A n \in 1 .. Len(sent) : MessageInv(sent[n]))'
    <2> SUFFICES ASSUME NEW n \in 1 .. Len(sent')
                 PROVE  MessageInv(sent[n])'
      OBVIOUS
    <2>1. n \in 1 .. Len(sent) \/ n = Len(sent) + 1
      BY <1>1, <1>2
    <2>2. PICK m : m = sent'[n] /\ MessageInv(m)'
      <3>1. CASE n \in 1 .. Len(sent)
        <4>1. PICK m : m = sent[n] /\ MessageInv(m)
          BY <3>1 DEF IInv, Reported
        <4> QED BY <4>1, <3>1, <1>2
      <3>2. CASE n = Len(sent) + 1
        BY <3>2, <1>2
      <3> QED BY <2>1, <3>1, <3>2
    <2> QED BY <2>2 DEF MessageInv
  <1>4. Ordered'
    <2> SUFFICES ASSUME NEW m \in 1 .. Len(sent'), NEW n \in 1 .. Len(sent'), m < n
                 PROVE  MayFollow(sent'[n], sent'[m])
      BY DEF Ordered, MayFollow
    <2>1. m \in 1 .. Len(sent) /\ (n \in 1 .. Len(sent) \/ n = Len(sent) + 1)
      BY <1>1, <1>2
    <2>2. CASE n \in 1 .. Len(sent)
      BY <2>1, <2>2, <1>2 DEF IInv, Reported, Ordered
    <2>3. CASE n = Len(sent) + 1
      BY <2>1, <2>3, <1>2
    <2> QED BY <2>1, <2>2, <2>3
  <1>5. \A t \in Threads : HeldInv(t)'
    <2> SUFFICES ASSUME NEW t \in Threads
                 PROVE  HeldInv(t)'
      OBVIOUS
    <2>1. ASSUME NEW n \in 1 .. Len(sent')
          PROVE  \/ n \in 1 .. Len(sent) /\ sent'[n] = sent[n]
                 \/ sent'[n].what # "destroy" \/ sent'[n].thread # t \/ lcm[t] = NoCapture
      <3>1. n \in 1 .. Len(sent) \/ n = Len(sent) + 1
        BY <1>1, <1>2
      <3> QED BY <1>2, <3>1
    <2> QED BY <2>1, HeldLast
  <1> QED BY <1>2, <1>3, <1>4, <1>5 DEF Reported

-----------------------------------------------------------------------------
(* What every step keeps.                                                   *)

\* The entry a hook finds is its own, unless the entity has collided.
LEMMA FoundEntry ==
  ASSUME IInv, NEW i \in Created, Found(i) # NoEntry
  PROVE  /\ Found(i) \in Entry
         /\ Found(i).of \in Created
         /\ entities[Found(i).of].supported
         /\ Found(i).timeline = entities[Found(i).of].node
         /\ entities[i].status # "gone" /\ i \notin collided => Found(i).of = i
         /\ entities[i].status # "gone" /\ Found(i).of # i =>
              /\ entities[Found(i).of].kind = entities[i].kind
              /\ entities[Found(i).of].address = entities[i].address
              /\ i \in collided /\ Found(i).of \in collided
  <1>1. entities[i].kind \in Kinds /\ entities[i].address \in Addresses
    BY EntityFields DEF IInv
  <1>2. Found(i) \in Entry
    BY <1>1 DEF IInv, Types, Found
  <1>3. EntryInv(entities[i].kind, entities[i].address)
    BY <1>1 DEF IInv, Registered
  <1>4. entities[i].status # "gone" /\ i \notin collided => Found(i).of = i
    BY <1>3 DEF EntryInv, Found, IInv, World, Marked
  <1>5. entities[i].status # "gone" /\ Found(i).of # i =>
          /\ entities[Found(i).of].kind = entities[i].kind
          /\ entities[Found(i).of].address = entities[i].address
          /\ i \in collided /\ Found(i).of \in collided
    BY <1>3 DEF EntryInv, Found, IInv, World, Marked
  <1> QED BY <1>2, <1>3, <1>4, <1>5 DEF EntryInv, Found

LEMMA EntriesLast ==
  ASSUME IInv, UNCHANGED registry, Created \subseteq Created',
         \A i \in Created : SameEntity(i),
         \A i \in Created : entities[i].status # "gone" => entities'[i].status # "gone"
  PROVE  \A k \in Kinds, a \in Addresses : EntryInv(k, a)'
  BY DEF IInv, Registered, EntryInv, SameEntity

LEMMA KnownLast ==
  ASSUME IInv, NEW i \in Created, UNCHANGED registry, collided \subseteq collided',
         SameEntity(i), Past(i)' => Past(i)
  PROVE  OwnEntry(i)' /\ HasEntry(i)'
  BY DEF IInv, Registered, OwnEntry, HasEntry, SameEntity, Found, NodeWasFound, Undisturbed

LEMMA OthersLast ==
  ASSUME NEW u \in Threads, ThreadInv(u), Created \subseteq Created',
         \A i \in Created : SameEntity(i),
         pc'[u] = pc[u], arg'[u] = arg[u], node_state'[u] = node_state[u],
         pc[u] # "idle" => entities'[arg[u]].status = entities[arg[u]].status
  PROVE  ThreadInv(u)'
  BY DEF ThreadInv, SameEntity

LEMMA AloneLast ==
  ASSUME Alone, NEW t \in Threads,
         \A u \in Threads : u # t => pc'[u] = pc[u] /\ arg'[u] = arg[u],
         pc'[t] = "idle" \/ (InHook(t) /\ arg'[t] = arg[t])
  PROVE  Alone'
  BY DEF Alone, InHook

\* A creation that is complete and a destruction that is complete leave the
\* world in order.
LEMMA WorldLast ==
  ASSUME IInv, NEW i \in Created, NEW s \in Statuses,
         entities' = [entities EXCEPT ![i].status = s],
         UNCHANGED collided,
         \/ entities[i].status = "creating" /\ s = "ready"
         \/ entities[i].status = "destroying" /\ s = "gone"
  PROVE  World'
  <1>1. /\ Created' = Created
        /\ \A j \in Created : SameEntity(j)
        /\ entities'[i].status = s
        /\ \A j \in Created : j # i => entities'[j].status = entities[j].status
    BY StatusChange DEF IInv
  <1>2. \A j \in Created : Live(j)' => Live(j)
    BY <1>1 DEF Live
  <1>3. \A j \in Created : entities[j].status = "ready" => entities'[j].status = "ready"
    BY <1>1
  <1>4. \A j \in Created : NodeInv(j)'
    <2> SUFFICES ASSUME NEW j \in Created PROVE NodeInv(j)'
      OBVIOUS
    <2>1. NodeInv(j)
      BY DEF IInv, World
    <2>2. entities'[j].node = entities[j].node /\ entities[j].node \in Created
      BY <1>1, <2>1 DEF NodeInv, SameEntity
    <2> QED BY <1>1, <1>2, <1>3, <2>1, <2>2 DEF NodeInv, SameEntity
  <1>5. Apart'
    BY <1>1, <1>2 DEF IInv, World, Apart, SameEntity
  <1>6. Marked'
    BY <1>1 DEF IInv, World, Marked, SameEntity
  <1> QED BY <1>1, <1>4, <1>5, <1>6 DEF World

-----------------------------------------------------------------------------
(* The real functions.                                                      *)

LEMMA RealCreateStep ==
  ASSUME IInv, NEW t \in Threads, NEW kind \in Kinds, NEW address \in Addresses,
         NEW node \in Ids, NEW supported \in BOOLEAN,
         RealCreate(t, kind, address, node, supported)
  PROVE  IInv'
  <1>0. PICK new : new = Len(entities) + 1
    OBVIOUS
  <1> DEFINE e == [kind |-> kind, address |-> address, node |-> node,
                   supported |-> supported, status |-> "creating"]
             others == {i \in With({"destroying"}) :
                          entities[i].kind = kind /\ entities[i].address = address}
  <1>1. /\ pc[t] = "idle"
        /\ Len(entities) < MaxEntities
        /\ \A i \in With({"creating", "ready"}) : entities[i].address # address
        /\ IF kind = "node" THEN node = new /\ supported
           ELSE node \in With({"ready"}) /\ entities[node].kind = "node"
        /\ entities' = Append(entities, e)
        /\ arg' = [arg EXCEPT ![t] = new]
        /\ pc' = [pc EXCEPT ![t] = IF kind = "node" THEN "insert" ELSE "lookup"]
        /\ collided' = IF others = {} THEN collided ELSE collided \cup others \cup {new}
        /\ UNCHANGED <<registry, node_state, lcm, sent>>
    BY <1>0 DEF RealCreate
  <1>2. e \in Entity /\ Types
    BY DEF Entity, IInv
  <1>3. /\ e.kind = kind /\ e.address = address /\ e.node = node
        /\ e.supported = supported /\ e.status = "creating"
    OBVIOUS
  <1> HIDE DEF e
  <1>4. /\ entities' \in Seq(Entity)
        /\ Len(entities) \in Nat
        /\ Len(entities') = new
        /\ Created' = Created \cup {new}
        /\ new \notin Created
        /\ entities'[new] = e
        /\ \A j \in Created : entities'[j] = entities[j]
    BY <1>0, <1>1, <1>2, EntityAdded
  <1>5. new \in Ids
    BY <1>0, <1>1, <1>4, BoundsAssumption DEF Ids
  <1>6. \A i \in Created : SameEntity(i) /\ i \in Ids
    BY <1>2, <1>4, EntityFields DEF SameEntity
  <1>7. collided \subseteq collided' /\ others \subseteq Created
    BY <1>1 DEF With
  <1>8. \A u \in Threads : u # t => pc'[u] = pc[u] /\ arg'[u] = arg[u]
    BY <1>1, <1>2 DEF Types
  <1>9. pc'[t] = (IF kind = "node" THEN "insert" ELSE "lookup") /\ arg'[t] = new
    BY <1>1, <1>2 DEF Types
  <1>10. Types'
    <2>1. Len(entities') <= MaxEntities
      BY <1>0, <1>1, <1>4, BoundsAssumption
    <2>2. pc' \in [Threads -> Steps] /\ arg' \in [Threads -> Ids \cup {0}]
      BY <1>1, <1>2, <1>5 DEF Types, Steps
    <2>3. collided' \subseteq Ids
      BY <1>1, <1>2, <1>5, <1>6, <1>7 DEF Types
    <2> QED BY <1>1, <1>2, <1>4, <2>1, <2>2, <2>3 DEF Types
  <1> HIDE DEF others
  <1>11. \A u \in Threads : ThreadInv(u)'
    <2>1. ASSUME NEW u \in Threads, u # t
          PROVE  ThreadInv(u)'
      <3>1. ThreadInv(u)
        BY DEF IInv
      <3>2. pc[u] # "idle" => arg[u] \in Created
        BY <3>1 DEF ThreadInv
      <3> QED BY <1>1, <1>4, <1>6, <1>8, <2>1, <3>1, <3>2, OthersLast
    <2>2. ThreadInv(t)'
      BY <1>1, <1>3, <1>4, <1>9 DEF ThreadInv
    <2> QED BY <2>1, <2>2
  <1>12. Alone'
    <2>1. ASSUME NEW u \in Threads, u # t, pc'[u] # "idle"
          PROVE  arg'[u] # arg'[t]
      <3>1. arg[u] \in Created
        BY <1>8, <2>1 DEF IInv, ThreadInv
      <3> QED BY <1>4, <1>8, <1>9, <2>1, <3>1
    <2> QED BY <1>8, <2>1 DEF Alone, InHook, IInv
  <1>13. \A i \in Created' : NodeInv(i)'
    <2>1. ASSUME NEW i \in Created
          PROVE  NodeInv(i)'
      <3>1. NodeInv(i) /\ entities[i].node \in Created
        BY DEF IInv, World, NodeInv
      <3> QED BY <1>4, <3>1 DEF NodeInv, Live
    <2>2. NodeInv(new)'
      <3>1. CASE kind = "node"
        BY <1>1, <1>3, <1>4, <3>1 DEF NodeInv
      <3>2. CASE kind # "node"
        BY <1>1, <1>3, <1>4, <3>2 DEF NodeInv, With
      <3> QED BY <3>1, <3>2
    <2> QED BY <1>4, <2>1, <2>2
  <1>14. Apart'
    <2>1. \A i \in Created : Live(i) => entities[i].address # address
      BY <1>1 DEF With, Live
    <2>2. \A i, j \in Created :
            Live(i)' /\ Live(j)' /\ i # j => entities'[i].address # entities'[j].address
      BY <1>4 DEF IInv, World, Apart, Live
    <2>3. \A i \in Created : Live(i)' => entities'[i].address # entities'[new].address
      BY <1>3, <1>4, <2>1 DEF Live
    <2> QED BY <1>4, <2>2, <2>3 DEF Apart
  <1>15. Marked'
    <2>1. ASSUME NEW i \in Created, NEW j \in Created, i # j,
                 entities'[i].status # "gone", entities'[j].status # "gone",
                 entities'[i].kind = entities'[j].kind,
                 entities'[i].address = entities'[j].address
          PROVE  i \in collided'
      BY <1>4, <1>7, <2>1 DEF IInv, World, Marked
    <2>2. ASSUME NEW i \in Created, entities'[i].status # "gone",
                 entities'[i].kind = kind, entities'[i].address = address
          PROVE  i \in collided' /\ new \in collided'
      <3>1. entities[i].status \in Statuses
        BY <1>2, EntityFields
      <3>2. entities[i].status = "destroying"
        BY <1>1, <1>4, <2>2, <3>1 DEF With, Statuses
      <3>3. i \in others
        BY <1>4, <2>2, <3>2 DEF others, With
      <3> QED BY <1>1, <3>3 DEF others
    <2> QED BY <1>3, <1>4, <2>1, <2>2 DEF Marked
  <1>16. Registered'
    <2>1. \A k \in Kinds, a \in Addresses : EntryInv(k, a)'
      BY <1>1, <1>4, <1>6, EntriesLast
    <2>2. ASSUME NEW i \in Created
          PROVE  OwnEntry(i)' /\ HasEntry(i)'
      <3>1. Past(i)' => Past(i)
        BY <1>4, <1>8, <1>9 DEF Past
      <3> QED BY <1>1, <1>6, <1>7, <3>1, KnownLast
    <2>3. ~Past(new)'
      <3>1. entities'[new].status # "ready"
        BY <1>3, <1>4
      <3>2. \A u \in Threads : pc'[u] = "announce" => arg'[u] # new
        BY <1>4, <1>8, <1>9 DEF IInv, ThreadInv
      <3> QED BY <3>1, <3>2 DEF Past
    <2>4. OwnEntry(new)' /\ HasEntry(new)'
      BY <2>3, <1>5 DEF OwnEntry, HasEntry
    <2> QED BY <1>4, <2>1, <2>2, <2>4 DEF Registered
  <1>17. Reported'
    <2>1. ASSUME NEW m, MessageInv(m)
          PROVE  MessageInv(m)'
      <3>1. m.entity \in Created
        BY <2>1 DEF MessageInv
      <3>2. Departed(m.entity) => Departed(m.entity)'
        BY <1>1, <1>4, <1>8, <3>1 DEF Departed
      <3> QED BY <1>4, <1>6, <1>7, <2>1, <3>1, <3>2, MessagesLast
    <2> QED BY <1>1, <1>8, <2>1, NothingSent
  <1> QED BY <1>10, <1>11, <1>12, <1>13, <1>14, <1>15, <1>16, <1>17 DEF IInv, World

LEMMA RealDestroyStep ==
  ASSUME IInv, NEW t \in Threads, NEW i \in Ids, RealDestroy(t, i)
  PROVE  IInv'
  <1>1. /\ pc[t] = "idle"
        /\ i \in Created /\ entities[i].status = "ready"
        /\ \A j \in With({"creating", "ready"}) : entities[j].node = i => j = i
        /\ \A u \in Threads : ~(pc[u] = "publishing" /\ arg[u] = i)
        /\ entities' = [entities EXCEPT ![i].status = "destroying"]
        /\ arg' = [arg EXCEPT ![t] = i]
        /\ pc' = [pc EXCEPT ![t] = "farewell"]
        /\ UNCHANGED <<registry, node_state, lcm, sent, collided>>
    BY DEF RealDestroy, With
  <1>2. Types
    BY DEF IInv
  <1>3. /\ entities' \in Seq(Entity)
        /\ Len(entities') = Len(entities)
        /\ Created' = Created
        /\ \A j \in Created : SameEntity(j)
        /\ entities'[i].status = "destroying"
        /\ \A j \in Created : j # i => entities'[j].status = entities[j].status
    BY <1>1, <1>2, StatusChange DEF Statuses
  <1>4. \A u \in Threads : u # t => pc'[u] = pc[u] /\ arg'[u] = arg[u]
    BY <1>1, <1>2 DEF Types
  <1>5. pc'[t] = "farewell" /\ arg'[t] = i
    BY <1>1, <1>2 DEF Types
  <1>6. \A u \in Threads : pc[u] # "idle" => arg[u] \in Created /\ arg[u] # i
    <2> SUFFICES ASSUME NEW u \in Threads, pc[u] # "idle"
                 PROVE  arg[u] \in Created /\ arg[u] # i
      OBVIOUS
    <2>1. ThreadInv(u) /\ pc[u] \in Steps
      BY <1>2 DEF IInv, Types
    <2> QED BY <1>1, <2>1 DEF ThreadInv, Steps
  <1>7. Types'
    BY <1>1, <1>2, <1>3 DEF Types, Steps
  <1>8. \A u \in Threads : ThreadInv(u)'
    <2>1. ASSUME NEW u \in Threads, u # t
          PROVE  ThreadInv(u)'
      <3>1. ThreadInv(u)
        BY DEF IInv
      <3> QED BY <1>1, <1>3, <1>4, <1>6, <2>1, <3>1, OthersLast
    <2>2. ThreadInv(t)'
      BY <1>1, <1>3, <1>5 DEF ThreadInv
    <2> QED BY <2>1, <2>2
  <1>9. Alone'
    BY <1>4, <1>5, <1>6 DEF Alone, InHook, IInv
  <1>10. World'
    <2>1. \A j \in Created : Live(j)' => Live(j) /\ j # i
      BY <1>3 DEF Live
    <2>2. ASSUME NEW j \in Created
          PROVE  NodeInv(j)'
      <3>1. NodeInv(j) /\ entities[j].node \in Created
        BY DEF IInv, World, NodeInv
      <3>2. Live(j)' => entities[j].node # i
        BY <1>1, <2>1 DEF With, Live
      <3>3. SameEntity(j) /\ SameEntity(entities[j].node)
        BY <1>3, <3>1
      <3> QED BY <1>3, <2>1, <3>1, <3>2, <3>3 DEF NodeInv, SameEntity
    <2>3. Apart'
      BY <1>3, <2>1 DEF IInv, World, Apart, SameEntity
    <2>4. Marked'
      BY <1>1, <1>3 DEF IInv, World, Marked, SameEntity
    <2> QED BY <1>3, <2>2, <2>3, <2>4 DEF World
  <1>11. Registered'
    <2>1. \A k \in Kinds, a \in Addresses : EntryInv(k, a)'
      BY <1>1, <1>3, EntriesLast
    <2>2. ASSUME NEW j \in Created
          PROVE  OwnEntry(j)' /\ HasEntry(j)'
      <3>1. Past(j)' => Past(j)
        BY <1>3, <1>4, <1>5 DEF Past
      <3> QED BY <1>1, <1>3, <3>1, KnownLast
    <2> QED BY <1>3, <2>1, <2>2 DEF Registered
  <1>12. Reported'
    <2>1. ASSUME NEW m, MessageInv(m)
          PROVE  MessageInv(m)'
      <3>1. m.entity \in Created
        BY <2>1 DEF MessageInv
      <3>2. Departed(m.entity) => Departed(m.entity)'
        BY <1>1, <1>3, <1>4, <3>1 DEF Departed
      <3> QED BY <1>1, <1>3, <2>1, <3>1, <3>2, MessagesLast
    <2> QED BY <1>1, <1>4, <2>1, NothingSent
  <1> QED BY <1>7, <1>8, <1>9, <1>10, <1>11, <1>12 DEF IInv

-----------------------------------------------------------------------------
(* The create hooks.                                                        *)

\* The entity a thread's hook runs for.
LEMMA HookEntity ==
  ASSUME IInv, NEW t \in Threads, pc[t] # "idle"
  PROVE  /\ Types /\ ThreadInv(t)
         /\ arg[t] \in Created /\ arg[t] \in Ids
         /\ entities[arg[t]].kind \in Kinds
         /\ entities[arg[t]].address \in Addresses
         /\ entities[arg[t]].node \in Created
         /\ NodeInv(arg[t])
  <1>1. Types /\ ThreadInv(t) /\ arg[t] \in Created
    BY DEF IInv, ThreadInv
  <1> QED BY <1>1, EntityFields DEF IInv, World, NodeInv

\* A thread goes on to the next step of its hook.
LEMMA GoesOn ==
  ASSUME IInv, NEW t \in Threads, NEW s \in Steps,
         InHook(t), pc' = [pc EXCEPT ![t] = s], UNCHANGED arg
  PROVE  /\ pc' \in [Threads -> Steps] /\ arg' \in [Threads -> Ids \cup {0}]
         /\ pc'[t] = s
         /\ \A u \in Threads : u # t => pc'[u] = pc[u] /\ arg'[u] = arg[u]
         /\ Alone'
  <1>1. /\ pc' \in [Threads -> Steps] /\ arg' \in [Threads -> Ids \cup {0}]
        /\ pc'[t] = s
        /\ \A u \in Threads : u # t => pc'[u] = pc[u] /\ arg'[u] = arg[u]
    BY DEF IInv, Types
  <1> QED BY <1>1, AloneLast DEF IInv

\* Nodes are found: a node in use that has not collided has its entry, and what
\* is found under its address is its own.
LEMMA NodeEntry ==
  ASSUME IInv, NEW i \in Created, entities[i].kind # "node", Live(i)
  PROVE  LET m == entities[i].node
         IN /\ m \in Created
            /\ Found(m) # NoEntry => Found(m).timeline = m /\ Found(m) \in Entry
            /\ m \notin collided => Found(m) # NoEntry
  <1> DEFINE m == entities[i].node
  <1>1. /\ m \in Created /\ entities[m].kind = "node" /\ entities[m].status = "ready"
    BY DEF IInv, World, NodeInv
  <1>2. entities[m].node = m /\ entities[m].supported
    BY <1>1 DEF IInv, World, NodeInv
  <1>3. OwnEntry(m) /\ HasEntry(m) /\ Past(m)
    BY <1>1 DEF IInv, Registered, Past
  <1>4. Found(m) # NoEntry => Found(m).of = m
    BY <1>1, <1>2, <1>3 DEF OwnEntry, NodeWasFound
  <1>5. m \notin collided => Found(m) # NoEntry
    BY <1>2, <1>3 DEF HasEntry, Undisturbed
  <1>6. Found(m) # NoEntry => Found(m).timeline = m /\ Found(m) \in Entry
    BY <1>1, <1>2, <1>4, FoundEntry
  <1> QED BY <1>1, <1>5, <1>6

LEMMA LookupNodeStep ==
  ASSUME IInv, NEW t \in Threads, NEW kind, LookupNode(t, kind)
  PROVE  IInv'
  <1>0. PICK i : i = arg[t]
    OBVIOUS
  <1> DEFINE found == Found(entities[i].node)
  <1>1. /\ pc[t] = "lookup"
        /\ UNCHANGED <<registry, arg, lcm, sent, collided>>
        /\ \/ /\ found = NoEntry \/ ~entities[i].supported
              /\ HandOver(t) /\ UNCHANGED node_state
           \/ /\ found # NoEntry /\ entities[i].supported
              /\ node_state' = [node_state EXCEPT ![t] = found]
              /\ pc' = [pc EXCEPT ![t] = "insert"]
              /\ UNCHANGED entities
    BY <1>0 DEF LookupNode, Running
  <1>2. /\ Types /\ ThreadInv(t) /\ i \in Created
        /\ entities[i].status = "creating" /\ entities[i].kind # "node"
        /\ Live(i)
    BY <1>0, <1>1, HookEntity DEF ThreadInv, Live
  <1>3. /\ found # NoEntry => found.timeline = entities[i].node /\ found \in Entry
        /\ entities[i].node \notin collided => found # NoEntry
    BY <1>2, NodeEntry
  <1> HIDE DEF found
  <1>4. CASE /\ found = NoEntry \/ ~entities[i].supported
             /\ HandOver(t) /\ UNCHANGED node_state
    <2>1. /\ entities' = [entities EXCEPT ![i].status = "ready"]
          /\ pc' = [pc EXCEPT ![t] = "idle"]
      BY <1>0, <1>4 DEF HandOver
    <2>2. /\ pc' \in [Threads -> Steps] /\ arg' \in [Threads -> Ids \cup {0}]
          /\ pc'[t] = "idle"
          /\ \A u \in Threads : u # t => pc'[u] = pc[u] /\ arg'[u] = arg[u]
          /\ Alone'
      BY <1>1, <2>1, GoesOn DEF Steps, InHook
    <2>3. /\ entities' \in Seq(Entity)
          /\ Len(entities') = Len(entities)
          /\ Created' = Created
          /\ \A j \in Created : SameEntity(j)
          /\ entities'[i].status = "ready"
          /\ \A j \in Created : j # i => entities'[j].status = entities[j].status
      BY <1>2, <2>1, StatusChange DEF Statuses
    <2>4. Types'
      BY <1>1, <1>2, <1>4, <2>2, <2>3 DEF Types
    <2>5. World'
      BY <1>1, <1>2, <2>1, WorldLast DEF Statuses
    <2>6. \A u \in Threads : ThreadInv(u)'
      <3>1. ASSUME NEW u \in Threads, u # t
            PROVE  ThreadInv(u)'
        <4>1. pc[u] # "idle" => arg[u] \in Created /\ arg[u] # i
          BY <1>0, <1>1, <3>1 DEF IInv, ThreadInv, Alone, InHook
        <4>2. ThreadInv(u)
          BY DEF IInv
        <4> QED BY <1>4, <2>2, <2>3, <3>1, <4>1, <4>2, OthersLast
      <3>2. ThreadInv(t)'
        BY <2>2 DEF ThreadInv
      <3> QED BY <3>1, <3>2
    <2>7. Registered'
      <3>1. \A k \in Kinds, a \in Addresses : EntryInv(k, a)'
        BY <1>1, <2>3, EntriesLast
      <3>2. ASSUME NEW j \in Created, j # i
            PROVE  OwnEntry(j)' /\ HasEntry(j)'
        <4>1. Past(j)' => Past(j)
          BY <2>2, <2>3, <3>2 DEF Past
        <4> QED BY <1>1, <2>3, <4>1, KnownLast
      <3>3. ~(entities'[i].supported /\ entities'[i].node \notin collided')
        BY <1>1, <1>2, <1>3, <1>4, <2>3 DEF SameEntity
      <3>4. OwnEntry(i)' /\ HasEntry(i)'
        BY <1>2, <2>3, <3>3 DEF OwnEntry, HasEntry, Undisturbed, NodeWasFound, SameEntity
      <3> QED BY <2>3, <3>1, <3>2, <3>4 DEF Registered
    <2>8. Reported'
      <3>1. ASSUME NEW m, MessageInv(m)
            PROVE  MessageInv(m)'
        <4>1. m.entity \in Created /\ m.entity # i
          BY <1>2, <3>1 DEF MessageInv
        <4>2. Departed(m.entity) => Departed(m.entity)'
          BY <1>1, <2>2, <2>3, <4>1 DEF Departed
        <4> QED BY <1>1, <2>3, <3>1, <4>1, <4>2, MessagesLast
      <3> QED BY <1>1, <2>2, <3>1, NothingSent
    <2> QED BY <2>2, <2>4, <2>5, <2>6, <2>7, <2>8 DEF IInv
  <1>5. CASE /\ found # NoEntry /\ entities[i].supported
             /\ node_state' = [node_state EXCEPT ![t] = found]
             /\ pc' = [pc EXCEPT ![t] = "insert"]
             /\ UNCHANGED entities
    <2>1. /\ pc' \in [Threads -> Steps] /\ arg' \in [Threads -> Ids \cup {0}]
          /\ pc'[t] = "insert"
          /\ \A u \in Threads : u # t => pc'[u] = pc[u] /\ arg'[u] = arg[u]
          /\ Alone'
      BY <1>1, <1>5, GoesOn DEF Steps, InHook
    <2>2. Created' = Created /\ \A j \in Created : SameEntity(j)
      BY <1>5 DEF Created, SameEntity
    <2>3. /\ node_state' \in [Threads -> Entry \cup {NoEntry}]
          /\ node_state'[t] = found
          /\ \A u \in Threads : u # t => node_state'[u] = node_state[u]
      BY <1>2, <1>3, <1>5 DEF Types
    <2>4. Types'
      BY <1>1, <1>2, <1>5, <2>1, <2>3 DEF Types
    <2>5. World'
      BY <1>1, <1>5, <2>2 DEF IInv, World, NodeInv, Apart, Marked, Live
    <2>6. \A u \in Threads : ThreadInv(u)'
      <3>1. ASSUME NEW u \in Threads, u # t
            PROVE  ThreadInv(u)'
        BY <1>5, <2>1, <2>2, <2>3, <3>1, OthersLast DEF IInv
      <3>2. ThreadInv(t)'
        BY <1>0, <1>1, <1>2, <1>3, <1>5, <2>1, <2>2, <2>3 DEF ThreadInv
      <3> QED BY <3>1, <3>2
    <2>7. Registered'
      <3>1. \A k \in Kinds, a \in Addresses : EntryInv(k, a)'
        BY <1>1, <1>5, <2>2, EntriesLast
      <3>2. ASSUME NEW j \in Created
            PROVE  OwnEntry(j)' /\ HasEntry(j)'
        <4>1. Past(j)' => Past(j)
          BY <1>5, <2>1 DEF Past
        <4> QED BY <1>1, <2>2, <4>1, KnownLast
      <3> QED BY <2>2, <3>1, <3>2 DEF Registered
    <2>8. Reported'
      <3>1. ASSUME NEW m, MessageInv(m)
            PROVE  MessageInv(m)'
        <4>1. Departed(m.entity) => Departed(m.entity)'
          BY <1>1, <1>5, <2>1 DEF Departed
        <4> QED BY <1>1, <1>5, <2>2, <3>1, <4>1, MessagesLast
      <3> QED BY <1>1, <2>1, <3>1, NothingSent
    <2> QED BY <2>1, <2>4, <2>5, <2>6, <2>7, <2>8 DEF IInv
  <1> QED BY <1>1, <1>4, <1>5

LEMMA MessageFields ==
  ASSUME NEW t \in Threads, NEW what \in Occurrences, NEW i \in Ids, NEW entry \in Entry
  PROVE  /\ Message(t, what, i, entry) \in Messages
         /\ Message(t, what, i, entry).thread = t
         /\ Message(t, what, i, entry).what = what
         /\ Message(t, what, i, entry).entity = i
         /\ Message(t, what, i, entry).timeline = entry.timeline
         /\ Message(t, what, i, entry).schema = entry.of
  BY DEF Message, Messages, Entry

\* The entry a create hook makes is its entity's own.
LEMMA NewEntryIsOwn ==
  ASSUME IInv, NEW t \in Threads, NEW kind,
         pc[t] \in {"insert", "announce"}, entities[arg[t]].kind = kind
  PROVE  /\ NewEntry(t, kind) \in Entry /\ NewEntry(t, kind) # NoEntry
         /\ NewEntry(t, kind).of = arg[t]
         /\ NewEntry(t, kind).timeline = entities[arg[t]].node
         /\ entities[arg[t]].supported /\ entities[arg[t]].status = "creating"
  <1>1. /\ Types /\ ThreadInv(t) /\ NodeInv(arg[t])
        /\ arg[t] \in Created /\ arg[t] \in Ids
        /\ entities[arg[t]].node \in Created
    BY HookEntity
  <1>2. entities[arg[t]].node \in Ids
    BY <1>1, EntityFields
  <1>3. /\ entities[arg[t]].supported /\ entities[arg[t]].status = "creating"
        /\ kind # "node" => node_state[t].timeline = entities[arg[t]].node
        /\ kind = "node" => entities[arg[t]].node = arg[t]
    BY <1>1 DEF ThreadInv, NodeInv
  <1>4. arg[t] # 0
    BY <1>1 DEF Created
  <1> QED BY <1>1, <1>2, <1>3, <1>4 DEF NewEntry, NoEntry, Entry

\* An entity whose create hook has run its course, but not its destroy hook,
\* holds its address.
LEMMA PastIsLive ==
  ASSUME IInv, NEW i \in Created, Past(i)
  PROVE  Live(i)
  BY DEF IInv, ThreadInv, Past, Live

LEMMA InsertStep ==
  ASSUME IInv, NEW t \in Threads, NEW kind, Insert(t, kind)
  PROVE  IInv'
  <1>0. PICK i, new, a : i = arg[t] /\ new = NewEntry(t, kind) /\ a = entities[i].address
    OBVIOUS
  <1>1. /\ pc[t] = "insert" /\ entities[i].kind = kind
        /\ registry' = [registry EXCEPT ![kind][a] = new]
        /\ pc' = [pc EXCEPT ![t] = "announce"]
        /\ UNCHANGED <<entities, arg, node_state, lcm, sent, collided>>
    BY <1>0 DEF Insert, Running
  <1>2. /\ Types /\ ThreadInv(t) /\ i \in Created
        /\ kind \in Kinds /\ a \in Addresses
    BY <1>0, <1>1, HookEntity
  <1>3. /\ new \in Entry /\ new # NoEntry
        /\ new.of = i /\ new.timeline = entities[i].node
        /\ entities[i].supported /\ entities[i].status = "creating"
    BY <1>0, <1>1, NewEntryIsOwn
  <1>4. /\ pc' \in [Threads -> Steps] /\ arg' \in [Threads -> Ids \cup {0}]
        /\ pc'[t] = "announce" /\ arg'[t] = i
        /\ \A u \in Threads : u # t => pc'[u] = pc[u] /\ arg'[u] = arg[u]
        /\ Alone'
    BY <1>0, <1>1, GoesOn DEF Steps, InHook
  <1>5. Created' = Created /\ \A j \in Created : SameEntity(j)
    BY <1>1 DEF Created, SameEntity
  <1>6. /\ registry' \in [Kinds -> [Addresses -> Entry \cup {NoEntry}]]
        /\ registry'[kind][a] = new
        /\ \A k \in Kinds, b \in Addresses :
             k # kind \/ b # a => registry'[k][b] = registry[k][b]
    <2>1. registry \in [Kinds -> [Addresses -> Entry \cup {NoEntry}]]
      BY <1>2 DEF Types
    <2>2. registry[kind] \in [Addresses -> Entry \cup {NoEntry}]
      BY <1>2, <2>1
    <2>3. [registry[kind] EXCEPT ![a] = new] \in [Addresses -> Entry \cup {NoEntry}]
      BY <1>3, <2>2
    <2> QED BY <1>1, <1>2, <1>3, <2>1, <2>2, <2>3
  <1>7. Types'
    BY <1>1, <1>2, <1>4, <1>6 DEF Types
  <1>8. World'
    BY <1>1, <1>5 DEF IInv, World, NodeInv, Apart, Marked, Live
  <1>9. \A u \in Threads : ThreadInv(u)'
    <2>1. ASSUME NEW u \in Threads, u # t
          PROVE  ThreadInv(u)'
      BY <1>1, <1>4, <1>5, <2>1, OthersLast DEF IInv
    <2>2. ThreadInv(t)'
      BY <1>0, <1>1, <1>2, <1>3, <1>4, <1>5 DEF ThreadInv
    <2> QED BY <2>1, <2>2
  <1>10. Registered'
    <2>1. ASSUME NEW k \in Kinds, NEW b \in Addresses
          PROVE  EntryInv(k, b)'
      <3>1. CASE k = kind /\ b = a
        BY <1>0, <1>1, <1>2, <1>3, <1>5, <1>6, <3>1 DEF EntryInv
      <3>2. CASE k # kind \/ b # a
        BY <1>1, <1>5, <1>6, <3>2 DEF IInv, Registered, EntryInv
      <3> QED BY <3>1, <3>2
    <2>2. ASSUME NEW j \in Created, j # i
          PROVE  OwnEntry(j)' /\ HasEntry(j)'
      <3>1. Past(j)' => Past(j)
        BY <1>1, <1>4, <2>2 DEF Past
      <3>2. ASSUME Past(j)
            PROVE  Found(j)' = Found(j)
        <4>1. entities[j].address # a
          BY <1>0, <1>2, <1>3, <2>2, <3>2, PastIsLive DEF IInv, World, Apart, Live
        <4>2. entities[j].kind \in Kinds /\ entities[j].address \in Addresses
          BY <1>2, EntityFields
        <4> QED BY <1>1, <1>6, <4>1, <4>2 DEF Found
      <3>3. OwnEntry(j) /\ HasEntry(j)
        BY DEF IInv, Registered
      <3>4. /\ NodeWasFound(j)' => NodeWasFound(j)
            /\ Undisturbed(j)' => Undisturbed(j)
            /\ entities'[j].supported = entities[j].supported
        BY <1>1 DEF NodeWasFound, Undisturbed
      <3> QED BY <3>1, <3>2, <3>3, <3>4 DEF OwnEntry, HasEntry
    <2>3. OwnEntry(i)' /\ HasEntry(i)'
      <3>1. Found(i)' = new
        BY <1>0, <1>1, <1>6 DEF Found
      <3> QED BY <1>3, <3>1 DEF OwnEntry, HasEntry
    <2> QED BY <1>5, <2>1, <2>2, <2>3 DEF Registered
  <1>11. Reported'
    <2>1. ASSUME NEW m, MessageInv(m)
          PROVE  MessageInv(m)'
      <3>1. Departed(m.entity) => Departed(m.entity)'
        BY <1>1, <1>4 DEF Departed
      <3> QED BY <1>1, <1>5, <2>1, <3>1, MessagesLast
    <2> QED BY <1>1, <1>4, <2>1, NothingSent
  <1> QED BY <1>4, <1>7, <1>8, <1>9, <1>10, <1>11 DEF IInv

\* A hook ends, and entity i is in use or gone.
Ends(t, i, s) ==
  /\ i = arg[t] /\ InHook(t)
  /\ entities' = [entities EXCEPT ![i].status = s]
  /\ pc' = [pc EXCEPT ![t] = "idle"]
  /\ UNCHANGED <<arg, node_state, lcm, collided>>
  /\ \/ entities[i].status = "creating" /\ s = "ready"
     \/ entities[i].status = "destroying" /\ s = "gone"

\* What that changes and what it keeps.
Ended(t, i, s) ==
  /\ Created' = Created
  /\ \A j \in Created : SameEntity(j)
  /\ entities'[i].status = s
  /\ \A j \in Created : j # i => entities'[j].status = entities[j].status
  /\ pc'[t] = "idle"
  /\ \A u \in Threads : u # t => pc'[u] = pc[u]
  /\ registry' \in [Kinds -> [Addresses -> Entry \cup {NoEntry}]] => Types'
  /\ \A u \in Threads : ThreadInv(u)'
  /\ Alone'
  /\ World'
  /\ \A m : MessageInv(m) => MessageInv(m)'

\* What the end of a hook keeps, whatever it leaves in the registry.
LEMMA HookEnds ==
  ASSUME IInv, NEW t \in Threads, NEW i, NEW s \in Statuses, Ends(t, i, s)
  PROVE  Ended(t, i, s)
  <1> USE DEF Ends, InHook
  <1>1. Types /\ ThreadInv(t) /\ i \in Created
    BY HookEntity
  <1>2. /\ entities' \in Seq(Entity)
        /\ Len(entities') = Len(entities)
        /\ Created' = Created
        /\ \A j \in Created : SameEntity(j)
        /\ entities'[i].status = s
        /\ \A j \in Created : j # i => entities'[j].status = entities[j].status
    BY <1>1, StatusChange
  <1>3. /\ pc' \in [Threads -> Steps] /\ arg' \in [Threads -> Ids \cup {0}]
        /\ pc'[t] = "idle"
        /\ \A u \in Threads : u # t => pc'[u] = pc[u] /\ arg'[u] = arg[u]
        /\ Alone'
    BY GoesOn DEF Steps, InHook
  <1>4. registry' \in [Kinds -> [Addresses -> Entry \cup {NoEntry}]] => Types'
    BY <1>1, <1>2, <1>3 DEF Types
  <1>5. World'
    BY <1>1, WorldLast
  <1>6. \A u \in Threads : ThreadInv(u)'
    <2>1. ASSUME NEW u \in Threads, u # t
          PROVE  ThreadInv(u)'
      <3>1. pc[u] # "idle" => arg[u] \in Created /\ arg[u] # i
        BY <2>1 DEF IInv, ThreadInv, Alone, InHook
      <3>2. ThreadInv(u)
        BY DEF IInv
      <3> QED BY <1>2, <1>3, <2>1, <3>1, <3>2, OthersLast
    <2>2. ThreadInv(t)'
      BY <1>3 DEF ThreadInv
    <2> QED BY <2>1, <2>2
  <1>7. ASSUME NEW m, MessageInv(m)
        PROVE  MessageInv(m)'
    <2>1. m.entity \in Created /\ entities[m.entity].status # "creating"
      BY <1>7 DEF MessageInv
    <2>2. entities'[m.entity].status # "creating"
      BY <1>2, <2>1
    <2>3. ASSUME Departed(m.entity)
          PROVE  Departed(m.entity)'
      <3>1. CASE entities[m.entity].status = "gone"
        BY <1>2, <2>1, <3>1 DEF Departed
      <3>2. CASE entities[m.entity].status # "gone"
        <4>1. PICK u \in Threads : pc[u] = "remove" /\ arg[u] = m.entity
          BY <2>3, <3>2 DEF Departed
        <4>2. CASE u = t
          BY <1>2, <2>1, <4>1, <4>2 DEF Departed
        <4>3. CASE u # t
          BY <1>3, <4>1, <4>3 DEF Departed
        <4> QED BY <4>2, <4>3
      <3> QED BY <3>1, <3>2
    <2> QED BY <1>2, <1>7, <2>2, <2>3, MessagesLast
  <1> QED BY <1>2, <1>3, <1>4, <1>5, <1>6, <1>7 DEF Ended

LEMMA AnnounceStep ==
  ASSUME IInv, NEW t \in Threads, NEW kind, Announce(t, kind)
  PROVE  IInv'
  <1>0. PICK i, new : i = arg[t] /\ new = Message(t, "create", i, NewEntry(t, kind))
    OBVIOUS
  <1>1. /\ pc[t] = "announce" /\ entities[i].kind = kind
        /\ sent' = Append(sent, new)
        /\ entities' = [entities EXCEPT ![i].status = "ready"]
        /\ pc' = [pc EXCEPT ![t] = "idle"]
        /\ UNCHANGED <<registry, arg, node_state, lcm, collided>>
    BY <1>0 DEF Announce, Running, HandOver
  <1>2. /\ Types /\ i \in Created /\ i \in Ids
    BY <1>0, <1>1, HookEntity
  <1>3. /\ new \in Messages /\ new.what = "create" /\ new.entity = i
        /\ new.timeline = entities[i].node /\ new.schema = i
        /\ entities[i].supported /\ entities[i].status = "creating"
    <2>1. /\ NewEntry(t, kind) \in Entry
          /\ NewEntry(t, kind).of = i
          /\ NewEntry(t, kind).timeline = entities[i].node
          /\ entities[i].supported /\ entities[i].status = "creating"
      BY <1>0, <1>1, NewEntryIsOwn
    <2>2. "create" \in Occurrences
      BY DEF Occurrences
    <2> QED BY <1>0, <1>2, <2>1, <2>2, MessageFields
  <1>4. /\ Created' = Created
        /\ \A j \in Created : SameEntity(j)
        /\ entities'[i].status = "ready"
        /\ \A j \in Created : j # i => entities'[j].status = entities[j].status
        /\ pc'[t] = "idle"
        /\ \A u \in Threads : u # t => pc'[u] = pc[u]
        /\ registry' \in [Kinds -> [Addresses -> Entry \cup {NoEntry}]] => Types'
        /\ \A u \in Threads : ThreadInv(u)'
        /\ Alone'
        /\ World'
        /\ \A m : MessageInv(m) => MessageInv(m)'
    <2>1. Ends(t, i, "ready") /\ "ready" \in Statuses
      BY <1>0, <1>1, <1>3 DEF Ends, InHook, Statuses
    <2>2. Ended(t, i, "ready")
      BY <2>1, HookEnds
    <2> QED BY <2>2 DEF Ended
  <1>5. Types'
    BY <1>1, <1>2, <1>4 DEF Types
  <1>6. Registered'
    <2>1. \A k \in Kinds, a \in Addresses : EntryInv(k, a)'
      BY <1>1, <1>4, EntriesLast
    <2>2. ASSUME NEW j \in Created
          PROVE  OwnEntry(j)' /\ HasEntry(j)'
      <3>1. Past(j)' => Past(j)
        BY <1>0, <1>1, <1>4 DEF Past
      <3> QED BY <1>1, <1>4, <3>1, KnownLast
    <2> QED BY <1>4, <2>1, <2>2 DEF Registered
  <1>7. Reported'
    <2>1. MessageInv(new)'
      BY <1>2, <1>3, <1>4 DEF MessageInv, SameEntity
    <2>2. \A n \in 1 .. Len(sent) : MayFollow(new, sent[n])
      BY <1>3 DEF IInv, Reported, MessageInv, MayFollow
    <2> QED BY <1>1, <1>3, <1>4, <2>1, <2>2, OneSent
  <1> QED BY <1>4, <1>5, <1>6, <1>7 DEF IInv

-----------------------------------------------------------------------------
(* The destroy hooks and the hooks on use.                                  *)

LEMMA FarewellStep ==
  ASSUME IInv, NEW t \in Threads, NEW kind, Farewell(t, kind)
  PROVE  IInv'
  <1>0. PICK i, new : i = arg[t] /\ new = Message(t, "destroy", i, Found(i))
    OBVIOUS
  <1>1. /\ pc[t] = "farewell" /\ entities[i].kind = kind
        /\ IF Found(i) = NoEntry THEN UNCHANGED sent
           ELSE lcm[t] = NoCapture /\ sent' = Append(sent, new)
        /\ pc' = [pc EXCEPT ![t] = "remove"]
        /\ UNCHANGED <<entities, registry, arg, node_state, lcm, collided>>
    BY <1>0 DEF Farewell, Running
  <1>2. /\ Types /\ ThreadInv(t) /\ i \in Created /\ i \in Ids
        /\ entities[i].status = "destroying"
    BY <1>0, <1>1, HookEntity DEF ThreadInv
  <1>4. /\ pc' \in [Threads -> Steps] /\ arg' \in [Threads -> Ids \cup {0}]
        /\ pc'[t] = "remove" /\ arg'[t] = i
        /\ \A u \in Threads : u # t => pc'[u] = pc[u] /\ arg'[u] = arg[u]
        /\ Alone'
    BY <1>0, <1>1, GoesOn DEF Steps, InHook
  <1>5. Created' = Created /\ \A j \in Created : SameEntity(j)
    BY <1>1 DEF Created, SameEntity
  <1>7. Types'
    BY <1>1, <1>2, <1>4 DEF Types
  <1>8. World'
    BY <1>1, <1>5 DEF IInv, World, NodeInv, Apart, Marked, Live
  <1>9. \A u \in Threads : ThreadInv(u)'
    <2>1. ASSUME NEW u \in Threads, u # t
          PROVE  ThreadInv(u)'
      BY <1>1, <1>4, <1>5, <2>1, OthersLast DEF IInv
    <2>2. ThreadInv(t)'
      BY <1>1, <1>2, <1>4, <1>5 DEF ThreadInv
    <2> QED BY <2>1, <2>2
  <1>10. Registered'
    <2>1. \A k \in Kinds, a \in Addresses : EntryInv(k, a)'
      BY <1>1, <1>5, EntriesLast
    <2>2. ASSUME NEW j \in Created
          PROVE  OwnEntry(j)' /\ HasEntry(j)'
      <3>1. Past(j)' => Past(j)
        BY <1>1, <1>4 DEF Past
      <3> QED BY <1>1, <1>5, <3>1, KnownLast
    <2> QED BY <1>5, <2>1, <2>2 DEF Registered
  <1>11. \A m : MessageInv(m) => MessageInv(m)'
    <2> SUFFICES ASSUME NEW m, MessageInv(m)
                 PROVE  MessageInv(m)'
      OBVIOUS
    <2>1. Departed(m.entity) => Departed(m.entity)'
      BY <1>1, <1>4 DEF Departed
    <2> QED BY <1>1, <1>5, <2>1, MessagesLast
  <1>12. Reported'
    <2>1. CASE Found(i) = NoEntry
      BY <1>1, <1>4, <1>11, <2>1, NothingSent
    <2>2. CASE Found(i) # NoEntry
      <3>1. /\ Found(i) \in Entry
            /\ entities[Found(i).of].supported
            /\ Found(i).of \in Created
            /\ Found(i).of # i =>
                 /\ entities[Found(i).of].kind = entities[i].kind
                 /\ entities[Found(i).of].address = entities[i].address
                 /\ i \in collided /\ Found(i).of \in collided
        BY <1>2, <2>2, FoundEntry
      <3>2. /\ new \in Messages /\ new.what = "destroy" /\ new.entity = i
            /\ new.thread = t /\ new.schema = Found(i).of
        <4>1. "destroy" \in Occurrences
          BY DEF Occurrences
        <4> QED BY <1>0, <1>2, <3>1, <4>1, MessageFields
      <3>3. Departed(i)'
        BY <1>4 DEF Departed
      <3>4. MessageInv(new)'
        BY <1>1, <1>2, <1>5, <3>1, <3>2, <3>3 DEF MessageInv
      <3>5. ~Departed(i)
        BY <1>0, <1>1, <1>2 DEF Departed, IInv, Alone, InHook
      <3>6. \A n \in 1 .. Len(sent) : MayFollow(new, sent[n])
        BY <3>2, <3>5 DEF IInv, Reported, MessageInv, MayFollow
      <3>7. sent' = Append(sent, new) /\ lcm[t] = NoCapture
        BY <1>1, <2>2
      <3> QED BY <1>1, <1>4, <1>11, <3>2, <3>4, <3>6, <3>7, OneSent
    <2> QED BY <2>1, <2>2
  <1> QED BY <1>4, <1>7, <1>8, <1>9, <1>10, <1>12 DEF IInv

LEMMA RemoveStep ==
  ASSUME IInv, NEW t \in Threads, NEW kind, Remove(t, kind)
  PROVE  IInv'
  <1>0. PICK i, a : i = arg[t] /\ a = entities[i].address
    OBVIOUS
  <1>1. /\ pc[t] = "remove" /\ entities[i].kind = kind
        /\ registry' = [registry EXCEPT ![kind][a] = NoEntry]
        /\ entities' = [entities EXCEPT ![i].status = "gone"]
        /\ pc' = [pc EXCEPT ![t] = "idle"]
        /\ UNCHANGED <<arg, node_state, lcm, sent, collided>>
    BY <1>0 DEF Remove, Running
  <1>2. /\ Types /\ i \in Created
        /\ kind \in Kinds /\ a \in Addresses
        /\ entities[i].status = "destroying"
    BY <1>0, <1>1, HookEntity DEF ThreadInv
  <1>4. /\ Created' = Created
        /\ \A j \in Created : SameEntity(j)
        /\ entities'[i].status = "gone"
        /\ \A j \in Created : j # i => entities'[j].status = entities[j].status
        /\ pc'[t] = "idle"
        /\ \A u \in Threads : u # t => pc'[u] = pc[u]
        /\ registry' \in [Kinds -> [Addresses -> Entry \cup {NoEntry}]] => Types'
        /\ \A u \in Threads : ThreadInv(u)'
        /\ Alone'
        /\ World'
        /\ \A m : MessageInv(m) => MessageInv(m)'
    <2>1. Ends(t, i, "gone") /\ "gone" \in Statuses
      BY <1>0, <1>1, <1>2 DEF Ends, InHook, Statuses
    <2>2. Ended(t, i, "gone")
      BY <2>1, HookEnds
    <2> QED BY <2>2 DEF Ended
  <1>6. /\ registry' \in [Kinds -> [Addresses -> Entry \cup {NoEntry}]]
        /\ registry'[kind][a] = NoEntry
        /\ \A k \in Kinds, b \in Addresses :
             k # kind \/ b # a => registry'[k][b] = registry[k][b]
    <2>1. registry \in [Kinds -> [Addresses -> Entry \cup {NoEntry}]]
      BY <1>2 DEF Types
    <2>2. registry[kind] \in [Addresses -> Entry \cup {NoEntry}]
      BY <1>2, <2>1
    <2>3. [registry[kind] EXCEPT ![a] = NoEntry] \in [Addresses -> Entry \cup {NoEntry}]
      BY <2>2
    <2> QED BY <1>1, <1>2, <2>1, <2>2, <2>3
  <1>7. Registered'
    <2>1. ASSUME NEW k \in Kinds, NEW b \in Addresses
          PROVE  EntryInv(k, b)'
      <3>1. CASE k = kind /\ b = a
        BY <1>6, <3>1 DEF EntryInv
      <3>2. CASE k # kind \/ b # a
        <4>1. registry'[k][b] = registry[k][b] /\ EntryInv(k, b)
          BY <1>6, <3>2 DEF IInv, Registered
        <4>2. registry[k][b] # NoEntry =>
                registry[k][b].of \in Created /\ registry[k][b].of # i
          BY <1>0, <1>1, <3>2, <4>1 DEF EntryInv
        <4> QED BY <1>4, <4>1, <4>2 DEF EntryInv, SameEntity
      <3> QED BY <3>1, <3>2
    <2>2. ASSUME NEW j \in Created
          PROVE  OwnEntry(j)' /\ HasEntry(j)'
      <3>1. Past(j)' => Past(j) /\ j # i
        <4>1. \A u \in Threads : pc'[u] = "announce" => u # t /\ pc[u] = "announce"
          BY <1>4
        <4>2. \A u \in Threads : pc[u] = "announce" => arg[u] # i
          BY <1>2 DEF IInv, ThreadInv
        <4> QED BY <1>1, <1>4, <4>1, <4>2 DEF Past
      <3>2. entities[j].kind \in Kinds /\ entities[j].address \in Addresses
        BY <1>2, EntityFields
      <3>3. OwnEntry(j) /\ HasEntry(j)
        BY DEF IInv, Registered
      <3>4. /\ NodeWasFound(j)' => NodeWasFound(j)
            /\ Undisturbed(j)' => Undisturbed(j)
            /\ entities'[j].supported = entities[j].supported
            /\ entities'[j].kind = entities[j].kind
            /\ entities'[j].address = entities[j].address
        BY <1>1, <1>4 DEF NodeWasFound, Undisturbed, SameEntity
      <3>5. CASE entities[j].kind # kind \/ entities[j].address # a
        <4>1. Found(j)' = Found(j)
          BY <1>6, <3>2, <3>4, <3>5 DEF Found
        <4> QED BY <3>1, <3>3, <3>4, <4>1 DEF OwnEntry, HasEntry
      <3>6. CASE entities[j].kind = kind /\ entities[j].address = a
        <4>1. Found(j)' = NoEntry
          BY <1>6, <3>4, <3>6 DEF Found
        <4>2. Past(j)' => j \in collided
          <5>1. ASSUME Past(j)'
                PROVE  j \in collided
            <6>1. entities[j].status # "gone" /\ j # i
              BY <3>1, <5>1, PastIsLive DEF Live
            <6> QED BY <1>0, <1>1, <1>2, <3>6, <6>1 DEF IInv, World, Marked
          <5> QED BY <5>1
        <4> QED BY <1>1, <4>1, <4>2 DEF OwnEntry, HasEntry, Undisturbed
      <3> QED BY <3>5, <3>6
    <2> QED BY <1>4, <2>1, <2>2 DEF Registered
  <1>8. Reported'
    BY <1>1, <1>4, NothingSent
  <1> QED BY <1>4, <1>6, <1>7, <1>8 DEF IInv

\* A thread stays where it is, or begins or ends a publish.
Publishes(t) ==
  \/ pc'[t] = pc[t] /\ arg'[t] = arg[t]
  \/ /\ ~InHook(t)
     /\ \/ pc'[t] = "idle"
        \/ /\ pc'[t] = "publishing"
           /\ arg'[t] \in Created /\ entities[arg'[t]].status = "ready"

\* A step that moves no entity and no hook.
LEMMA Unmoved ==
  ASSUME IInv, UNCHANGED <<entities, registry, node_state, collided>>,
         pc' \in [Threads -> Steps], arg' \in [Threads -> Ids \cup {0}],
         \A t \in Threads : Publishes(t)
  PROVE  /\ lcm' \in [Threads -> Messages \cup {NoCapture}] => Types'
         /\ Alone' /\ World' /\ Registered'
         /\ \A t \in Threads : ThreadInv(t)'
         /\ \A m : MessageInv(m) => MessageInv(m)'
         /\ Created' = Created
  <1>1. Created' = Created /\ \A j \in Created : SameEntity(j)
    BY DEF Created, SameEntity
  <1>2. lcm' \in [Threads -> Messages \cup {NoCapture}] => Types'
    BY DEF IInv, Types
  <1>3. World'
    BY <1>1 DEF IInv, World, NodeInv, Apart, Marked, Live
  <1>4. \A t \in Threads : ThreadInv(t)'
    <2> SUFFICES ASSUME NEW t \in Threads
                 PROVE  ThreadInv(t)'
      OBVIOUS
    <2>1. CASE pc'[t] = pc[t] /\ arg'[t] = arg[t]
      BY <1>1, <2>1, OthersLast DEF IInv
    <2>2. CASE pc'[t] = "idle"
      BY <2>2 DEF ThreadInv
    <2>3. CASE /\ pc'[t] = "publishing"
               /\ arg'[t] \in Created /\ entities[arg'[t]].status = "ready"
      BY <1>1, <2>3 DEF ThreadInv
    <2> QED BY <2>1, <2>2, <2>3 DEF Publishes
  <1>5. \A t \in Threads :
          pc'[t] \notin {"idle", "publishing"} => pc[t] = pc'[t] /\ arg[t] = arg'[t]
    BY DEF Publishes
  <1>6. Alone'
    <2> SUFFICES ASSUME NEW t \in Threads, NEW u \in Threads, t # u,
                        InHook(t)', pc'[u] # "idle"
                 PROVE  arg'[t] # arg'[u]
      BY DEF Alone
    <2>1. InHook(t) /\ arg'[t] = arg[t]
      BY <1>5 DEF InHook
    <2>2. CASE pc'[u] = pc[u] /\ arg'[u] = arg[u]
      BY <2>1, <2>2 DEF IInv, Alone
    <2>3. CASE entities[arg'[u]].status = "ready"
      <3>1. ThreadInv(t) /\ pc[t] \in Steps
        BY DEF IInv, Types
      <3> QED BY <2>1, <2>3, <3>1 DEF ThreadInv, InHook, Steps
    <2> QED BY <2>2, <2>3 DEF Publishes
  <1>7. \A m : MessageInv(m) => MessageInv(m)'
    <2> SUFFICES ASSUME NEW m, MessageInv(m)
                 PROVE  MessageInv(m)'
      OBVIOUS
    <2>1. Departed(m.entity) => Departed(m.entity)'
      BY DEF Departed, Publishes, InHook
    <2> QED BY <1>1, <2>1, MessagesLast
  <1>8. Registered'
    <2>1. \A k \in Kinds, a \in Addresses : EntryInv(k, a)'
      BY <1>1, EntriesLast
    <2>2. ASSUME NEW j \in Created
          PROVE  OwnEntry(j)' /\ HasEntry(j)'
      <3>1. Past(j)' => Past(j)
        BY <1>5 DEF Past
      <3> QED BY <1>1, <3>1, KnownLast
    <2> QED BY <1>1, <2>1, <2>2 DEF Registered
  <1> QED BY <1>1, <1>2, <1>3, <1>4, <1>6, <1>7, <1>8

\* What a hook on use makes of the entry it finds for an entity in use.
LEMMA UsedEntry ==
  ASSUME IInv, NEW t \in Threads, NEW what \in Occurrences \ {"create", "destroy"},
         NEW i \in Created, entities[i].status = "ready", Found(i) # NoEntry,
         NEW new, new = Message(t, what, i, Found(i))
  PROVE  /\ new \in Messages /\ new.thread = t /\ new.what = what /\ new.entity = i
         /\ MessageInv(new)
         /\ \A n \in 1 .. Len(sent) : MayFollow(new, sent[n])
  <1>1. /\ Found(i) \in Entry
        /\ Found(i).of \in Created
        /\ entities[Found(i).of].supported
        /\ Found(i).timeline = entities[Found(i).of].node
        /\ Found(i).of # i =>
             /\ entities[Found(i).of].kind = entities[i].kind
             /\ entities[Found(i).of].address = entities[i].address
             /\ i \in collided /\ Found(i).of \in collided
    BY FoundEntry
  <1>2. entities[i].supported /\ NodeWasFound(i) => Found(i).of = i
    BY DEF IInv, Registered, OwnEntry, Past
  <1>3. i \in Ids
    BY EntityFields DEF IInv
  <1>4. /\ new \in Messages /\ new.thread = t /\ new.what = what /\ new.entity = i
        /\ new.timeline = Found(i).timeline /\ new.schema = Found(i).of
    BY <1>1, <1>3, MessageFields
  <1>5. MessageInv(new)
    BY <1>1, <1>2, <1>4 DEF MessageInv
  <1>6. ~Departed(i)
    BY DEF Departed, IInv, ThreadInv
  <1>7. \A n \in 1 .. Len(sent) : MayFollow(new, sent[n])
    BY <1>4, <1>6 DEF IInv, Reported, MessageInv, MayFollow
  <1> QED BY <1>4, <1>5, <1>7

LEMMA UseStep ==
  ASSUME IInv, NEW t \in Threads, NEW kind, NEW i \in Ids,
         NEW what \in Uses, Use(t, kind, what, i)
  PROVE  IInv'
  <1>0. PICK new : new = Message(t, what, i, Found(i))
    OBVIOUS
  <1>1. /\ i \in Created /\ entities[i].status = "ready"
        /\ Found(i) # NoEntry
        /\ sent' = Append(sent, new)
        /\ UNCHANGED <<entities, registry, pc, arg, node_state, lcm, collided>>
    BY <1>0 DEF Use, With
  <1>2. /\ Types' /\ Alone' /\ World' /\ Registered'
        /\ \A u \in Threads : ThreadInv(u)'
        /\ \A m : MessageInv(m) => MessageInv(m)'
    BY <1>1, Unmoved DEF Publishes, IInv, Types
  <1>3. what \in Occurrences /\ what # "create" /\ what # "destroy"
    BY DEF Uses, Occurrences
  <1>4. /\ new \in Messages /\ new.what = what
        /\ MessageInv(new)
        /\ \A n \in 1 .. Len(sent) : MayFollow(new, sent[n])
    BY <1>0, <1>1, <1>3, UsedEntry
  <1>5. Reported'
    BY <1>1, <1>2, <1>3, <1>4, OneSent
  <1> QED BY <1>2, <1>5 DEF IInv

-----------------------------------------------------------------------------
(* Publishing.                                                              *)

LEMMA PublishStep ==
  ASSUME IInv, NEW t \in Threads, NEW i \in Ids, modality_before_rmw_publish(t, i)
  PROVE  IInv'
  <1>0. PICK new : new = Message(t, "publish", i, Found(i))
    OBVIOUS
  <1>1. /\ pc[t] = "idle"
        /\ i \in Created /\ entities[i].status = "ready"
        /\ Found(i) # NoEntry
        /\ lcm' = [lcm EXCEPT ![t] = new]
        /\ arg' = [arg EXCEPT ![t] = i]
        /\ pc' = [pc EXCEPT ![t] = "publishing"]
        /\ UNCHANGED <<entities, registry, node_state, sent, collided>>
    BY <1>0 DEF modality_before_rmw_publish, With
  <1>2. Types
    BY DEF IInv
  <1>3. /\ new \in Messages /\ new.thread = t /\ new.what = "publish" /\ new.entity = i
        /\ MessageInv(new)
        /\ \A n \in 1 .. Len(sent) : MayFollow(new, sent[n])
    <2>1. "publish" \in Occurrences \ {"create", "destroy"}
      BY DEF Occurrences
    <2> QED BY <1>0, <1>1, <2>1, UsedEntry
  <1>4. /\ pc' \in [Threads -> Steps] /\ arg' \in [Threads -> Ids \cup {0}]
        /\ lcm' \in [Threads -> Messages \cup {NoCapture}]
        /\ pc'[t] = "publishing" /\ arg'[t] = i /\ lcm'[t] = new
        /\ \A u \in Threads :
             u # t => pc'[u] = pc[u] /\ arg'[u] = arg[u] /\ lcm'[u] = lcm[u]
    BY <1>1, <1>2, <1>3 DEF Types, Steps
  <1>5. \A u \in Threads : Publishes(u)
    BY <1>1, <1>4 DEF Publishes, InHook
  <1>6. /\ Types' /\ Alone' /\ World' /\ Registered'
        /\ \A u \in Threads : ThreadInv(u)'
        /\ \A m : MessageInv(m) => MessageInv(m)'
    BY <1>1, <1>4, <1>5, Unmoved
  <1>7. \A u \in Threads : HeldInv(u)'
    <2>1. ASSUME NEW u \in Threads, u # t
          PROVE  HeldInv(u)'
      BY <1>1, <1>4, <1>6, <2>1, HeldLast
    <2>2. HeldInv(t)'
      <3>1. MessageInv(lcm[t])'
        <4>1. MessageInv(new)'
          BY <1>3, <1>6
        <4> QED BY <1>4, <4>1 DEF MessageInv
      <3>2. \A n \in 1 .. Len(sent) :
              sent[n].what = "destroy" => sent[n].entity # i
        BY <1>3 DEF MayFollow
      <3> QED BY <1>1, <1>3, <1>4, <3>1, <3>2 DEF HeldInv
    <2> QED BY <2>1, <2>2
  <1>8. Reported'
    BY <1>1, <1>6, <1>7 DEF IInv, Reported, Ordered
  <1> QED BY <1>6, <1>8 DEF IInv

\* The clock hook may send what the thread holds: a publish under way is of an
\* entity in use; a failed one is of no entity this thread has destroyed.
LEMMA ClockStep ==
  ASSUME IInv, NEW t \in Threads, modality_after_clock_gettime(t)
  PROVE  IInv'
  <1>0. PICK new : new = lcm[t]
    OBVIOUS
  <1>1. /\ new # NoCapture
        /\ sent' = Append(sent, new)
        /\ lcm' = [lcm EXCEPT ![t] = NoCapture]
        /\ UNCHANGED <<entities, registry, pc, arg, node_state, collided>>
    BY <1>0 DEF modality_after_clock_gettime
  <1>2. Types
    BY DEF IInv
  <1>3. /\ lcm' \in [Threads -> Messages \cup {NoCapture}]
        /\ \A u \in Threads : lcm'[u] \in {lcm[u], NoCapture}
        /\ new \in Messages
    BY <1>0, <1>1, <1>2 DEF Types
  <1>4. /\ Types' /\ Alone' /\ World' /\ Registered'
        /\ \A u \in Threads : ThreadInv(u)'
        /\ \A m : MessageInv(m) => MessageInv(m)'
    BY <1>1, <1>2, <1>3, Unmoved DEF Publishes, Types
  <1>5. /\ MessageInv(lcm[t]) /\ new.thread = t
        /\ new.what \in {"publish", "failed_publish"}
        /\ new.what = "publish" => pc[t] = "publishing" /\ arg[t] = new.entity
        /\ \A n \in 1 .. Len(sent) :
             sent[n].what = "destroy" /\ sent[n].thread = t =>
               sent[n].entity # new.entity
    BY <1>0, <1>1 DEF IInv, Reported, HeldInv
  <1>6. MessageInv(new)'
    <2>1. MessageInv(new)
      BY <1>0, <1>5 DEF MessageInv
    <2> QED BY <1>4, <2>1
  <1>7. new.what = "publish" => ~Departed(new.entity)
    <2> SUFFICES ASSUME new.what = "publish"
                 PROVE  ~Departed(new.entity)
      OBVIOUS
    <2>1. entities[new.entity].status = "ready"
      BY <1>5 DEF IInv, ThreadInv
    <2> QED BY <2>1 DEF Departed, IInv, ThreadInv
  <1>8. \A n \in 1 .. Len(sent) : MayFollow(new, sent[n])
    <2> SUFFICES ASSUME NEW n \in 1 .. Len(sent), sent[n].entity = new.entity
                 PROVE  /\ new.what # "create"
                        /\ sent[n].what = "destroy" =>
                             new.what = "failed_publish" /\ new.thread # sent[n].thread
      BY DEF MayFollow
    <2>1. sent[n].what = "destroy" => Departed(new.entity)
      BY DEF IInv, Reported, MessageInv
    <2> QED BY <1>5, <1>7, <2>1
  <1>9. Reported'
    BY <1>1, <1>3, <1>4, <1>5, <1>6, <1>8, OneSent
  <1> QED BY <1>4, <1>9 DEF IInv

LEMMA PublishReturnsStep ==
  ASSUME IInv, NEW t \in Threads, RealPublishReturns(t)
  PROVE  IInv'
  <1>0. PICK old, new : old = lcm[t] /\ new = [old EXCEPT !.what = "failed_publish"]
    OBVIOUS
  <1>1. /\ pc[t] = "publishing"
        /\ lcm' = [lcm EXCEPT ![t] = IF old = NoCapture THEN old ELSE new]
        /\ pc' = [pc EXCEPT ![t] = "idle"]
        /\ UNCHANGED <<entities, registry, arg, node_state, sent, collided>>
    BY <1>0 DEF RealPublishReturns
  <1>2. Types
    BY DEF IInv
  <1>3. old # NoCapture =>
          /\ old \in Messages /\ new \in Messages
          /\ new.thread = old.thread /\ new.what = "failed_publish"
          /\ new.entity = old.entity /\ new.timeline = old.timeline
          /\ new.schema = old.schema
    <2> SUFFICES ASSUME old # NoCapture
                 PROVE  /\ old \in Messages /\ new \in Messages
                        /\ new.thread = old.thread /\ new.what = "failed_publish"
                        /\ new.entity = old.entity /\ new.timeline = old.timeline
                        /\ new.schema = old.schema
      OBVIOUS
    <2>1. old \in Messages
      BY <1>0, <1>2 DEF Types
    <2>2. "failed_publish" \in Occurrences
      BY DEF Occurrences
    <2> QED BY <1>0, <2>1, <2>2 DEF Messages
  <1>4. /\ pc' \in [Threads -> Steps] /\ arg' \in [Threads -> Ids \cup {0}]
        /\ lcm' \in [Threads -> Messages \cup {NoCapture}]
        /\ pc'[t] = "idle" /\ lcm'[t] = IF old = NoCapture THEN NoCapture ELSE new
        /\ \A u \in Threads :
             u # t => pc'[u] = pc[u] /\ arg'[u] = arg[u] /\ lcm'[u] = lcm[u]
    BY <1>1, <1>2, <1>3 DEF Types, Steps
  <1>5. \A u \in Threads : Publishes(u)
    BY <1>1, <1>4 DEF Publishes, InHook
  <1>6. /\ Types' /\ Alone' /\ World' /\ Registered'
        /\ \A u \in Threads : ThreadInv(u)'
        /\ \A m : MessageInv(m) => MessageInv(m)'
    BY <1>1, <1>4, <1>5, Unmoved
  <1>7. \A u \in Threads : HeldInv(u)'
    <2>1. ASSUME NEW u \in Threads, u # t
          PROVE  HeldInv(u)'
      BY <1>1, <1>4, <1>6, <2>1, HeldLast
    <2>2. ASSUME old # NoCapture
          PROVE  HeldInv(t)'
      <3>1. /\ MessageInv(lcm[t]) /\ old.thread = t
            /\ old.what \in {"publish", "failed_publish"}
            /\ \A n \in 1 .. Len(sent) :
                 sent[n].what = "destroy" /\ sent[n].thread = t =>
                   sent[n].entity # old.entity
        BY <1>0, <2>2 DEF IInv, Reported, HeldInv
      <3>2. MessageInv(new)
        BY <1>0, <1>3, <2>2, <3>1 DEF MessageInv
      <3>3. MessageInv(new)'
        BY <1>6, <3>2
      <3>4. MessageInv(lcm[t])'
        BY <1>4, <2>2, <3>3 DEF MessageInv
      <3> QED BY <1>1, <1>3, <1>4, <2>2, <3>1, <3>4 DEF HeldInv
    <2>3. ASSUME old = NoCapture
          PROVE  HeldInv(t)'
      BY <1>4, <2>3 DEF HeldInv
    <2> QED BY <2>1, <2>2, <2>3
  <1>8. Reported'
    BY <1>1, <1>6, <1>7 DEF IInv, Reported, Ordered
  <1> QED BY <1>6, <1>8 DEF IInv

LEMMA StutterStep ==
  ASSUME IInv, UNCHANGED vars
  PROVE  IInv'
  <1>1. /\ Types' /\ Alone' /\ World' /\ Registered'
        /\ \A u \in Threads : ThreadInv(u)'
        /\ \A m : MessageInv(m) => MessageInv(m)'
    BY Unmoved DEF vars, IInv, Types, Publishes
  <1> QED BY <1>1, NothingSent DEF vars, IInv

-----------------------------------------------------------------------------
(* The theorems.                                                            *)

LEMMA InitIInv == Init => IInv
  <1> SUFFICES ASSUME Init PROVE IInv
    OBVIOUS
  <1>1. entities = <<>> /\ sent = <<>> /\ Created = {} /\ Len(sent) = 0 /\ Len(entities) = 0
    BY EmptySeq DEF Init, Created
  <1>2. Types
    BY <1>1, EmptySeq, BoundsAssumption DEF Init, Types, Steps
  <1>3. (\A t \in Threads : ThreadInv(t)) /\ Alone
    BY DEF Init, ThreadInv, Alone, InHook
  <1>4. World
    BY <1>1 DEF World, Apart, Marked
  <1>5. Registered
    BY <1>1 DEF Init, Registered, EntryInv
  <1>6. Reported
    BY <1>1, EmptySeq DEF Init, Reported, Ordered, HeldInv
  <1> QED BY <1>2, <1>3, <1>4, <1>5, <1>6 DEF IInv

LEMMA CreateEndpointStep ==
  ASSUME IInv, NEW t \in Threads, NEW kind, AfterCreateEndpoint(t, kind)
  PROVE  IInv'
  BY LookupNodeStep, InsertStep, AnnounceStep DEF AfterCreateEndpoint

LEMMA DestroyStep ==
  ASSUME IInv, NEW t \in Threads, NEW kind, AfterDestroy(t, kind)
  PROVE  IInv'
  BY FarewellStep, RemoveStep DEF AfterDestroy

\* Every step of every hook, and of the functions it runs after, keeps the
\* invariant.
THEOREM Invariance == Spec => []IInv
  <1>1. IInv /\ [Next]_vars => IInv'
    <2> SUFFICES ASSUME IInv, [Next]_vars PROVE IInv'
      OBVIOUS
    <2>1. CASE UNCHANGED vars
      BY <2>1, StutterStep
    <2>2. ASSUME NEW t \in Threads, NEW kind \in Kinds, NEW a \in Addresses,
                 NEW n \in Ids, NEW s \in BOOLEAN, RealCreate(t, kind, a, n, s)
          PROVE  IInv'
      BY <2>2, RealCreateStep
    <2>3. ASSUME NEW t \in Threads, NEW i \in Ids, RealDestroy(t, i)
          PROVE  IInv'
      BY <2>3, RealDestroyStep
    <2>4. ASSUME NEW t \in Threads, modality_after_rmw_create_node(t)
          PROVE  IInv'
      BY <2>4, InsertStep, AnnounceStep DEF modality_after_rmw_create_node
    <2>5. ASSUME NEW t \in Threads,
                 \/ modality_after_rmw_create_publisher(t)
                 \/ modality_after_rmw_create_subscription(t)
                 \/ modality_after_rmw_create_service(t)
                 \/ modality_after_rmw_create_client(t)
          PROVE  IInv'
      BY <2>5, CreateEndpointStep
      DEF modality_after_rmw_create_publisher, modality_after_rmw_create_subscription,
          modality_after_rmw_create_service, modality_after_rmw_create_client
    <2>6. ASSUME NEW t \in Threads,
                 \/ modality_after_rmw_destroy_node(t)
                 \/ modality_after_rmw_destroy_publisher(t)
                 \/ modality_after_rmw_destroy_subscription(t)
                 \/ modality_after_rmw_destroy_service(t)
                 \/ modality_after_rmw_destroy_client(t)
          PROVE  IInv'
      BY <2>6, DestroyStep
      DEF modality_after_rmw_destroy_node, modality_after_rmw_destroy_publisher,
          modality_after_rmw_destroy_subscription, modality_after_rmw_destroy_service,
          modality_after_rmw_destroy_client
    <2>7. ASSUME NEW t \in Threads, NEW i \in Ids,
                 \/ modality_after_rmw_take_with_info(t, i)
                 \/ modality_after_rmw_send_request(t, i)
                 \/ modality_after_rmw_take_response(t, i)
                 \/ modality_after_rmw_take_request(t, i)
                 \/ modality_after_rmw_send_response(t, i)
          PROVE  IInv'
      <3>1. \A kind \in Kinds, what \in Uses : Use(t, kind, what, i) => IInv'
        BY UseStep
      <3> QED BY <2>7, <3>1
        DEF Kinds, EndpointKinds, Uses, modality_after_rmw_take_with_info, modality_after_rmw_send_request,
            modality_after_rmw_take_response, modality_after_rmw_take_request,
            modality_after_rmw_send_response
    <2>8. ASSUME NEW t \in Threads, NEW i \in Ids, modality_before_rmw_publish(t, i)
          PROVE  IInv'
      BY <2>8, PublishStep
    <2>9. ASSUME NEW t \in Threads,
                 modality_after_clock_gettime(t) \/ RealPublishReturns(t)
          PROVE  IInv'
      BY <2>9, ClockStep, PublishReturnsStep
    <2> QED BY <2>1, <2>2, <2>3, <2>4, <2>5, <2>6, <2>7, <2>8, <2>9 DEF Next
  <1> QED BY <1>1, InitIInv, PTL DEF Spec

\* Every variable keeps its type, for any threads and addresses.
THEOREM TypeCorrect == Spec => []TypeOK
  <1>1. IInv => TypeOK
    BY DEF IInv, Types, Reported, TypeOK
  <1> QED BY <1>1, Invariance, PTL

\* No interleaving of create and destroy hooks leaves an entry for an entity
\* whose destroy hook has ended.
THEOREM NoStale == Spec => []NoStaleEntry
  <1>1. IInv => NoStaleEntry
    BY DEF IInv, Registered, EntryInv, NoStaleEntry
  <1> QED BY <1>1, Invariance, PTL

\* Unless its node's address was reused under a running destroy hook, what is
\* sent about a supported entity is on its own node's timeline and decoded by
\* its own schema.
THEOREM Attributed == Spec => []NeverMisattributed
  <1>1. IInv => NeverMisattributed
    BY DEF IInv, Reported, MessageInv, NodeWasFound, NeverMisattributed, Own
  <1> QED BY <1>1, Invariance, PTL

\* A supported entity in use whose address was not reused under a running
\* destroy hook, and whose node's was not, is in the registry as itself.
THEOREM UndisturbedTracked == Spec => []UndisturbedIsTracked
  <1>1. IInv => UndisturbedIsTracked
    <2> SUFFICES ASSUME IInv, NEW i \in Created, entities[i].status = "ready",
                        entities[i].supported, Undisturbed(i)
                 PROVE  Found(i) = [timeline |-> Own(i), of |-> i]
      BY DEF UndisturbedIsTracked, With
    <2>1. Past(i) /\ NodeWasFound(i)
      BY DEF Past, NodeWasFound, Undisturbed
    <2>2. Found(i) # NoEntry /\ Found(i).of = i
      BY <2>1 DEF IInv, Registered, HasEntry, OwnEntry
    <2>3. Found(i) \in Entry /\ Found(i).timeline = Own(i)
      BY <2>2, FoundEntry DEF Own
    <2> QED BY <2>2, <2>3 DEF Entry
  <1> QED BY <1>1, Invariance, PTL

\* What is sent about an entity was read from its own entry or from that of an
\* entity it shares its kind and address with, whose destroy hook was running
\* when it was created; nothing is read from the entry of an ignored endpoint.
THEOREM OwnOrRaced == Spec => []EntryIsOwnOrRaced
  <1>1. IInv => EntryIsOwnOrRaced
    <2> SUFFICES ASSUME IInv, NEW n \in 1 .. Len(sent)
                 PROVE  LET i == sent[n].entity
                            e == sent[n].schema
                        IN /\ entities[e].supported
                           /\ e # i => /\ entities[e].kind = entities[i].kind
                                       /\ entities[e].address = entities[i].address
                                       /\ {i, e} \subseteq collided
      BY DEF EntryIsOwnOrRaced
    <2> QED BY DEF IInv, Reported, MessageInv
  <1> QED BY <1>1, Invariance, PTL

\* The creation of an entity is sent once and before everything else about it;
\* after its destruction nothing is sent about it but publishes of it that failed
\* and that another thread than the destroyer held until it read the clock.
THEOREM LateIsFailed == Spec => []OnlyFailedPublishComesLate
  <1>1. IInv => OnlyFailedPublishComesLate
    BY DEF IInv, Reported, Ordered, MayFollow, OnlyFailedPublishComesLate
  <1> QED BY <1>1, Invariance, PTL
=============================================================================
