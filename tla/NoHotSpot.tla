------------------------------ MODULE NoHotSpot ------------------------------
(***************************************************************************)
(* The "no hot spot" skip list (src/nohotspot-skiplist), one of the        *)
(* indexes behind src/index.h.  Worker threads insert, delete and look up  *)
(* keys in a doubly linked list without locks; one background thread       *)
(* unlinks deleted nodes and alone maintains the index above the list.     *)
(*                                                                         *)
(* A deleted node passes through two states: its value becomes NULL (a     *)
(* worker's delete, which an insert may still undo), then the node's own   *)
(* address (the background thread, final).  A marker is then linked behind *)
(* it, so that no insert can succeed behind it, and both are unlinked.     *)
(*                                                                         *)
(* Every action makes at most one access to memory that another thread may *)
(* change in between.  `level', `right' and `down' are written only by the *)
(* background thread, which reads them freely.  The wrapper stores the     *)
(* address of a stack variable as value and never reads it, so all live    *)
(* values are one.  No node and no index item is ever freed (MINIMAL_GC,   *)
(* garbagecoll.cpp:51), so no address is used twice.  Stopping the         *)
(* background thread and the scan, which returns nothing, are left out.    *)
(***************************************************************************)
EXTENDS Integers, Sequences, FiniteSets

CONSTANTS Workers, Bg,
          Loads         \* what happens to a list: [preload, keys, left, width]

ASSUME LoadsAscend ==
  \A l \in Loads :
    /\ l.keys \subseteq Nat
    /\ \A i, j \in DOMAIN l.preload : i < j => l.preload[i] < l.preload[j]
    /\ \A i \in DOMAIN l.preload : l.preload[i] \in Nat \ {0}

VARIABLES nodes,        \* the list nodes, by address; 1 is set->head
          items,        \* the index nodes (inode_t), by address
          top,          \* set->top
          pc,           \* where each thread is
          w,            \* the locals of each worker
          bg,           \* the locals of the background thread
          n,            \* the local n of bg_help_remove, by thread
          load,         \* the keys inserted at the start; the operations left,
                        \* their keys, and how many may run at a time
          ret,          \* the answer of each worker's operation, once decided
          seen          \* whether its key was in the set, over the operation

vars == <<nodes, items, top, pc, w, bg, n, load, ret, seen>>

NULL == 0
head == 1
Optypes == {"contains", "delete", "insert"}

\* node_new: a node of level 0; `val' is "null", "live" or "self".
node_new(key, val, prev, next) ==
  [key |-> key, val |-> val, prev |-> prev, next |-> next,
   level |-> 0, marker |-> FALSE]

\* The marker bg_help_remove links behind a node.
Marker(node, next) ==
  [node_new(0, "self", node, next) EXCEPT !.marker = TRUE]

inode_new(right, down, node) == [right |-> right, down |-> down, node |-> node]

\* The locals of sl_do_operation, and of bg_loop and the passes it calls.
NoOp == [op |-> "contains", key |-> 0, item |-> NULL, node |-> NULL,
         val |-> "null", next |-> NULL]
NoPass == [prev |-> NULL, node |-> NULL, live |-> 0, tall |-> 0,
           inodes |-> <<>>, raised |-> FALSE, i |-> 0,
           iprev |-> NULL, index |-> NULL, above |-> NULL]

\* set_new, then the inserts of preload in ascending order.
Init ==
  /\ load \in Loads
  /\ nodes = [a \in 1 .. Len(load.preload) + 1 |->
                LET next == IF a = Len(load.preload) + 1 THEN NULL ELSE a + 1
                IN  IF a = head
                    THEN [node_new(0, "null", NULL, next) EXCEPT !.level = 1]
                    ELSE node_new(load.preload[a - 1], "live", a - 1, next)]
  /\ items = <<inode_new(NULL, NULL, head)>>
  /\ top = 1
  /\ pc = [t \in Workers \cup {Bg} |-> IF t = Bg THEN "sleep" ELSE "idle"]
  /\ w = [t \in Workers |-> NoOp]
  /\ bg = NoPass
  /\ n = [t \in Workers \cup {Bg} |-> NULL]
  /\ ret = [t \in Workers |-> "none"]
  /\ seen = [t \in Workers |-> {}]

-----------------------------------------------------------------------------
(* The set the list stands for                                             *)

RECURSIVE From(_)
From(a) == IF a = NULL THEN {} ELSE {a} \cup From(nodes[a].next)

Linked == From(head)

\* Key 0 lives in the head node.
Members == {nodes[a].key : a \in {b \in Linked : nodes[b].val = "live"}}

-----------------------------------------------------------------------------
(* bg_help_remove, by a worker or by the background thread                 *)

Goto(t, label) == pc' = [pc EXCEPT ![t] = label]

HelpPrev(t) == IF t = Bg THEN bg.prev ELSE w[t].node
HelpNode(t) == IF t = Bg THEN bg.node ELSE w[t].next
HelpDone(t) == IF t = Bg THEN "count" ELSE "val"

\* The call on a node whose value is known to be its address; a marker is
\* left alone.
HelpCall(node, t) == IF nodes[node].marker THEN HelpDone(t) ELSE "help"

HelpRead(t) ==
  /\ pc[t] = "help"
  /\ LET next == nodes[HelpNode(t)].next
     IN  /\ n' = [n EXCEPT ![t] = next]
         /\ Goto(t, IF next # NULL /\ nodes[next].marker
                    THEN "unlink" ELSE "mark")
  /\ UNCHANGED <<nodes, items, top, w, bg, load, ret>>

\* The CAS that links a marker behind the node, then the loop again.
HelpMark(t) ==
  /\ pc[t] = "mark"
  /\ LET node == HelpNode(t)
     IN  nodes' = IF nodes[node].next # n[t] THEN nodes
                  ELSE Append([nodes EXCEPT ![node].next = Len(nodes) + 1],
                              Marker(node, n[t]))
  /\ Goto(t, "help")
  /\ UNCHANGED <<items, top, w, bg, n, load, ret>>

\* The test of prev and the CAS that unlinks the node and its marker.  The
\* test adds only prev->marker, which never changes, to what the CAS tests.
HelpUnlink(t) ==
  /\ pc[t] = "unlink"
  /\ LET prev == HelpPrev(t)
     IN  nodes' = IF nodes[prev].next # HelpNode(t) \/ nodes[prev].marker
                  THEN nodes
                  ELSE [nodes EXCEPT ![prev].next = nodes[n[t]].next]
  /\ n' = [n EXCEPT ![t] = NULL]
  /\ Goto(t, HelpDone(t))
  /\ UNCHANGED <<items, top, w, bg, load, ret>>

-----------------------------------------------------------------------------
(* sl_do_operation                                                         *)

ItemKey(i) == nodes[items[i].node].key

Begin(t, op, key) ==
  /\ pc[t] = "idle"
  /\ load.left > 0
  /\ Cardinality({u \in Workers : pc[u] # "idle"}) < load.width
  /\ load' = [load EXCEPT !.left = @ - 1]
  /\ w' = [w EXCEPT ![t] = [NoOp EXCEPT !.op = op, !.key = key, !.item = top]]
  /\ ret' = [ret EXCEPT ![t] = "none"]
  /\ Goto(t, "right")
  /\ UNCHANGED <<nodes, items, top, bg, n>>

\* One turn of the search through the index, up to the read of item->down.
SearchRight(t) ==
  /\ pc[t] = "right"
  /\ LET item  == w[t].item
         right == items[item].right
     IN  \/ /\ ~(right # NULL /\ ItemKey(right) <= w[t].key)
            /\ Goto(t, "down")
            /\ UNCHANGED w
         \/ /\ right # NULL /\ ItemKey(right) = w[t].key
            /\ w' = [w EXCEPT ![t].node = items[item].node, ![t].item = NULL]
            /\ Goto(t, "val")
         \/ /\ right # NULL /\ ItemKey(right) < w[t].key
            /\ w' = [w EXCEPT ![t].item = right]
            /\ UNCHANGED pc
  /\ UNCHANGED <<nodes, items, top, bg, n, load, ret>>

SearchDown(t) ==
  /\ pc[t] = "down"
  /\ LET item == w[t].item
         down == items[item].down
     IN  IF down = NULL
         THEN /\ w' = [w EXCEPT ![t].node = items[item].node, ![t].item = NULL]
              /\ Goto(t, "val")
         ELSE /\ w' = [w EXCEPT ![t].item = down]
              /\ Goto(t, "right")
  /\ UNCHANGED <<nodes, items, top, bg, n, load, ret>>

\* Reads node->val, and steps back from a node being unlinked: that value is
\* final, so reading it together with node->prev loses no outcome.
ReadVal(t) ==
  /\ pc[t] = "val"
  /\ LET node == nodes[w[t].node]
     IN  IF node.val = "self"
         THEN w' = [w EXCEPT ![t].node = node.prev] /\ UNCHANGED pc
         ELSE w' = [w EXCEPT ![t].val = node.val] /\ Goto(t, "next")
  /\ UNCHANGED <<nodes, items, top, bg, n, load, ret>>

ReadNext(t) ==
  /\ pc[t] = "next"
  /\ w' = [w EXCEPT ![t].next = nodes[w[t].node].next]
  /\ Goto(t, "test")
  /\ UNCHANGED <<nodes, items, top, bg, n, load, ret>>

\* Reads next->val: helps to unlink next, goes on to it, or has found the
\* place of the key.
TestNext(t) ==
  /\ pc[t] = "test"
  /\ LET next == w[t].next
     IN  \/ /\ next # NULL /\ nodes[next].val = "self"
            /\ Goto(t, HelpCall(next, t))
            /\ UNCHANGED w
         \/ /\ next # NULL /\ nodes[next].val # "self"
            /\ nodes[next].key <= w[t].key
            /\ w' = [w EXCEPT ![t].node = next, ![t].next = NULL]
            /\ Goto(t, "val")
         \/ /\ ~(next # NULL /\ (\/ nodes[next].val = "self"
                                 \/ nodes[next].key <= w[t].key))
            /\ Goto(t, w[t].op)
            /\ UNCHANGED w
  /\ UNCHANGED <<nodes, items, top, bg, n, load, ret>>

\* The operation ends with an answer.
Return(t, yes) ==
  /\ ret' = [ret EXCEPT ![t] = IF yes THEN "yes" ELSE "no"]
  /\ w' = [w EXCEPT ![t] = NoOp]
  /\ Goto(t, "idle")

Found(t) == nodes[w[t].node].key = w[t].key

FinishContains(t) ==
  /\ pc[t] = "contains"
  /\ Return(t, Found(t) /\ w[t].val # "null")
  /\ UNCHANGED <<nodes, items, top, bg, n, load>>

\* The loop of sl_finish_delete ends with a read of NULL or of the node's
\* address, or with a CAS that finds a live value.
FinishDelete(t) ==
  /\ pc[t] = "delete"
  /\ LET node == w[t].node
         hit  == Found(t) /\ w[t].val # "null" /\ nodes[node].val = "live"
     IN  /\ nodes' = IF hit THEN [nodes EXCEPT ![node].val = "null"] ELSE nodes
         /\ Return(t, hit)
  /\ UNCHANGED <<items, top, bg, n, load>>

\* Insert, the key's node found: present, or undeleted by a CAS, or retried.
FinishUndelete(t) ==
  /\ pc[t] = "insert" /\ Found(t)
  /\ LET node == w[t].node
     IN  \/ /\ w[t].val # "null"
            /\ Return(t, FALSE)
            /\ UNCHANGED nodes
         \/ /\ w[t].val = "null" /\ nodes[node].val = "null"
            /\ nodes' = [nodes EXCEPT ![node].val = "live"]
            /\ Return(t, TRUE)
         \/ /\ w[t].val = "null" /\ nodes[node].val # "null"
            /\ Goto(t, "val")
            /\ UNCHANGED <<nodes, w, ret>>
  /\ UNCHANGED <<items, top, bg, n, load>>

\* Variant of FinishInsert: a store in place of the CAS.
InsertBlindly(t) ==
  /\ pc[t] = "insert" /\ ~Found(t)
  /\ nodes' = Append([nodes EXCEPT ![w[t].node].next = Len(nodes) + 1],
                     node_new(w[t].key, "live", w[t].node, w[t].next))
  /\ Return(t, TRUE)
  /\ UNCHANGED <<items, top, bg, n, load>>

\* Insert, no node of the key: the CAS that links a new one.  A new node that
\* is not linked is freed unseen.
FinishInsert(t) ==
  /\ pc[t] = "insert" /\ ~Found(t)
  /\ LET node == w[t].node
         next == w[t].next
     IN  \/ /\ nodes[node].next = next
            /\ nodes' = Append([nodes EXCEPT ![node].next = Len(nodes) + 1],
                               node_new(w[t].key, "live", node, next))
            /\ IF next = NULL THEN Return(t, TRUE)
               ELSE /\ ret' = [ret EXCEPT ![t] = "yes"]
                    /\ w' = [w EXCEPT ![t].node = Len(nodes) + 1]
                    /\ Goto(t, "prev")
         \/ /\ nodes[node].next # next
            /\ Goto(t, "val")
            /\ UNCHANGED <<nodes, w, ret>>
  /\ UNCHANGED <<items, top, bg, n, load>>

\* Variant of SetPrev: new_node->prev = next.
SetPrevSwapped(t) ==
  /\ pc[t] = "prev"
  /\ nodes' = [nodes EXCEPT ![w[t].node].prev = w[t].next]
  /\ Return(t, TRUE)
  /\ UNCHANGED <<items, top, bg, n, load>>

\* next->prev = new_node
SetPrev(t) ==
  /\ pc[t] = "prev"
  /\ nodes' = [nodes EXCEPT ![w[t].next].prev = w[t].node]
  /\ Return(t, TRUE)
  /\ UNCHANGED <<items, top, bg, n, load>>

-----------------------------------------------------------------------------
(* The background thread: bg_loop and its passes                           *)

\* bg_trav_nodes starts at set->head.
TravStart ==
  /\ pc[Bg] = "sleep"
  /\ bg' = [NoPass EXCEPT !.prev = head, !.node = nodes[head].next]
  /\ Goto(Bg, "remove")
  /\ UNCHANGED <<nodes, items, top, w, n, load, ret>>

\* Variant of Remove: tall nodes too.
RemoveTall ==
  /\ pc[Bg] = "remove" /\ bg.node # NULL
  /\ LET val == IF nodes[bg.node].val = "null" THEN "self" ELSE nodes[bg.node].val
     IN  /\ nodes' = [nodes EXCEPT ![bg.node].val = val]
         /\ Goto(Bg, IF val = "self" THEN HelpCall(bg.node, Bg) ELSE "count")
  /\ UNCHANGED <<items, top, w, bg, n, load, ret>>

\* bg_remove on a short node: the CAS from NULL to the node's address.
Remove ==
  /\ pc[Bg] = "remove" /\ bg.node # NULL
  /\ LET node == nodes[bg.node]
         val  == IF node.level = 0 /\ node.val = "null" THEN "self" ELSE node.val
     IN  /\ nodes' = [nodes EXCEPT ![bg.node].val = val]
         /\ Goto(Bg, IF node.level = 0 /\ val = "self"
                     THEN HelpCall(bg.node, Bg) ELSE "count")
  /\ UNCHANGED <<items, top, w, bg, n, load, ret>>

\* bg_non_deleted and bg_tall_deleted
Count ==
  /\ pc[Bg] = "count"
  /\ LET node == nodes[bg.node]
     IN  bg' = IF node.val = "live" THEN [bg EXCEPT !.live = @ + 1]
               ELSE IF node.level >= 1 THEN [bg EXCEPT !.tall = @ + 1]
               ELSE bg
  /\ Goto(Bg, "advance")
  /\ UNCHANGED <<nodes, items, top, w, n, load, ret>>

Advance ==
  /\ pc[Bg] = "advance"
  /\ bg' = [bg EXCEPT !.prev = bg.node, !.node = nodes[bg.node].next]
  /\ Goto(Bg, "remove")
  /\ UNCHANGED <<nodes, items, top, w, n, load, ret>>

\* The first item of each index level, lowest first: the h items from i down.
RECURSIVE Tower(_, _)
Tower(i, h) == IF h = 0 THEN <<>> ELSE Append(Tower(items[i].down, h - 1), i)

\* The end of bg_trav_nodes; bg_raise_nlevel starts at set->head.
RaiseStart ==
  /\ pc[Bg] = "remove" /\ bg.node = NULL
  /\ LET inodes == Tower(top, nodes[head].level)
     IN  bg' = [bg EXCEPT !.prev = head, !.node = nodes[head].next,
                          !.inodes = inodes, !.above = inodes[1]]
  /\ Goto(Bg, "raise")
  /\ UNCHANGED <<nodes, items, top, w, n, load, ret>>

\* The last item, from i to the right, whose key is smaller than k: where the
\* walk with `above' and `above_prev' leaves above_prev.
RECURSIVE Before(_, _)
Before(i, k) ==
  LET right == items[i].right
  IN  IF right = NULL \/ ItemKey(right) >= k THEN i ELSE Before(right, k)

\* Links a new item for `node' behind the item `left', at a height.
Raise(left, down, node, height) ==
  /\ items' = Append([items EXCEPT ![left].right = Len(items) + 1],
                     inode_new(items[left].right, down, node))
  /\ nodes' = [nodes EXCEPT ![node].level = height]

\* One turn of bg_raise_nlevel, which begins with the read of node->next.
RaiseNode ==
  /\ pc[Bg] = "raise" /\ bg.node # NULL
  /\ LET next == nodes[bg.node].next
         node == nodes[bg.node]
         go   == /\ node.val # "self"
                 /\ nodes[bg.prev].level = 0
                 /\ node.level = 0
                 /\ nodes[next].level = 0
     IN  /\ next # NULL
         /\ \/ /\ go
               /\ Raise(Before(bg.above, node.key), NULL, bg.node, 1)
               /\ bg' = [bg EXCEPT !.prev = bg.node, !.node = next,
                                   !.raised = TRUE, !.above = Len(items) + 1]
            \/ /\ ~go
               /\ bg' = [bg EXCEPT !.prev = bg.node, !.node = next]
               /\ UNCHANGED <<items, nodes>>
  /\ UNCHANGED <<top, pc, w, n, load, ret>>

\* Variant of NewLevel: head->level is not counted up.
NewLevelUncounted ==
  /\ items' = Append(items, inode_new(NULL, top, head))
  /\ top' = Len(items) + 1
  /\ UNCHANGED nodes

\* A new index level: an item for the head, above set->top.
NewLevel ==
  /\ items' = Append(items, inode_new(NULL, top, head))
  /\ top' = Len(items) + 1
  /\ nodes' = [nodes EXCEPT ![head].level = @ + 1]

\* The end of bg_raise_nlevel, and the second level if there is only one.
RaiseEnd ==
  /\ pc[Bg] = "raise"
  /\ ~(bg.node # NULL /\ nodes[bg.node].next # NULL)
  /\ LET done == [bg EXCEPT !.prev = NULL, !.node = NULL, !.above = NULL,
                            !.i = 1]
     IN  IF bg.raised /\ nodes[head].level = 1
         THEN NewLevel /\ bg' = [done EXCEPT !.inodes = Append(@, top')]
         ELSE bg' = done /\ UNCHANGED <<nodes, items, top>>
  /\ Goto(Bg, "level")
  /\ UNCHANGED <<w, n, load, ret>>

\* bg_raise_ilevel starts on level i, the first items of it and of the one
\* above given.
LevelStart ==
  /\ pc[Bg] = "level" /\ bg.i < nodes[head].level
  /\ LET iprev == bg.inodes[bg.i]
     IN  bg' = [bg EXCEPT !.raised = FALSE, !.iprev = iprev,
                          !.index = items[iprev].right,
                          !.above = bg.inodes[bg.i + 1]]
  /\ Goto(Bg, "item")
  /\ UNCHANGED <<nodes, items, top, w, n, load, ret>>

\* One turn of bg_raise_ilevel.  Its removal of items whose node is being
\* unlinked never happens: EntriesStay.
LevelItem ==
  /\ pc[Bg] = "item"
  /\ bg.index # NULL
  /\ LET inext == items[bg.index].right
         node  == items[bg.index].node
         short(i) == nodes[items[i].node].level <= bg.i
     IN  /\ inext # NULL
         /\ \/ /\ short(bg.iprev) /\ short(bg.index) /\ short(inext)
               /\ Raise(Before(bg.above, nodes[node].key), bg.index, node,
                        bg.i + 1)
               /\ bg' = [bg EXCEPT !.iprev = bg.index, !.index = inext,
                                   !.raised = TRUE, !.above = Len(items) + 1]
            \/ /\ ~(short(bg.iprev) /\ short(bg.index) /\ short(inext))
               /\ bg' = [bg EXCEPT !.iprev = bg.index, !.index = inext]
               /\ UNCHANGED <<items, nodes>>
  /\ UNCHANGED <<top, pc, w, n, load, ret>>

LevelEnd ==
  /\ pc[Bg] = "item"
  /\ ~(bg.index # NULL /\ items[bg.index].right # NULL)
  /\ bg' = [bg EXCEPT !.i = @ + 1, !.iprev = NULL, !.index = NULL,
                      !.above = NULL]
  /\ Goto(Bg, "level")
  /\ UNCHANGED <<nodes, items, top, w, n, load, ret>>

\* After the last level: one more if that raised an item, and the test
\* whether to drop the lowest.
LevelsEnd ==
  /\ pc[Bg] = "level" /\ bg.i >= nodes[head].level
  /\ IF bg.raised THEN NewLevel ELSE UNCHANGED <<nodes, items, top>>
  /\ IF bg.tall > bg.live * 10 /\ Len(bg.inodes) >= 2
     THEN /\ bg' = [NoPass EXCEPT !.index = bg.inodes[2]]
          /\ Goto(Bg, "lower")
     ELSE /\ bg' = NoPass
          /\ Goto(Bg, "sleep")
  /\ UNCHANGED <<w, n, load, ret>>

\* One turn of bg_lower_ilevel on the second lowest level.  The items of the
\* lowest are then discarded.
Lower ==
  /\ pc[Bg] = "lower"
  /\ items' = [items EXCEPT ![bg.index].down = NULL]
  /\ nodes' = [nodes EXCEPT ![items[bg.index].node].level = @ - 1]
  /\ LET right == items[bg.index].right
     IN  /\ bg' = [bg EXCEPT !.index = right]
         /\ Goto(Bg, IF right = NULL THEN "sleep" ELSE "lower")
  /\ UNCHANGED <<top, w, n, load, ret>>

-----------------------------------------------------------------------------

HelpRemove(t) == HelpRead(t) \/ HelpMark(t) \/ HelpUnlink(t)

\* A step of an operation that has begun.
Operate(t) ==
  \/ SearchRight(t) \/ SearchDown(t) \/ ReadVal(t) \/ ReadNext(t)
  \/ TestNext(t) \/ HelpRemove(t)
  \/ FinishContains(t) \/ FinishDelete(t)
  \/ FinishUndelete(t) \/ FinishInsert(t) \/ SetPrev(t)

Background ==
  \/ TravStart \/ Remove \/ HelpRemove(Bg) \/ Count \/ Advance
  \/ RaiseStart \/ RaiseNode \/ RaiseEnd
  \/ LevelStart \/ LevelItem \/ LevelEnd \/ LevelsEnd \/ Lower

\* The history of each operation that is under way.
Observe ==
  seen' = [t \in Workers |->
             IF ret'[t] # "none" \/ pc'[t] = "idle" THEN {}
             ELSE (IF pc[t] = "idle" THEN {} ELSE seen[t])
                  \cup {w'[t].key \in Members'}]

WorkerStep(t) == Operate(t) /\ Observe
BgStep == Background /\ Observe

Next ==
  \/ \E t \in Workers, op \in Optypes, key \in load.keys :
       Begin(t, op, key) /\ Observe
  \/ \E t \in Workers : WorkerStep(t)
  \/ BgStep

Spec == Init /\ [][Next]_vars

-----------------------------------------------------------------------------
(* Properties                                                              *)

\* Every operation takes effect at one instant between its call and its
\* return (sl_do_operation): a successful insert or delete at the step that
\* decides it adds or removes exactly its key, any other answer was true of
\* the set at some moment of the operation, and no other step of a worker or
\* of the background thread, unlinking and helping included, changes the set.
AnswersLinearize ==
  [][LET decided == {t \in Workers : ret[t] = "none" /\ ret'[t] # "none"}
     IN  /\ decided = {} => Members' = Members
         /\ \A t \in decided :
              LET k == w[t].key  op == w[t].op  yes == ret'[t] = "yes"
              IN  CASE op = "insert" /\ yes ->
                         k \notin Members /\ Members' = Members \cup {k}
                    [] op = "delete" /\ yes ->
                         k \in Members /\ Members' = Members \ {k}
                    [] OTHER ->
                         /\ Members' = Members
                         /\ (IF op = "contains" THEN yes ELSE op = "insert")
                              \in seen[t]]_vars

\* What lets a worker step back from a deleted node (nohotspot_ops.cpp:252)
\* and makes the late write of next->prev `safe' (line 177): forward pointers
\* lead to larger keys and backward pointers to smaller ones, never to a
\* marker, in unlinked nodes too.
ListShape ==
  \A a \in DOMAIN nodes :
    LET node == nodes[a]
        b    == node.next
        c    == IF b # NULL /\ nodes[b].marker THEN nodes[b].next ELSE b
    IN  ~node.marker =>
          /\ c # NULL => ~nodes[c].marker /\ node.key < nodes[c].key
          /\ a # head => /\ ~nodes[node.prev].marker
                         /\ nodes[node.prev].key < node.key

\* An index item, current or discarded, is an entry point a worker may still
\* hold: its node is never unlinked (bg_remove spares nodes with a level).
EntriesStay ==
  \A i \in DOMAIN items :
    items[i].node \in Linked /\ nodes[items[i].node].val # "self"

RECURSIVE Row(_)
Row(i) == IF i = NULL THEN <<>> ELSE <<i>> \o Row(items[i].right)

RECURSIVE Column(_)
Column(i) == IF i = NULL THEN <<>> ELSE <<i>> \o Column(items[i].down)

\* The index is a skip list whenever its lowest level is not being dropped:
\* as many levels as head->level says (the assertions of bg_loop), each one
\* headed by the head and ascending, each item above one of its own node.
IndexShape ==
  pc[Bg] # "lower" =>
    LET firsts == Column(top)
        row(l) == Row(firsts[l])
    IN  /\ Len(firsts) = nodes[head].level
        /\ \A l \in DOMAIN firsts :
             /\ items[firsts[l]].node = head
             /\ \A j \in 1 .. Len(row(l)) - 1 :
                  ItemKey(row(l)[j]) < ItemKey(row(l)[j + 1])
             /\ l < Len(firsts) =>
                  \A j \in DOMAIN row(l) :
                    \E m \in DOMAIN row(l + 1) :
                      /\ items[row(l)[j]].down = row(l + 1)[m]
                      /\ items[row(l + 1)[m]].node = items[row(l)[j]].node

\* The comment on bg_remove (background.cpp:514): the nodes of height 0 are
\* those that "don't have index nodes above".  It does not hold after the
\* lowest level is dropped: a node that was in no other keeps level 1.
LevelIsHeight ==
  pc[Bg] = "sleep" =>
    LET firsts  == Column(top)
        over(l) == LET row == Row(firsts[l])
                   IN  {items[row[j]].node : j \in DOMAIN row}
        indexed == UNION {over(l) : l \in DOMAIN firsts}
    IN  \A a \in Linked : nodes[a].level = 0 <=> a \notin indexed

=============================================================================
