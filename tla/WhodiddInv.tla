------------------------------ MODULE WhodiddInv ------------------------------
(***************************************************************************)
(* The inductive invariant behind PersistedMeansStored, for pids that come *)
(* round only when the daemon has forgotten their last life (QuickReuse =  *)
(* FALSE).  Its parts say, of everything that names a pid, that it means   *)
(* the pid's latest life, and of a link copied by persist_chain, that the  *)
(* table cannot have replaced the node it was copied from.                 *)
(***************************************************************************)
EXTENDS Attribution

(* i is the latest process that was given the pid p. *)
IsLatest(i, p) ==
    /\ i \in 1 .. Len(procs) /\ procs[i].pid = p
    /\ \A j \in 1 .. Len(procs) : procs[j].pid = p => j <= i

(* Processes, messages, nodes and links all mean the latest life of their  *)
(* pid; a row of an earlier life started before this second.               *)
LatestLives ==
    /\ \A p \in Pid : holder[p] # 0 => IsLatest(holder[p], p)
    /\ \A i \in 1 .. Len(netlink) :
          netlink[i] # Overrun => IsLatest(netlink[i].inc, netlink[i].pid)
    /\ \A p \in Pid : tree[p] # None => IsLatest(tree[p].inc, p)
    /\ \A w \in Watcher : \A i \in 1 .. Len(chain[w]) :
          IsLatest(chain[w][i].node.inc, chain[w][i].pid)
    /\ \A r \in rows : IsLatest(r.inc, r.pid) \/ r.start < now

(* A key met again is the same process: rows of other lives start earlier. *)
KeysDiffer ==
    /\ \A p \in Pid : tree[p] # None =>
          \A r \in rows : r.pid = p /\ r.inc # tree[p].inc => r.start < tree[p].start
    /\ \A w \in Watcher : \A i \in 1 .. Len(chain[w]) : \A r \in rows :
          r.pid = chain[w][i].pid /\ r.inc # chain[w][i].node.inc =>
              r.start < chain[w][i].node.start

(* A daemon that does not run has no queue, no thread and no link.        *)
DownIsEmpty ==
    ~up => /\ ~subscribed /\ netlink = <<>> /\ connector = "off"
           /\ \A w \in Watcher : pc[w] = "off" /\ chain[w] = <<>>

(* A fork is the first that is heard of a pid, an exit the last. *)
QueueOrdered ==
    /\ \A i \in 1 .. Len(netlink) : netlink[i].kind = "fork" =>
          /\ tree[netlink[i].pid] = None
          /\ \A w \in Watcher : \A k \in 1 .. Len(chain[w]) :
                chain[w][k].pid # netlink[i].pid
          /\ \A j \in 1 .. i - 1 : netlink[j].pid # netlink[i].pid
    /\ \A i \in 1 .. Len(netlink) : netlink[i].kind = "exit" =>
          /\ holder[netlink[i].pid] = 0
          /\ \A j \in i + 1 .. Len(netlink) : netlink[j].pid # netlink[i].pid

(* Nothing more will be heard of p: it is gone, and no message names it. *)
LastHeard(p) ==
    /\ holder[p] = 0
    /\ \A i \in 1 .. Len(netlink) : netlink[i].pid # p

(* A link agrees with the node it was copied from, or that node is gone    *)
(* for good, for a node goes only after its exit, the last of its messages.*)
CopiesAgree ==
    /\ \A p \in Pid : tree[p] # None /\ tree[p].exited # None => LastHeard(p)
    /\ \A w \in Watcher : \A i \in 1 .. Len(chain[w]) :
          LET item == chain[w][i]
          IN  IF tree[item.pid] = None THEN LastHeard(item.pid)
              ELSE tree[item.pid].start = item.node.start

(* Past the insert, the head of a chain has its row. *)
HeadStored ==
    \A w \in Watcher : pc[w] \in {"exit", "mark"} =>
        LET item == Head(chain[w])
        IN  \E r \in Keyed(rows, item.pid, item.node.start) : r.inc = item.node.inc

(* All the parts that are about what a pid means. *)
Meanings ==
    /\ LatestLives
    /\ KeysDiffer
    /\ QueueOrdered
    /\ CopiesAgree
    /\ HeadStored
    /\ PersistedMeansStored

IInv == TypeOK /\ DownIsEmpty /\ Meanings
=============================================================================
