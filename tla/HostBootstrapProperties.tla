----------------------- MODULE HostBootstrapProperties -----------------------
(***************************************************************************)
(* What the bootstrap promises the processes of a user: one holder of the  *)
(* lock, one app-server, and what these promises depend on.                *)
(***************************************************************************)
EXTENDS HostBootstrap

Holders == {c \in Calls : pc[c] \in Holding}
Servers == {h \in Calls : server[h]}

(***************************************************************************)
(* The values the variables can have, and what goes together by design: a  *)
(* call works with a descriptor only between reading and using it.         *)
(***************************************************************************)
TypeOK ==
    /\ pc \in [Calls -> Places]
    /\ seen \in [Calls -> Refs]
    /\ owner \in [Calls -> Refs]
    /\ due \in [Calls -> Refs]
    /\ begun \in Refs /\ aged \in Refs
    /\ lock \in Refs
    /\ blank \in BOOLEAN
    /\ descriptor \in Refs
    /\ taken \in [Calls -> Refs]
    /\ shed \in [Calls -> Refs]
    /\ host \in [Calls -> HostPhases]
    /\ server \in [Calls -> BOOLEAN]
    /\ deaths \in Nat
    /\ mishaps \subseteq Mishaps
    /\ \A c \in Calls : pc[c] \in {"evict", "unpublish", "settle"} => seen[c] # Nobody

(***************************************************************************)
(* The bootstrap lock excludes: as long as no lock was removed as stale,   *)
(* one call at a time is between the creation of the lock and its release. *)
(***************************************************************************)
OneHolder == "lock removed" \notin mishaps => Cardinality(Holders) <= 1

(***************************************************************************)
(* One app-server: a second one runs only after a lock was removed as      *)
(* stale, after a call gave up waiting for a host that was still starting, *)
(* or after a host died before it had published its app-server.  In        *)
(* particular neither a shutdown nor the death of a published host lets    *)
(* the next host start beside the app-server of the last one.              *)
(***************************************************************************)
OneServer == mishaps = {} => Cardinality(Servers) <= 1

(***************************************************************************)
(* A call never ends the app-server of a host that is still there, also    *)
(* when that host does not answer any more.                                *)
(***************************************************************************)
NoLiveOwnerEvicted ==
    [][\A h \in Calls :
          (ProcessAlive(h) /\ server[h] /\ ~server'[h])
             => deaths' # deaths \/ host'[h] # host[h]]_vars

(***************************************************************************)
(* No removal of a descriptor, by a call or by a host that stops, loses    *)
(* the way to a host that is ready: its descriptor stays in its place or   *)
(* under a private name, unless another host's descriptor is there.        *)
(***************************************************************************)
Named(h) == descriptor = h \/ \E c \in Calls : h \in {taken[c], shed[c]}

NoOwnerErased ==
    [][\A h \in Calls :
          (host[h] = "ready" /\ Named(h)) => Named(h)' \/ descriptor' # Nobody]_vars

(***************************************************************************)
(* No lock is left behind by a call that ends, successfully or with an     *)
(* error, unless it died or the file system failed it at the lock itself.  *)
(* And a lock without a record, which no later call ever takes for stale,  *)
(* stays only after such an end: nothing else that happens to the file in  *)
(* between, also its removal and creation by others, leaves one.           *)
(***************************************************************************)
NoLockLeft ==
    /\ \A c \in Calls : pc[c] = "done" => lock # c
    /\ blank => lock # Nobody /\ pc[lock] \in {"record", "failed", "dead"}

(***************************************************************************)
(* Every call ends, whatever hosts and other calls do and whoever dies:    *)
(* nobody waits for ever for a lock without an owner.                      *)
(***************************************************************************)
EveryCallEnds == \A c \in Calls : pc[c] # "idle" ~> pc[c] \in Ended

-----------------------------------------------------------------------------
(***************************************************************************)
(* The inductive invariant, in parts.                                      *)
(***************************************************************************)

(* The lock file is that of a call which still holds it, or died with it,  *)
(* or could not write or remove it.                                        *)
LockOwned == lock # Nobody => pc[lock] \in Holding \cup {"failed", "dead"}

(* What a descriptor can name: a host that has published.                  *)
PublishedPhases == {"ready", "stopping", "closing", "settling", "gone"}
NamesPublished ==
    /\ descriptor # Nobody => host[descriptor] \in PublishedPhases
    /\ \A c \in Calls :
          /\ taken[c] # Nobody => host[taken[c]] \in PublishedPhases
          /\ shed[c] # Nobody => host[shed[c]] \in PublishedPhases

(* A call recovers what a host left that is dead, and stays dead.          *)
RecoversDead ==
    \A c \in Calls :
        pc[c] \in {"evict", "unpublish", "settle"} => host[seen[c]] = "gone"

(* A host holds a claimed descriptor only while it settles it, and so does *)
(* a call; the dead keep what they had.                                    *)
ClaimsPending ==
    \A c \in Calls :
        /\ taken[c] # Nobody => pc[c] \in {"settle", "dead"}
        /\ shed[c] # Nobody => host[c] \in {"settling", "gone"}

(* A host exists once it is launched, and its app-server once spawned.     *)
Launched ==
    \A c \in Calls :
        /\ host[c] # "none" => pc[c] \in {"await", "release", "unlock"} \cup Ended
        /\ server[c] => host[c] \in {"starting", "ready", "stopping", "gone"}

(* Without a removed lock, who holds the lock owns the lock file.          *)
LockHeld == "lock removed" \notin mishaps => \A c \in Holders : lock = c

(* The hosts that stand in the way of another one: those on their way up   *)
(* (or down again, if they cannot publish), those whose descriptor is still *)
(* there, and those that left an app-server behind.                        *)
Rising == {h \in Calls : host[h] \in {"launched", "starting", "failing"}}
Occupants ==
    Rising \cup {h \in Calls : server[h] \/ host[h] \in {"ready", "stopping", "closing"}}

(* Without mishaps there is one of them, found through the lock while it   *)
(* rises and through the descriptor afterwards; and none is left when a    *)
(* call has recovered and is about to launch.                              *)
OneOccupant ==
    /\ \A h, k \in Occupants : h = k
    /\ \A h \in Rising : lock = h /\ pc[h] \in {"await", "dead"}
    /\ \A h \in Occupants \ Rising : descriptor = h
    /\ \A c \in Calls :
          /\ pc[c] = "evict" => Occupants \subseteq {seen[c]}
          /\ pc[c] \in {"unpublish", "settle", "launch"} => Occupants = {}

(* All of it: what the lock, the descriptor, the hosts and the calls know  *)
(* of each other.                                                          *)
BootstrapInvariant ==
    /\ TypeOK
    /\ LockOwned
    /\ NamesPublished
    /\ RecoversDead
    /\ ClaimsPending
    /\ Launched
    /\ LockHeld
    /\ mishaps = {} => OneOccupant

-----------------------------------------------------------------------------
(***************************************************************************)
(* src/docs/decisions/0002-automatic-bootstrap-plugin-ownership.md:33:     *)
(* "Multiple MCP processes are expected and safe; exactly one compatible   *)
(* host owns the shared app-server."                                       *)
(***************************************************************************)
OneOwner == Cardinality({h \in Calls : Healthy(h)}) <= 1

=============================================================================
