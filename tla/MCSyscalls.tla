----------------------------- MODULE MCSyscalls -----------------------------
(* Programs for the system calls.  solo: two processes of one thread, which  *)
(* fault at every place they can.  Peers: two threads of a process, each on a *)
(* descriptor of its own.  Shared: on the same one.  Lockers: two threads     *)
(* register and use the same lock.                                            *)
EXTENDS Syscalls

CONSTANTS t1, t2, t3, p1, p2, a, b

File(op, fault) == [op |-> op, fault |-> fault]
Fd(op, fd, fault) == [op |-> op, fd |-> fd, fault |-> fault]
Sync(op, id, val) == [op |-> op, id |-> id, val |-> val]

Locking(id) == <<Sync("lock_init", id, 0), Sync("lock_acquire", id, 0), Sync("lock_acquire", id, 0),
                 Sync("lock_release", id, 0), Sync("lock_release", id, 0)>>
Solo == {[proc |-> [t \in Threads |-> IF t = t1 THEN p1 ELSE p2],
          script |-> [t \in Threads |->
             CASE t = t1 -> <<File("open", "none"), Fd("read", 3, f1), Fd("read", 9, "none"), Fd("close", 3, "none"),
                              Fd("read", 3, "none"), File("create", f2)>>
               [] t = t2 -> <<File("remove", "none"), File("open", f3), Fd("write", 3, f1), Fd("tell", 3, "none")>>
               [] OTHER -> <<>>],
          solo |-> TRUE] : f1 \in {"none", "inside", "sector"}, f2 \in {"none", "args", "inside"}, f3 \in {"none", "args"}}
\* t1 opens 3, 4 and 5 and closes 3; t2 uses and closes 4
Peer == [proc |-> [t \in Threads |-> p1],
         script |-> [t \in Threads |->
            CASE t = t1 -> <<File("open", "none"), File("open", "none"), Fd("seek", 3, "none"), Fd("read", 3, "none"), Fd("read", 1, "none"),
                             Fd("close", 3, "none"), File("open", "none"), Fd("close", 2, "none"), Fd("read", 5, "none")>>
              [] t = t2 -> <<Fd("write", 4, "none"), Fd("filesize", 4, "none"), Fd("read", 4, "none"), Fd("close", 4, "none")>>
              [] OTHER -> <<>>],
         solo |-> FALSE]
Lockers == [proc |-> [t \in Threads |-> p1],
            script |-> [t \in Threads |-> IF t = t1 THEN <<>> ELSE Locking(a)],
            solo |-> FALSE]
Shared == [proc |-> [t \in Threads |-> p1],
           script |-> [t \in Threads |->
              CASE t = t1 -> <<File("open", "none"), Fd("read", 3, "none"), Fd("close", 3, "none"), Sync("sema_up", b, 0)>>
                [] t = t2 -> <<File("open", "none"), Fd("write", 3, "none"), Fd("close", 3, "none"), Sync("sema_init", b, 0)>>
                [] OTHER -> <<Sync("sema_init", b, -1), Sync("sema_init", b, 1), Sync("sema_down", b, 0),
                              Sync("sema_down", b, 0), Sync("sema_up", b, 0)>>],
           solo |-> FALSE]
MCSetups == Solo \union {Peer, Lockers, Shared}
=============================================================================
