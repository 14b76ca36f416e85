----------------------------- MODULE MCKernlib ------------------------------
(* The library and the layout of files, disks and memory, checked against    *)
(* what each call must compute; and the hash table.                          *)
(*                                                                           *)
(* An initial state is one call; its one step stores what the code returns.  *)
(* Where the call is the hash table's, only its operations happen.           *)
EXTENDS Klib, Screen, Storage, HashTable

MCCaps == {2 ^ 10 + 37 * k : k \in 0 .. 200}

VARIABLES call, result
vars == <<call, result, hashvars>>

Init == /\ call \in ({"klib"} \X KlibCalls) \union ({"kstring"} \X KstringCalls) \union ({"screen"} \X Texts)
                    \union ({"loader"} \X LoaderCalls) \union ({"storage"} \X StorageCalls) \union {<<"hash">>}
        /\ result = <<>>
        /\ HashInit
Called(module) == call[1] = module /\ result = <<>> /\ UNCHANGED <<call, hashvars>>
InKlib == Called("klib") /\ result' = <<KlibReturn(call[2])>>
InKstring == Called("kstring") /\ result' = <<KstringReturn(call[2])>>
InScreen == Called("screen") /\ result' = <<Shows(cls, call[2])>>
InLoader == Called("loader") /\ result' = <<LoaderReturn(call[2])>>
InStorage == Called("storage") /\ result' = <<StorageReturn(call[2])>>
InHashTable == call = <<"hash">> /\ HashNext /\ UNCHANGED <<call, result>>
\* a call that has returned
Done == result # <<>> /\ UNCHANGED vars
Next == InKlib \/ InKstring \/ InScreen \/ InLoader \/ InStorage \/ InHashTable \/ Done
Spec == Init /\ [][Next]_vars
-----------------------------------------------------------------------------
Returned(module) == call[1] = module /\ result # <<>>
\* Computes: qsort(), bsearch(), the list's sort, unique and extremes, the
\* 64-bit division, the packed bitmap, the generator and timer_calibrate(), the
\* string and memory functions, atoi(), tar headers, the kernel's options and
\* vga_putc() give what a definition that does not follow their loops says.
\* Nothing is asked where the code departs from its comments: the pointer that
\* memmove() returns after an upward copy, strrchr() of the null byte, the
\* policy without -sched.
Computes == /\ Returned("klib") => KlibRight(call[2], result[1])
            /\ Returned("kstring") => KstringRight(call[2], result[1])
            /\ Returned("screen") => ScreenRight(call[2], result[1])
\* Placed: load() succeeds exactly when every segment and the stack can be
\* mapped, every byte is then the file's or zero, and pagedir_destroy() gives
\* every page back; main() finds its words in argv; a partition table without
\* extended entries, inode_read_at() and inode_write_at(), archives and page
\* pools put every byte in its place and touch no other.  Nothing is asked of the
\* pages of a load() that failed, which are not given back, nor of the
\* partitions found through an extended entry.
Placed == /\ Returned("loader") => LoaderRight(call[2], result[1])
          /\ Returned("storage") => StorageRight(call[2], result[1])
=============================================================================
