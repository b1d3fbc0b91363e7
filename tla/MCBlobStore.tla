------------------------------ MODULE MCBlobStore ------------------------------
(* Small instances of BlobStore for TLC. *)
EXTENDS BlobStore

\* One thread in each process, as on the command line.
Separate == CHOOSE f \in [Thread -> Process] :
              \A t, u \in Thread : f[t] = f[u] => t = u

\* All threads in one process, as in an app that uses the FFI.
Together == [t \in Thread |-> CHOOSE p \in Process : TRUE]
=============================================================================
