--------------------------- MODULE MCPageCacheSync ---------------------------
(* PageCache for TLC with a history of which pages were ever read, to tell    *)
(* the two ways in which a sync can leave a written page out of the file.     *)
EXTENDS MCPageCache

VARIABLE readPages   \* pages that read_page was asked for in this session

HInit == Init /\ readPages = {}

HNext ==
  /\ MCNext
  /\ readPages' = IF out'.op = "read" THEN readPages \union {out'.offset}
                  ELSE readPages

HSpec == HInit /\ [][HNext]_<<vars, readPages>>

(* mydb.h: "Sync cached pages with disk", for the pages that were written and *)
(* never read: no read can have left them marked clean.                       *)
SyncReachesUnreadPages ==
  [][out'.op = "sync" /\ out'.rc = 0
       => \A o \in Offsets \ readPages : disk'[o] = View(o)']_<<vars, readPages>>
==============================================================================
