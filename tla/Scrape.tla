------------------------------- MODULE Scrape -------------------------------
(***************************************************************************)
(* The scraper, internal/scrape/scrape.go, which in the mode "SCRAPE"      *)
(* stands between run and the dispatcher: it starts the dispatcher with a  *)
(* context of its own, scrapes at every tick, and stops the dispatcher     *)
(* when it is done itself.                                                 *)
(*                                                                         *)
(* scrapping makes a channel for errors and ranges over it before it       *)
(* starts any job: nobody can send to the channel or close it, so the      *)
(* first tick is the last thing the goroutine does.  The loop over the     *)
(* targets, scrape, and rworker.Job are never reached.                     *)
(***************************************************************************)
VARIABLES
  ctxDone,      \* the context given to Run is done
  outlierDone,  \* the context given to the dispatcher's Run is done
  scraper       \* "off" until the goroutine starts; at "select"; in
                \* "scrapping"; then about to "report", to "cancel", "ended"

ScraperAt == {"off", "select", "scrapping", "report", "cancel", "ended"}

At(from, to) == scraper = from /\ scraper' = to /\ UNCHANGED <<ctxDone, outlierDone>>

Init == ctxDone = FALSE /\ outlierDone = FALSE /\ scraper = "off"

(* Run, after the dispatcher's Run returned. *)
Launch == At("off", "select")

(* A tick is as good as ctx.Done() to the select statement. *)
Tick == At("select", "scrapping")

(* Mutant: the dispatcher is stopped as soon as the context is done. *)
DoneCancels == /\ ctxDone
               /\ scraper = "select"
               /\ scraper' = "report"
               /\ outlierDone' = TRUE
               /\ UNCHANGED ctxDone

Done == ctxDone /\ At("select", "report")

(* The deferred function: s.shutdownCh <- nil, then s.cancelOutlier().     *)
Report == At("report", "cancel")

CancelOutlier == /\ scraper = "cancel"
                 /\ scraper' = "ended"
                 /\ outlierDone' = TRUE
                 /\ UNCHANGED ctxDone
=============================================================================
