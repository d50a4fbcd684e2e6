------------------------------ MODULE UseFetch ------------------------------
(***************************************************************************)
(* The state of one request of a page: src/utils/useFetch.ts.  "deps" is   *)
(* what the request depends on, "call" the deps of the one call somebody   *)
(* listens to; a call that was cancelled changes nothing and is forgotten. *)
(* Data are a record whose "of" is what they were asked with.              *)
(*                                                                         *)
(* Definitions marked "Slip" are wrong variants of the one that follows.   *)
(***************************************************************************)
CONSTANT None  \* no data, no call

(* The first render of the hook.                                           *)
Mounted(deps, skip) ==
  [deps |-> deps, skip |-> skip, data |-> None, loading |-> ~skip, stale |-> FALSE,
   error |-> FALSE, call |-> IF skip THEN None ELSE deps]

(* Slip: the data go with the inputs they were asked with, the flag not.   *)
AskedUnmarked(f, deps) ==
  [f EXCEPT !.deps = deps, !.skip = FALSE, !.loading = f.data = None,
            !.error = FALSE, !.call = deps]

(* Data stay while others are asked for, marked as stale; without data the *)
(* hook is loading.                                                        *)
Asked(f, deps) ==
  [f EXCEPT !.deps = deps, !.skip = FALSE, !.loading = f.data = None,
            !.stale = f.data # None, !.error = FALSE, !.call = deps]

Skipped(f, deps) == [f EXCEPT !.deps = deps, !.skip = TRUE, !.loading = FALSE, !.call = None]

(* A render: the inputs are compared with those of the render before.      *)
Rendered(f, deps, skip) ==
  IF f.deps = deps /\ f.skip = skip THEN f
  ELSE IF skip THEN Skipped(f, deps) ELSE Asked(f, deps)

(* refetch counts the trigger up; while the hook is skipped nothing is asked. *)
refetch(f) == IF f.skip THEN f ELSE Asked(f, f.deps)

Answered(f, data) ==
  [f EXCEPT !.data = data, !.loading = FALSE, !.error = FALSE, !.stale = FALSE, !.call = None]

(* Slip: only an answer ends the loading.                                  *)
RejectedLoading(f) == [f EXCEPT !.error = TRUE, !.stale = FALSE, !.call = None]

(* What was there before is kept.                                          *)
Rejected(f) ==
  [f EXCEPT !.loading = FALSE, !.error = TRUE, !.stale = FALSE, !.call = None]

=============================================================================
