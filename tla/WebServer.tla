------------------------------ MODULE WebServer ------------------------------
(***************************************************************************)
(* The DSH server as the shell's two observers see it: the page in the     *)
(* window and the health poll.  It is not code of the shell, and it may    *)
(* change at any moment.                                                   *)
(***************************************************************************)
VARIABLE
  answer  \* how a request to the server ends at the moment

\* "ok": with a page.  "error": with a status from 400 on.  "slow": with a
\* page, but not within the two seconds of a health poll.  "down": refused.
Answers == {"ok", "error", "slow", "down"}

ServerChanges == answer' \in Answers \ {answer}

\* QtWebEngine's verdict on a load; on an error status it depends on the version.
LoadResults ==
  IF answer \in {"ok", "slow"} THEN {"loaded"}
  ELSE IF answer = "down" THEN {"failed"} ELSE {"loaded", "failed"}

\* What a health poll takes for a running server.  It asks for no error and a
\* status below 500, but QNetworkReply makes every status from 400 on an error.
Healthy == answer = "ok"
=============================================================================
