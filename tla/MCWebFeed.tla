----------------------------- MODULE MCWebFeed -----------------------------
(* Small instances of WebFeed for TLC.                                     *)
EXTENDS WebFeed, TLC

\* All but the history that neither an action nor a property of the run reads.
View == <<publisher, published, targets, rows, ring, clients, crashed,
          handler, backlog, writer, out, outClosed, connOpen, since, dropped,
          ts, page, answer, conn, hand, hwm, items, loaded, shown, connects>>
=============================================================================
