------------------------------ MODULE MCTelegram ------------------------------
(* TelegramPolling for TLC: chat 1 is listed, chat 2 is not.               *)
EXTENDS TelegramPolling

\* A message, a button press, the message again under a new id.
MCStream == <<[kind |-> "message", chat |-> 1, mid |-> 1, sender |-> 1, text |-> "hello"],
              [kind |-> "callback", chat |-> 1, mid |-> 1, sender |-> 1, text |-> ""],
              [kind |-> "message", chat |-> 1, mid |-> 1, sender |-> 1, text |-> "hello"]>>
=============================================================================
