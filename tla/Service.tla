------------------------------ MODULE Service ------------------------------
(***************************************************************************)
(* What someone who switches Telegramer on, off, and configures it is      *)
(* promised: at most one bot serves at a time, a bot serves the preferences *)
(* it was started with until it is stopped, a new one starts only after    *)
(* the old one was stopped and takes the preferences of that moment, and   *)
(* the plugin is switched on again only when the last bot has stopped.     *)
(* Nothing is promised any more once the bot could not be stopped.         *)
(***************************************************************************)
CONSTANTS
  Tokens,      \* the tokens of a bot
  None         \* no bot

VARIABLES
  config,      \* the preferences: a token and who may talk and is notified
  on,          \* whether the plugin is switched on
  bot,         \* the bot that serves, or None
  broken       \* a bot could not be stopped

svars == <<config, on, bot, broken>>

NewBot == [token |-> config.telegram_token,
           white |-> config.users.white,
           notify |-> config.users.notify]

Init == ~on /\ bot = None /\ ~broken

SwitchOn == ~on /\ bot = None /\ on' = TRUE /\ UNCHANGED <<config, bot, broken>>

SwitchOff == on /\ on' = FALSE /\ UNCHANGED <<config, bot, broken>>

Configure == on /\ UNCHANGED <<on, bot, broken>>

Start ==
  /\ on
  /\ bot = None
  /\ config.telegram_token \in Tokens
  /\ bot' = NewBot
  /\ UNCHANGED <<config, on, broken>>

Stop == bot' = None /\ UNCHANGED <<config, on, broken>>

Break == broken' = TRUE

Next == SwitchOn \/ SwitchOff \/ Configure \/ Start \/ Stop \/ Break

Spec == Init /\ [][Next]_svars
=============================================================================
