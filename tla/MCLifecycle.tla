---------------------------- MODULE MCLifecycle ----------------------------
(* Small instances of PluginLifecycle for TLC. *)
EXTENDS PluginLifecycle

\* Two preferences that differ in who may talk and in who is notified
TwoProfiles ==
  {[white |-> {"a"}, notify |-> {"a"}], [white |-> {"a", "b"}, notify |-> {"b"}]}

\* The dialog of GTK sends every key, the web page those that were changed
AllKeys == {"telegram_token", "users", "minimum_speed", "user_timer", "proxy_url"}
DialogOrPage ==
  {AllKeys, {"telegram_token"}, {"users", "user_timer"}, {"minimum_speed"}, {"proxy_url"}}
============================================================================
