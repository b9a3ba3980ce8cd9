---------------------------- MODULE MCBrowserTabs ----------------------------
(***************************************************************************)
(* A small instance of BrowserTabs: two tabs of one browser.               *)
(***************************************************************************)
EXTENDS BrowserTabs, TLC

AnyTabToken == Permutations(Tabs) \cup Permutations(Tokens)
=============================================================================
