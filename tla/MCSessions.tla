---------------------------- MODULE MCSessions ----------------------------
(* Small instances of Sessions for TLC: two tabs in one browser, or in two. *)
EXTENDS Sessions, TLC
CONSTANTS t1, t2, b1, b2, e1, e2, s1, s2

AnyBrowser == [Tabs -> Browsers]

\* Nothing tells two tabs, browsers, e-mails or subdomains apart at the start.
Interchangeable ==
    Permutations(Tabs) \union Permutations(Browsers)
        \union Permutations(Emails) \union Permutations(Subdomains)
=============================================================================
