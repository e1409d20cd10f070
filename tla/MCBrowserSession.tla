-------------------------- MODULE MCBrowserSession --------------------------
EXTENDS BrowserSession

CONSTANTS t1, t2, c1, c2

MCCalls == {c1, c2}

\* Two tabs; one of them makes two API calls at a time, the other none.
TwoTabs == {t1, t2}
TwoTabsCalls == [t \in TwoTabs |-> IF t = t1 THEN MCCalls ELSE {}]

\* One tab with two calls: what one page promises by itself.
OneTab == {t1}
OneTabCalls == [t \in OneTab |-> MCCalls]
=============================================================================
