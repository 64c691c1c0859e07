-------------------------- MODULE MCSecureRequests --------------------------
EXTENDS SecureRequests, TLC

\* The owner's grant to another holder, which may pass it on twice; that
\* holder's own grant to a caller, which makes a chain; the grant to a group
\* and the grant by a group.
MCGrants ==
    [src : {Owner}, tgt : Holders \ Agents, delegatable : {TRUE}, limit : {2}]
    \cup [src : Holders \ Agents, tgt : Agents, delegatable : {FALSE}, limit : {0}]
    \cup [src : {Owner}, tgt : Groups, delegatable : {FALSE}, limit : {0}]
    \cup [src : Groups, tgt : Agents, delegatable : {FALSE}, limit : {0}]

Sym == Permutations(Calls)
=============================================================================
