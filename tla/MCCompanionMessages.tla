------------------------ MODULE MCCompanionMessages -------------------------
EXTENDS CompanionMessages

CONSTANTS p1, p2, l1

\* one message that everybody sees, one private one the watcher gets, one it
\* does not, and one to the lobby
SomePosts == {<<p1, Everyone>>, <<p2, p1>>, <<p2, p2>>, <<p2, ToLobby>>}
=============================================================================
