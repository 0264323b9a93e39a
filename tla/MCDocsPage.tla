----------------------------- MODULE MCDocsPage -----------------------------
(***************************************************************************)
(* DocsPage on four pages of the site: a package, a class of it, a member  *)
(* of the class, and a member of its companion.  A page id is cut where it *)
(* has a slash, and where a name of the site is the beginning of another.  *)
(***************************************************************************)
EXTENDS DocsPage

SitePages == {"jobs.model", "JobDispatch", "toJson", "Companion.fromJson"}

SiteTabs ==
  [p \in SitePages |-> CASE p = "jobs.model"  -> {"Types"}
                         [] p = "JobDispatch" -> {"Types", "Properties"}
                         [] OTHER             -> {}]

SiteFirstTab == [p \in SitePages |-> IF SiteTabs[p] = {} THEN "none" ELSE "Types"]

\* The link to a property is found in its row and again in the row's content.
SiteAnchors ==
  [p \in SitePages |->
     IF p = "JobDispatch"
       THEN <<[name |-> "body",      tab |-> "Properties"],
              [name |-> "body",      tab |-> "main"],
              [name |-> "Companion", tab |-> "Types"]>>
       ELSE <<>>]

End == <<"/", "/", "/", "Declaration">>

SiteMenu ==
  <<[path |-> <<>>,     id |-> <<"lib::", "/">> \o End],
    [path |-> <<0>>,    id |-> <<"lib::", "jobs", "/">> \o End],
    [path |-> <<0, 0>>, id |-> <<"lib::", "jobs", "/", "QueueConfig">> \o End],
    [path |-> <<2>>,    id |-> <<"lib::", "jobs", ".model", "/">> \o End],
    [path |-> <<2, 0>>, id |-> <<"lib::", "jobs", ".model", "/", "ErrorNotification">> \o End],
    [path |-> <<2, 1>>, id |-> <<"lib::", "jobs", ".model", "/", "JobDispatch">> \o End]>>

SitePageIds ==
  [p \in SitePages |->
     <<"lib::", "jobs", ".model", "/">> \o
       CASE p = "jobs.model"  -> End
         [] p = "JobDispatch" -> <<"JobDispatch">> \o End
         [] p = "toJson"      -> <<"JobDispatch", "/", "toJson", "/", "#", "/", "Declaration">>
         [] OTHER             -> <<"JobDispatch", ".Companion", "/", "fromJson", "/", "#ObjectNode",
                                   "/", "Declaration">>]

\* As the breadcrumbs of the pages have it.
SiteOwner ==
  [p \in SitePages |-> IF p = "jobs.model" THEN {<<>>, <<2>>} ELSE {<<>>, <<2>>, <<2, 1>>}]

\* JobDispatch.Companion, of which fromJson is a member, is not in navigation.html.
SiteUnlisted == {"Companion.fromJson"}
=============================================================================
