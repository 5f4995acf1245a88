----------------------------- MODULE Importing -----------------------------
(***************************************************************************)
(* `pulsate import`, then a server started with what it wrote: a foreign    *)
(* configuration becomes a document, which Routing compiles, builds and     *)
(* serves.                                                                  *)
(***************************************************************************)
EXTENDS Routing, Importers

CONSTANT Foreign  \* the foreign configurations: [source, text]

VARIABLE imported  \* [source, text, notes, done]; the source "none" without one

ivars == <<rvars, imported>>

NotImported == [source |-> "none", text |-> <<>>, notes |-> <<>>, done |-> TRUE]

ImportInit ==
    /\ RoutingStart(<<>>)
    /\ \E f \in Foreign : imported = [source |-> f.source, text |-> f.text,
                                      notes |-> <<>>, done |-> FALSE]

ImportConfig ==
    /\ ~imported.done
    /\ \E b \in Import(imported.source, imported.text) :
          /\ doc' = b.flow
          /\ imported' = [imported EXCEPT !.notes = b.notes, !.done = TRUE]
    /\ UNCHANGED <<phase, result, table, asked, served>>

ImportNext == ImportConfig \/ (imported.done /\ RoutingNext /\ UNCHANGED imported)

-----------------------------------------------------------------------------
(* What a foreign text says about pools, read without the importers.        *)

\* The header a HAProxy line stands under.
HeaderOf(text, i) ==
    text[Max({j \in 1..i : ~text[j].indented})].words

\* The pools that have servers, and the pools that requests are sent to.
Served(source, text) ==
    IF source = "haproxy"
    THEN {HeaderOf(text, i)[2][1] : i \in {j \in DOMAIN text :
              /\ text[j].words[1] = <<"server">> /\ Len(text[j].words) > 2
              /\ HeaderOf(text, j)[1] \in {<<"backend">>, <<"listen">>}}}
    ELSE {text[i + 1][1] : i \in {j \in DOMAIN text : text[j] = <<"upstream">>}}

SentTo(source, text) ==
    IF source = "haproxy"
    THEN {text[i].words[2][1] : i \in {j \in DOMAIN text :
              text[j].words[1] \in {<<"use_backend">>, <<"default_backend">>}}}
    ELSE {text[i + 1][3] : i \in {j \in DOMAIN text : /\ text[j] = <<"proxy_pass">>
                                                      /\ Len(text[j + 1]) = 3}}

HasPools == imported.source \in {"haproxy", "nginx"}

\* An imported configuration that does not compile has the fault of its
\* source: requests sent to a pool that has no servers, or two sections for one
\* host.  No importer invents a name, leaves a route without its handler or
\* writes a pool twice (the names of an nginx file's upstreams are distinct),
\* and each pool of the source is in the registry.
RefusedForItsSource ==
    imported.source # "none" /\ imported.done =>
        /\ result.errors \subseteq {"CFG_UNKNOWN_REF", "CFG_HOST_COLLISION"}
        /\ "CFG_UNKNOWN_REF" \in result.errors =>
              /\ HasPools
              /\ ~ SentTo(imported.source, imported.text)
                     \subseteq Served(imported.source, imported.text)
        /\ phase = "serving" =>
              DOMAIN table.registry = IF HasPools THEN Served(imported.source, imported.text) ELSE {}

\* The notes that tell of a route with one of these handlers.
Tells(handler) ==
    CASE handler = "proxy" -> {"reverse_proxy", "proxy_pass", "proxypass", "use_backend", "default_backend"}
      [] handler = "files" -> {"file_server", "root", "documentroot"}
      [] handler = "redirect" -> {"redir", "redirect", "return"}
      [] handler = "respond" -> {"respond", "return", "site", "frontend", "virtualhost"}

AllSteps == FlattenSeq(Map(LAMBDA s : Map(LAMBDA r : r.steps[1], RoutesOf(s)), Sites))

\* The rewrite is not a silent one: no route is written that a note of its kind
\* does not tell of, and a section in which nothing was understood becomes a
\* site that answers with a placeholder and is reported (nginx's server blocks
\* are the exception: they may be left without a route).
ImportIsReported ==
    imported.source # "none" /\ imported.done =>
        /\ \A handler \in {"proxy", "files", "redirect", "respond"} :
              Len(SelectSeq(AllSteps, LAMBDA s : s.name = handler))
                 <= Len(SelectSeq(imported.notes, LAMBDA n : n.directive \in Tells(handler)))
        /\ imported.source # "nginx" => \A s \in ToSet(Sites) : RoutesOf(s) # <<>>
=============================================================================
