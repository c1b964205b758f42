------------------------------- MODULE MCSite -------------------------------
(* Two sites and the studio; pages with parameters, a catch-all, holes       *)
(* filed under tables and not, a disk file, an empty file, colliding URLs.   *)
EXTENDS Site

Seg(k, t) == [kind |-> k, text |-> t]
Cells(src, n) == [i \in 1..n |-> [src |-> src, enc |-> "identity", at |-> i]]
Page(src, url, kind, mime, n) ==
    [src |-> src, url |-> url, kind |-> kind, mime |-> mime, body |-> Cells(src, n),
     tables |-> src # "raw"]

Home == Page("home", <<>>, "static", "html", 2)
User == Page("user", <<Lit("u"), Seg("param", "id")>>, "hole", "html", 1)
Raw == Page("raw", User.url, "hole", "html", 1)
UserTab == Page("tab", <<Lit("u"), Seg("param", "id"), Lit("tab")>>, "static", "html", 1)
UserBad == Page("bad", <<Lit("u"), Seg("param", "name"), Lit("x")>>, "static", "html", 1)
Me == Page("me", <<Lit("u"), Lit("me")>>, "static", "html", 1)
MeToo == Page("me2", <<Lit("u"), Lit("me")>>, "static", "png", 1)
Rest == Page("rest", <<Lit("u"), Seg("all", "rest")>>, "static", "png", 2)
Film == Page("film", <<Lit("film")>>, "file", "mp4", 0)
Blank == Page("blank", <<Lit("blank")>>, "static", "css", 0)
Notes == Page("notes", <<Lit("n")>>, "meta", "toml", 1)
Api == Page("api", <<Lit("api")>>, "static", "html", 1)
Odd == Page("odd", <<Lit("u"), Lit(""), Lit("me")>>, "static", "html", 1)

MCContents == << {{Home, User, Me}, {User, UserTab, Me, Rest}, {Rest, Raw, Film}, {Me, MeToo, Blank},
                  {User, UserBad}, {Me, Odd}, {Notes, Api}, {Film, UserTab, Rest}},
                 {{Home, Film}, {Rest, Notes}} >>
Route(name, methods, mw) == [url |-> <<Lit(name)>>, methods |-> methods, mw |-> mw, action |-> name]
MCRoutes == <<Route("api", {}, <<"audit", "auth">>)>>
MCStudioRoutes == <<Route("sql", {"POST"}, <<"auth">>), Route("tables", {"GET"}, <<>>),
                    Route("pages", {"GET"}, <<"audit">>)>>
MCStudioBody == Cells("studio", 1)

UrlList == <<Rest.url, <<Lit("api")>>, Me.url, Film.url, <<Lit("sql")>>, User.url, UserTab.url,
             <<>>, Odd.url, Blank.url, <<Lit("tables")>>, UserBad.url, Notes.url, <<Lit("pages")>>>>
MCHash == [u \in ToSet(UrlList) |-> IndexOf(UrlList, u)]

Paths == {<<"", "">>, <<"", "u", "me">>, <<"", "u", "7">>, <<"", "u", "7", "tab", "">>,
          <<"", "u", "me", "tab">>, <<"", "u", "7", "x", "y">>, <<"", "u", "">>, <<"", "u", "", "me">>, <<"", "blank">>}
Get(host, path, accept) ==
    [host |-> host, path |-> path, method |-> "GET", accept |-> accept, deny |-> {}]
MCRequests ==
    {Get("main", p, a) : p \in Paths, a \in {{}, {"gzip", "br"}}}
    \cup {Get(h, p, {"gzip"}) : h \in {"docs", "studio", "other"}, p \in {<<"", "">>, <<"", "film">>}}
    \cup {[Get(h, <<"", a>>, {}) EXCEPT !.method = m, !.deny = d] :
              h \in {"main", "studio"}, a \in {"api", "sql", "tables", "pages"}, m \in {"HEAD", "POST"},
              d \in {{}, {"auth"}}}
MCSiteHosts == <<{"main"}, {"docs", "*"}>>
=============================================================================
