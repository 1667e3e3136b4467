--------------------------- MODULE MCHostAdapters ---------------------------
(***************************************************************************)
(* Two slots and three requests, so that a slot is used again while the    *)
(* other one is busy and while frames of its first use are left.  Chunks   *)
(* of the open-channel SSD have two pages of two blocks: writes that fill, *)
(* repeat, overlap and reorder them, and resets in between.                *)
(***************************************************************************)
EXTENDS HostAdapters

Op(op, lbas) == [op |-> op, lbas |-> lbas]
OpenChannelWorkloads ==
    {<<Op("vectorWrite", <<0, 1, 2, 3>>), Op("reset", <<0, 2>>), Op("vectorWrite", <<0, 1, 4>>)>>,
     <<Op("vectorWrite", <<0, 1>>), Op("vectorWrite", <<2, 3, 0>>), Op("reset", <<0>>)>>,
     <<Op("vectorWrite", <<2, 6>>), Op("vectorWrite", <<6, 2>>), Op("reset", <<0, 4>>)>>,
     <<Op("vectorWrite", <<4, 6>>), Op("reset", <<4>>), Op("vectorWrite", <<0, 2>>)>>,
     <<Op("vectorWrite", <<2>>), Op("reset", <<0>>), Op("write", <<1, 5>>)>>,
     <<Op("write", <<1, 5>>), Op("vectorWrite", <<8, 10>>), Op("reset", <<0>>)>>,
     <<Op("vectorWrite", <<4, 0>>), Op("write", <<0, 4>>), Op("vectorRead", <<2, 5>>)>>,
     <<Op("write", <<0, 2>>), Op("read", <<0, 2>>), Op("log", << >>)>>,
     <<Op("trim", << >>), Op("geometry", << >>), Op("reset", <<0>>)>>,
     <<Op("pageWrite", <<0, 1>>), Op("pageRead", <<0>>), Op("blockErase", <<0, 4>>)>>,
     <<Op("pageWrite", <<4>>), Op("identification", << >>), Op("blockErase", <<4>>)>>,
     <<Op("setBadBlocks", <<0>>), Op("getBadBlocks", <<0>>), Op("pageRead", <<0, 4>>)>>}

MCWorkloads ==
    [sata |-> {<<"write", "read", "invalid">>,
               <<"flush", "write", "feature">>,
               <<"verify", "identify", "writeQueued">>,
               <<"identify", "readQueued", "writeQueued">>,
               <<"writeQueued", "readQueued", "readQueued">>,
               <<"writeQueued", "writeQueued", "flush">>},
     ufs |-> {<<"nop", "query", "read">>,
              <<"inquiry", "write", "flush">>,
              <<"modeSense", "status", "write">>,
              <<"verify", "capacity", "luns">>},
     ocssd |-> OpenChannelWorkloads]
=============================================================================
