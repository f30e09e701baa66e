---------------------------- MODULE MCConnector ----------------------------
(* Instances of Connector for TLC: what the user calls, in which order.    *)
EXTENDS Connector

ConnectOnce ==
    {<<"connect">>, <<"connect", "stop">>, <<"connect", "disconnect">>,
     <<"connect", "destroy">>, <<"connect", "disconnect", "stop">>,
     <<"connect", "stop", "destroy">>, <<"enableRetry", "connect">>,
     <<"enableRetry", "connect", "disconnect">>, <<"enableRetry", "connect", "stop">>,
     <<"enableRetry", "connect", "disconnect", "stop">>,
     <<"enableRetry", "connect", "destroy">>, <<"enableRetry", "connect", "disconnect", "destroy">>,
     <<"enableRetry", "connect", "stop", "destroy">>}
ConnectAfterDisconnect == {<<"connect", "disconnect", "connect">>}
=============================================================================
