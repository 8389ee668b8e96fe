---------------------------- MODULE MCGpsCommand ----------------------------
(* Instances of GpsCommand for TLC: the commands of gps_testTask and one    *)
(* GPD pack.                                                                *)
EXTENDS GpsCommand

NoPack == -1

SetOutputInterval == [kind |-> "normal", id |-> 101, fmt |-> "nmea", pack |-> NoPack]
SetLpMode  == [kind |-> "normal", id |-> 105, fmt |-> "nmea", pack |-> NoPack]
GetVersion == [kind |-> "version", id |-> 462, fmt |-> "nmea", pack |-> NoPack]
GPDPack    == [kind |-> "gpd", id |-> 614, fmt |-> "binary", pack |-> 0]

NmeaRequests  == {SetOutputInterval, GetVersion}
MixedRequests == {SetOutputInterval, GPDPack}
OneRequest    == {SetOutputInterval}
=============================================================================
