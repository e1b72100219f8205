------------------------------ MODULE MCDevice ------------------------------
EXTENDS Device

Arg(text) == <<text, -1>>
Num(text, n) == <<text, n>>

MCHubUri == {"wss://hub:4443"}
MCBadName == {""}

MCWords == {
  <<Arg("--xml")>>, <<Arg("--version")>>, <<Arg("--port")>>, <<Arg("COM4")>>, <<Arg("--baud"), Num("9600", 9600)>>,
  <<Arg("--datalink"), Arg("ip")>>, <<Arg("--datalink"), Arg("ipv6")>>, <<Arg("--datalink"), Arg("wifi")>>,
  <<Arg("--datalink"), Arg("mstp"), Arg("--mstp-port"), Arg("COM3")>>,
  <<Arg("--datalink"), Arg("sc")>>, <<Arg("--sc-hub"), Arg("wss://hub:4443")>>, <<Arg("--sc-hub"), Arg("ws://hub")>>,
  <<Arg("--import-cari"), Arg("response.zip")>>, <<Arg("--sc-failover-hub"), Arg("wss://hub:4443")>>,
  <<Arg("--deviceID"), Num("4194302", 4194302)>>, <<Arg("--deviceID"), Num("4194303", 4194303)>>,
  <<Arg("--port"), Num("47809", 47809)>>, <<Arg("--port"), Num("0", 0)>>,
  <<Arg("--deviceName"), Arg("Pump 3")>>, <<Arg("--deviceName"), Arg("")>>,
  <<Arg("--interface"), Num("3", 3)>>, <<Arg("--mstp-baud"), Num("76800", 76800)>>,
  <<Arg("--mstp-mac"), Num("5", 5)>>, <<Arg("--mstp-max-master"), Num("4", 4)>>,
  <<Arg("--mstp-max-info-frames"), Num("256", 256)>> }

\* The hypothesis of OrderOfWords (MainLoopProofs) holds of these words.
ASSUME MCWordsAreWhole == \A w \in Words : Whole(w)

MCPortValues == "Max_Master" :> {0, 64} @@ "Network_Number" :> {7} @@
                "FD_Subscription_Lifetime" :> {60}

\* docs/objects.json, the properties of each object under "app", "enabled" and
\* "writable".  The stack serves what it makes enabled or writable by itself, and
\* holds the lists and logs a client may write.  (Lilac's reporting properties
\* come with its event reporting; the three Vermilion properties listed under
\* "app" that are listed under "stack" for every other port are left out.)
Files == {"Ivory"} \cup CertificateFiles
Pairs(objects, properties) == objects \X properties
MCContract ==
  [objects |-> {"Device", "Bronze", "Emerald", "HotPink", "Chartreuse", "Fuchsia", "Indigo", "Diamond", "Crimson",
                "Vermilion", "Cerulean", "Amber", "Teal", "Saffron", "Cream", "Lilac", "Magenta"} \cup Files,
   app |-> UNION {
     Pairs({"Device"}, {"Object_Name", "Description", "Vendor_Name", "Vendor_Identifier", "Model_Name",
                        "Firmware_Revision", "Application_Software_Version"}),
     Pairs({"Bronze", "Diamond"}, {"Present_Value", "Object_Name", "Units", "Out_Of_Service"}),
     Pairs({"Emerald"}, {"Present_Value", "Object_Name", "Polarity", "Out_Of_Service"}),
     Pairs({"HotPink"}, {"Present_Value", "Object_Name", "Number_Of_States", "Out_Of_Service", "State_Text"}),
     Pairs({"Chartreuse"}, {"Object_Name", "Units", "Out_Of_Service", "Relinquish_Default"}),
     Pairs({"Fuchsia"}, {"Object_Name", "Polarity", "Out_Of_Service", "Relinquish_Default"}),
     Pairs({"Indigo"}, {"Object_Name", "Number_Of_States", "Out_Of_Service", "Relinquish_Default"}),
     Pairs({"Diamond", "Saffron"}, {"Reliability", "Out_Of_Service"}),
     Pairs({"Vermilion", "Cerulean", "Amber", "Teal"}, {"Object_Name", "Out_Of_Service"}),
     Pairs({"Vermilion", "Cerulean", "Amber"}, {"Link_Speed"}),
     Pairs({"Cerulean"}, {"IPv6_Address", "IPv6_Prefix_Length", "BACnet_IPv6_UDP_Port", "IPv6_Default_Gateway",
                          "IPv6_DNS_Server"}),
     Pairs({"Amber"}, {"MAC_Address", "Max_Master", "Max_Info_Frames"}),
     Pairs(Files, {"Object_Name", "File_Type", "File_Size", "Modification_Date", "Archive", "Read_Only"})},
   enabled |-> {<<"Device", "Description">>, <<"HotPink", "State_Text">>, <<"Diamond", "Reliability">>,
                <<"Cerulean", "Link_Speed">>, <<"Amber", "Link_Speed">>} \cup
               Pairs({"Teal"}, {"Current_Health", "SC_Primary_Hub_Connection_Status",
                                "SC_Failover_Hub_Connection_Status"}),
   writable |-> Pairs(Outputs, {"Present_Value"}) \cup
                {<<"Crimson", "Recipient_List">>, <<"Cream", "Date_List">>, <<"Ivory", "Archive">>,
                 <<"Amber", "Max_Master">>, <<"Amber", "Max_Info_Frames">>} \cup
                Pairs({"Lilac", "Magenta"}, {"Enable", "Record_Count", "Log_Interval"}),
   stack |-> Pairs({"Teal"}, {"Current_Health", "SC_Primary_Hub_Connection_Status",
                              "SC_Failover_Hub_Connection_Status"}) \cup
             {<<"Amber", "Max_Master">>, <<"Amber", "Max_Info_Frames">>} \cup
             Pairs({"Lilac", "Magenta"}, {"Enable", "Record_Count", "Log_Interval"}),
   held |-> {<<"Crimson", "Recipient_List">>, <<"Cream", "Date_List">>} \cup
            Pairs({"Lilac", "Magenta"}, {"Enable", "Record_Count", "Log_Interval"})]
=============================================================================
